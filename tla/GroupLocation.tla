--------------------------- MODULE GroupLocation ---------------------------
(***************************************************************************)
(* KsRsVerifier::resVerify over the inputs it can get: a group of some     *)
(* size and threshold, the last of a round perhaps shorter, with packets   *)
(* that arrived genuine, arrived altered or did not arrive, and tags of    *)
(* which some rows were altered on the way.  The same inputs are judged    *)
(* here by what the matrix is for.                                         *)
(***************************************************************************)
EXTENDS KsRs

CONSTANTS
    Sizes,       \* pairs of a group size and a detection threshold
    AnyLoss,     \* sizes up to which every pattern of loss is tried
    FarPatterns  \* altered positions tried for the sizes above

ASSUME LocationAssumption ==
    /\ \A s \in Sizes : /\ s[1] \in Nat /\ s[2] \in 1 .. s[1] - 1
                        /\ Candidates(s[1], s[2]) # {}
    /\ AnyLoss \in Nat

VARIABLES
    matrix,   \* the parameters findBestParameters chose
    macs,     \* vecPacketMacSlots
    forged,   \* rows whose tau was altered
    result    \* KsRsVerificationResult, or Nothing before the call

vars == <<matrix, macs, forged, result>>

Nothing == [good |-> {}, bad |-> {}, exceeded |-> FALSE, known |-> FALSE]

(* Slots 0 .. n-1 of a group, at most one more than threshold not genuine. *)
Patterns(size, threshold) ==
    IF size <= AnyLoss
    THEN {f \in UNION {[0 .. n - 1 -> {"genuine", "altered", "none"}] :
                       n \in {size - 1, size}} :
              Cardinality({p \in DOMAIN f : f[p] # Genuine}) <= threshold + 1}
    ELSE {[p \in 0 .. size - 1 |-> IF p \in altered THEN "altered" ELSE Genuine] :
              altered \in FarPatterns}

Init ==
    \E s \in Sizes :
        /\ matrix = Matrix(s[1], s[2])
        /\ macs \in Patterns(s[1], s[2])
        /\ forged \in {{}, {<<0, 0>>}}
        /\ result = Nothing

(* One call; it reads the group and returns. *)
Verify ==
    /\ ~result.known
    /\ LET v == Verification(matrix, macs, forged)
       IN  result' = [good |-> v.good, bad |-> v.bad, exceeded |-> v.exceeded,
                      known |-> TRUE]
    /\ UNCHANGED <<matrix, macs, forged>>

Next == Verify

Spec == Init /\ [][Next]_vars
-----------------------------------------------------------------------------
NotGenuine == {p \in DOMAIN macs : macs[p] # Genuine}

(* resVerify: a position whose packet is altered or absent is never called *)
(* good, whatever else was lost or altered in the group.                   *)
NoBadPacketPasses == result.good \cap NotGenuine = {}

(* KsRsMatrix.h:22 calls the threshold the number of abnormal positions    *)
(* that can be tolerated or located: up to that many, and with the tags    *)
(* intact, exactly the abnormal ones are called bad.  More abnormal        *)
(* positions are announced as such.                                        *)
LocatesExactly ==
    result.known =>
        /\ forged = {} /\ Cardinality(NotGenuine) <= matrix.threshold
            => result.bad = NotGenuine /\ ~result.exceeded
        /\ Cardinality(NotGenuine) > matrix.threshold => result.exceeded
=============================================================================
