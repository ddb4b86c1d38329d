-------------------------- MODULE ImprovedReceiver --------------------------
(***************************************************************************)
(* One trusted sender as AuthenticationReceiverRuntime keeps it in the     *)
(* improved mode: packets are judged group by group.  The last packet of a *)
(* group carries a fast tag over the whole group, made with a key that is  *)
(* published long before the keys of the packets, and the taus of the      *)
(* KS+RS matrix, which tell good packets from bad ones when the fast tag   *)
(* does not match or a packet is missing.  With a disclosure delay above   *)
(* one the fast key is public while packets of the group are still         *)
(* accepted: from then on the tag need not be the sender's.                *)
(*                                                                         *)
(* Time is the interval the sender is in (pauses and clock tolerance are   *)
(* the subject of ReceiverContext): what was sent may arrive in any later  *)
(* interval, altered, repeated, out of order or not at all.  Known keys    *)
(* are a prefix of the chain (KeysReachBack of ReceiverRuntime), so the    *)
(* last one stands for all.  That the codec refuses a group end without    *)
(* its tags is the subject of PacketCodec.                                 *)
(***************************************************************************)
EXTENDS AuthenticationRound, KsRs

CONSTANTS
    PacketTotal,    \* data packets of the round
    GroupSize,      \* packets of a full group
    DetectionThreshold,
    MaxCandidateVersions,  \* MAX_CANDIDATE_VERSIONS_PER_PACKET
    MaxRivals       \* bound: further candidates of all packets together

(* What is assumed of them. *)
ImprovedAssumption ==
    /\ PacketTotal \in Nat \ {0} /\ GroupSize \in Nat \ {0}
    /\ DetectionThreshold \in 1 .. GroupSize - 1
    /\ Candidates(GroupSize, DetectionThreshold) # {}
    /\ MaxCandidateVersions \in Nat \ {0} /\ MaxRivals \in Nat

VARIABLES
    now,        \* the interval the sender is in
    baseline,   \* vecPacketRecords: the copy stored for each packet, or "none"
    verdict,    \* PacketStatus of each stored packet
    rivals,     \* mapAdditionalCandidates: further copies, in order of arrival
    key,        \* the last key of the chain in mapDisclosedKeys, 0 for none
    judged,     \* setVerifiedGroups, with the path that was taken
    excess,     \* groups announced to exceed the threshold
    incomplete, \* bProtocolIncomplete
    outcome     \* status of the result, or "none" while the round is active

vars == <<now, baseline, verdict, rivals, key, judged, excess, incomplete, outcome>>

Packets == 1 .. PacketTotal
Intervals == DataIntervalCount(PacketTotal)
Groups == 1 .. ((PacketTotal + GroupSize - 1) \div GroupSize)

GroupOf(p) == ((p - 1) \div GroupSize) + 1
GroupFirst(g) == (g - 1) * GroupSize + 1
GroupLast(g) == IF g * GroupSize < PacketTotal THEN g * GroupSize ELSE PacketTotal
GroupPackets(g) == GroupFirst(g) .. GroupLast(g)
GroupInterval(g) == IntervalOfPacket(GroupLast(g))
IsGroupEnd(p) == p = GroupLast(GroupOf(p))

(* What may have happened to a packet: nothing, its content, and for the   *)
(* end of a group its fast tag or the tau of a row, or its content with a  *)
(* fast tag that was made again to fit the group as it is stored.          *)
Copies(p) == {"genuine", "altered"}
             \cup (IF IsGroupEnd(p) THEN {"badTag", "badTau", "remade"} ELSE {})

MacOf(copy) == CASE copy = "none" -> Missing
                 [] copy \in {"altered", "remade"} -> "altered"
                 [] OTHER -> Genuine

ForgedRows(copy) == IF copy = "badTau" THEN {<<0, 0>>} ELSE {}

TheMatrix == Matrix(GroupSize, DetectionThreshold)

FastGroupKeyIndex(i) == IF i <= DisclosureDelay THEN 1 ELSE i - DisclosureDelay + 1

(* A disclosed key of interval i is known to everybody from i + d on. *)
IsTimeSafe(i) == now < i + DisclosureDelay

(* The tag can be made again once everybody has the fast key. *)
FastKeyPublic(g) == now >= FastGroupKeyIndex(GroupInterval(g)) + DisclosureDelay

Arriving(p) == {copy \in Copies(p) : copy = "remade" => FastKeyPublic(GroupOf(p))}

(* A candidate beside the baseline: judged by the key of interval. *)
Rival(copy, attack, interval) ==
    [copy |-> copy, attack |-> attack, interval |-> interval, status |-> "Pending"]

Init ==
    /\ now = 1
    /\ baseline = [p \in Packets |-> "none"]
    /\ verdict = [p \in Packets |-> "Pending"]
    /\ rivals = [p \in Packets |-> <<>>]
    /\ key = 0
    /\ judged = [g \in Groups |-> "no"]
    /\ excess = {}
    /\ incomplete = FALSE
    /\ outcome = "none"
-----------------------------------------------------------------------------
(* Judging.  base and k are what is stored and known when the group is     *)
(* looked at.                                                              *)

Absent(base, g) == {p \in GroupPackets(g) : base[p] = "none"}

(* The fast tag covers the content of every packet and all taus: the       *)
(* sender's tag fits what it sent, one that was made again what is stored. *)
FastTagMatches(base, g) ==
    /\ Absent(base, g) = {}
    /\ base[GroupLast(g)] = "remade" \/ \A p \in GroupPackets(g) : base[p] = "genuine"

Contested(g) == \E p \in GroupPackets(g) : rivals[p] # <<>>

(* bVerifyImprovedGroupLocked returns true; its early returns leave the     *)
(* group for the next call.                                                *)
CanJudge(base, k, g) ==
    /\ base[GroupLast(g)] # "none"
    /\ FastGroupKeyIndex(GroupInterval(g)) <= k
    /\ Absent(base, g) # {} \/ Contested(g) => GroupInterval(g) <= k
    /\ FastTagMatches(base, g) \/
           \A p \in GroupPackets(g) \ Absent(base, g) : IntervalOfPacket(p) <= k

(* Defect: the slots of a shorter last group are counted from its end. *)
LocatedFromEnd(base, g) ==
    Verification(TheMatrix,
                 [n \in 0 .. GroupLast(g) - GroupFirst(g) |-> MacOf(base[GroupLast(g) - n])],
                 ForgedRows(base[GroupLast(g)]))
(* The fallback, with slots numbered from 0 as the matrix has its columns. *)
Located(base, g) ==
    Verification(TheMatrix,
                 [n \in 0 .. GroupLast(g) - GroupFirst(g) |-> MacOf(base[GroupFirst(g) + n])],
                 ForgedRows(base[GroupLast(g)]))

Ready(base, k) == {g \in Groups : judged[g] = "no" /\ CanJudge(base, k, g)}

VerdictAfter(base, k) ==
    [p \in Packets |->
        LET g == GroupOf(p)
        IN  IF g \notin Ready(base, k) \/ base[p] = "none" THEN verdict[p]
            ELSE IF FastTagMatches(base, g) THEN "Passed"
            ELSE IF p - GroupFirst(g) \in Located(base, g).good THEN "Passed"
            ELSE "Failed"]

JudgedAfter(base, k) ==
    [g \in Groups |-> IF g \notin Ready(base, k) THEN judged[g]
                      ELSE IF FastTagMatches(base, g) THEN "fast" ELSE "matrix"]

ExcessAfter(base, k) ==
    excess \cup {g \in Ready(base, k) : ~FastTagMatches(base, g) /\ Located(base, g).exceeded}

(* The first ordinary candidate of a packet is tried in a group that       *)
(* passed; it differs from the packet that passed and so it is refused.    *)
FirstOrdinary(p, n) ==
    /\ ~rivals[p][n].attack
    /\ \A m \in 1 .. n - 1 : rivals[p][m].attack

TriedInGroup(base, k, p, n) ==
    /\ GroupOf(p) \in Ready(base, k) /\ FastTagMatches(base, GroupOf(p))
    /\ FirstOrdinary(p, n)

(* verifyAttackImprovedCandidatesLocked: a robustness copy is tried under  *)
(* the key of the interval it arrived in.                                  *)
KeysForAttack(k, p, rival) ==
    /\ rival.interval <= k
    /\ \A q \in GroupPackets(GroupOf(p)) \ {p} : IntervalOfPacket(q) <= k
    /\ FastGroupKeyIndex(IF IntervalOfPacket(p) = rival.interval
                         THEN GroupInterval(GroupOf(p)) ELSE rival.interval) <= k

AttackReady(base, k, p, rival) ==
    /\ rival.attack /\ rival.status = "Pending"
    /\ base[GroupLast(GroupOf(p))] # "none"
    /\ KeysForAttack(k, p, rival)

(* A copy like the stored one in a group that passes is a duplicate. *)
IsReplay(base, p, rival) ==
    /\ IntervalOfPacket(p) = rival.interval
    /\ rival.copy = base[p] /\ FastTagMatches(base, GroupOf(p))

RivalsAfter(base, k) ==
    [p \in Packets |-> [n \in DOMAIN rivals[p] |->
        LET rival == rivals[p][n]
        IN  IF TriedInGroup(base, k, p, n) THEN [rival EXCEPT !.status = "Failed"]
            ELSE IF AttackReady(base, k, p, rival)
            THEN [rival EXCEPT !.status = IF IsReplay(base, p, rival)
                                          THEN "Duplicate" ELSE "Failed"]
            ELSE rival]]

(* finalizeLocked, after the last key. *)
FinalStatus(base, verdicts) ==
    IF incomplete THEN "ProtocolIncomplete"
    ELSE IF \A p \in Packets : base[p] # "none" /\ verdicts[p] = "Passed"
    THEN "Completed" ELSE "AuthenticationFailed"

(* Everything that follows from storing base and knowing the keys up to k. *)
Judge(base, k) ==
    /\ baseline' = base /\ key' = k
    /\ verdict' = VerdictAfter(base, k)
    /\ judged' = JudgedAfter(base, k)
    /\ excess' = ExcessAfter(base, k)
    /\ rivals' = RivalsAfter(base, k)
    /\ outcome' = IF k = Intervals THEN FinalStatus(base, verdict') ELSE "none"
    /\ UNCHANGED <<now, incomplete>>

Later(k) == IF k > key THEN k ELSE key
-----------------------------------------------------------------------------
(* Datagrams.                                                              *)

(* The first packet of an interval after the first d carries a key. *)
KeyOf(p) == DisclosedKey(IntervalOfPacket(p), p - FirstPacketIndex(IntervalOfPacket(p)) + 1)

Sent(p) == IntervalOfPacket(p) <= now

(* Too late to be told from a packet made with the published key. *)
ReceiveLate(p) ==
    /\ outcome = "none" /\ Sent(p)
    /\ ~IsTimeSafe(IntervalOfPacket(p))
    /\ incomplete' = TRUE
    /\ UNCHANGED <<now, baseline, verdict, rivals, key, judged, excess, outcome>>

(* The first copy of a packet is its baseline. *)
ReceiveFirst(p, copy) ==
    /\ outcome = "none" /\ Sent(p)
    /\ IsTimeSafe(IntervalOfPacket(p))
    /\ baseline[p] = "none"
    /\ Judge([baseline EXCEPT ![p] = copy], Later(KeyOf(p)))

HasRoom(p) ==
    /\ Len(rivals[p]) + 1 < MaxCandidateVersions
    /\ Cardinality({c \in Packets \X (1 .. MaxRivals) : c[2] <= Len(rivals[c[1]])})
         < MaxRivals

Keep(p, rival) ==
    /\ HasRoom(p)
    /\ rivals' = [rivals EXCEPT ![p] = Append(@, rival)]
    /\ UNCHANGED <<now, baseline, verdict, key, judged, excess, incomplete, outcome>>

(* Another copy is kept beside it; one that is known already only counts. *)
ReceiveConflict(p, copy) ==
    /\ outcome = "none" /\ Sent(p)
    /\ IsTimeSafe(IntervalOfPacket(p))
    /\ baseline[p] \notin {"none", copy}
    /\ \A n \in DOMAIN rivals[p] :
           ~(rivals[p][n].copy = copy /\ rivals[p][n].interval = IntervalOfPacket(p))
    /\ Keep(p, Rival(copy, FALSE, IntervalOfPacket(p)))

(* A copy from a mapped robustness tool never takes the baseline's place. *)
ReceiveAttack(p, copy) ==
    /\ outcome = "none" /\ Sent(p)
    /\ now <= Intervals
    /\ \A n \in DOMAIN rivals[p] : rivals[p][n].copy # copy
    /\ Keep(p, Rival(copy, TRUE, now))

(* Such a copy after the last data interval. *)
ReceiveAttackLate ==
    /\ outcome = "none"
    /\ now > Intervals
    /\ incomplete' = TRUE
    /\ UNCHANGED <<now, baseline, verdict, rivals, key, judged, excess, outcome>>

(* A disclosure packet of interval i, sent after the data. *)
ReceiveKey(i) ==
    /\ outcome = "none"
    /\ i <= now
    /\ Judge(baseline, Later(i - DisclosureDelay))

Tick ==
    /\ now < Intervals + DisclosureDelay
    /\ now' = now + 1
    /\ UNCHANGED <<baseline, verdict, rivals, key, judged, excess, incomplete, outcome>>

Receive ==
    \E p \in Packets :
        \/ ReceiveLate(p)
        \/ \E copy \in Arriving(p) : \/ ReceiveFirst(p, copy)
                                     \/ ReceiveConflict(p, copy)
                                     \/ ReceiveAttack(p, copy)

Next ==
    \/ Receive
    \/ ReceiveAttackLate
    \/ \E i \in Intervals + 1 .. Intervals + DisclosureDelay : ReceiveKey(i)
    \/ Tick

Spec == Init /\ [][Next]_vars
-----------------------------------------------------------------------------
RivalType == [copy : {"genuine", "altered", "badTag", "badTau", "remade"}, attack : BOOLEAN,
              interval : 1 .. Intervals, status : {"Pending", "Failed", "Duplicate"}]

(* Type correctness of the state of one improved context. *)
TypeOK ==
    /\ now \in 1 .. Intervals + DisclosureDelay
    /\ \A p \in Packets : /\ baseline[p] \in Copies(p) \cup {"none"}
                          /\ verdict[p] \in {"Pending", "Passed", "Failed"}
                          /\ rivals[p] \in Seq(RivalType)
    /\ key \in 0 .. Intervals
    /\ \A g \in Groups : judged[g] \in {"no", "fast", "matrix"}
    /\ excess \subseteq Groups
    /\ incomplete \in BOOLEAN
    /\ outcome \in {"none", "ProtocolIncomplete", "Completed", "AuthenticationFailed"}

Abnormal(g) == {p \in GroupPackets(g) : baseline[p] \in {"none", "altered", "remade"}}

(* The tag that is stored for a group is not one that was made again.  It   *)
(* never is when the fast key is the key of the last interval: packets of  *)
(* that are refused before their key is public.                             *)
TaggedBySender(g) ==
    \/ FastGroupKeyIndex(GroupInterval(g)) = GroupInterval(g)
    \/ baseline[GroupLast(g)] # "remade"

(* A group is judged only when no packet of it can be accepted any more,    *)
(* though judging asks which keys are known and accepting what time it is. *)
(* Where the stored fast tag is the sender's, more packets lost or altered *)
(* than the threshold are announced, altered ones never pass, and with the *)
(* taus intact and no more than the threshold lost or altered the genuine  *)
(* ones all pass (bVerifyImprovedGroupLocked, bIsPacketTimeSafe).          *)
VerdictsAreExact ==
    \A g \in Groups : judged[g] # "no" =>
        /\ \A p \in Absent(baseline, g) : ~IsTimeSafe(IntervalOfPacket(p))
        /\ TaggedBySender(g) =>
              /\ \A p \in Abnormal(g) : verdict[p] # "Passed"
              /\ Cardinality(Abnormal(g)) > DetectionThreshold => g \in excess
              /\ Cardinality(Abnormal(g)) <= DetectionThreshold
                 /\ baseline[GroupLast(g)] # "badTau"
                   => /\ g \notin excess
                      /\ \A p \in GroupPackets(g) \ Abnormal(g) : verdict[p] = "Passed"

(* When the round ends, every stored packet of a group whose end arrived    *)
(* has its verdict, and every robustness copy of such a group its own,     *)
(* however late the keys and the copies came.                              *)
NothingLeftOpen ==
    outcome # "none" => \A p \in Packets : baseline[GroupLast(GroupOf(p))] # "none" =>
        /\ baseline[p] # "none" => verdict[p] # "Pending"
        /\ \A n \in DOMAIN rivals[p] : rivals[p][n].attack => rivals[p][n].status # "Pending"
=============================================================================
