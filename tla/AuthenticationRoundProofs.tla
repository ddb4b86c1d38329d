---------------------- MODULE AuthenticationRoundProofs ----------------------
(***************************************************************************)
(* Facts about one round, for every number of packets, every interval size *)
(* and every disclosure delay: the plan that sender and receiver share,    *)
(* and what the context of a receiver is worth that follows it.  The       *)
(* proofs about the two runtimes and about whole rounds cite them.         *)
(***************************************************************************)
EXTENDS ReceiverContext, TLAPS

-----------------------------------------------------------------------------
(***************************************************************************)
(* The plan of a round.                                                    *)
(***************************************************************************)
(* An integer division by the interval size is exact up to a remainder.    *)
LEMMA PacketDivision ==
    ASSUME NEW t \in Nat
    PROVE  /\ t \div PacketsPerInterval \in Nat
           /\ (t \div PacketsPerInterval) * PacketsPerInterval <= t
           /\ t < (t \div PacketsPerInterval) * PacketsPerInterval + PacketsPerInterval
BY RoundAssumption

(* Fewer whole intervals hold fewer packets. *)
LEMMA PacketProductMonotone ==
    ASSUME NEW i \in Nat, NEW j \in Nat, i <= j
    PROVE  /\ i * PacketsPerInterval \in Nat
           /\ i * PacketsPerInterval <= j * PacketsPerInterval
BY RoundAssumption

(* One more interval holds PacketsPerInterval more packets. *)
LEMMA PacketProductNext ==
    ASSUME NEW i \in Nat \ {0}
    PROVE  /\ (i - 1) * PacketsPerInterval \in Nat
           /\ i * PacketsPerInterval = (i - 1) * PacketsPerInterval + PacketsPerInterval
BY RoundAssumption

(* A round has data intervals, and disclosure intervals behind them.       *)
LEMMA IntervalCounts ==
    ASSUME NEW total \in Nat \ {0}
    PROVE  /\ DataIntervalCount(total) \in Nat \ {0}
           /\ LastLogicalInterval(total) \in Nat \ {0}
           /\ DataIntervalCount(total) < LastLogicalInterval(total)
<1>1. (total - 1) \div PacketsPerInterval \in Nat
  BY PacketDivision
<1> QED
  BY <1>1, RoundAssumption DEF DataIntervalCount, LastLogicalInterval

(* The packets of a data interval exist and are numbered within the round. *)
LEMMA PacketRange ==
    ASSUME NEW total \in Nat \ {0}, NEW i \in 1 .. DataIntervalCount(total)
    PROVE  /\ FirstPacketIndex(i) \in Nat \ {0}
           /\ LastPacketIndex(total, i) \in Nat
           /\ FirstPacketIndex(i) <= LastPacketIndex(total, i)
           /\ LastPacketIndex(total, i) <= total
<1> DEFINE q == (total - 1) \div PacketsPerInterval
<1>1. /\ q \in Nat /\ q * PacketsPerInterval <= total - 1
      /\ i \in Nat \ {0} /\ i - 1 \in Nat /\ i - 1 <= q
  BY PacketDivision DEF DataIntervalCount
<1>2. /\ (i - 1) * PacketsPerInterval \in Nat
      /\ i * PacketsPerInterval = (i - 1) * PacketsPerInterval + PacketsPerInterval
  BY <1>1, PacketProductNext
<1>3. (i - 1) * PacketsPerInterval <= q * PacketsPerInterval
  BY <1>1, PacketProductMonotone
<1>4. (i - 1) * PacketsPerInterval <= total - 1
  <2> HIDE DEF q
  <2> QED BY <1>1, <1>2, <1>3, RoundAssumption
<1> HIDE DEF q
<1> QED
  BY <1>2, <1>4, RoundAssumption DEF FirstPacketIndex, LastPacketIndex

(* Every logical interval sends at least one datagram. *)
LEMMA DatagramCounts ==
    ASSUME NEW total \in Nat \ {0}, NEW i \in 1 .. LastLogicalInterval(total)
    PROVE  DatagramCount(total, i) \in Nat \ {0}
<1>1. DataIntervalCount(total) \in Nat /\ LastLogicalInterval(total) \in Nat
  BY IntervalCounts
<1>2. CASE i <= DataIntervalCount(total)
  <2>1. i \in 1 .. DataIntervalCount(total)
    BY <1>1, <1>2
  <2> QED
    BY <1>2, <2>1, PacketRange DEF DatagramCount, DataPacketCount
<1>3. CASE ~(i <= DataIntervalCount(total))
  BY <1>3 DEF DatagramCount
<1> QED
  BY <1>2, <1>3

(* The key rule of the plan: a datagram of interval i carries a packet of   *)
(* the round or none, and discloses the key of interval i - d or none.      *)
LEMMA DatagramFields ==
    ASSUME NEW total \in Nat \ {0},
           NEW i \in 1 .. LastLogicalInterval(total),
           NEW n \in 1 .. DatagramCount(total, i)
    PROVE  /\ Datagram(total, i, n) \in
                [ interval : 1 .. LastLogicalInterval(total),
                  packet : 0 .. total,
                  key : {0} \cup 1 .. DataIntervalCount(total) ]
           /\ Datagram(total, i, n).interval = i
           /\ Datagram(total, i, n).key # 0 =>
                  Datagram(total, i, n).key + DisclosureDelay = i
<1>1. /\ DataIntervalCount(total) \in Nat /\ LastLogicalInterval(total) \in Nat
      /\ LastLogicalInterval(total) = DataIntervalCount(total) + DisclosureDelay
      /\ DatagramCount(total, i) \in Nat
  BY IntervalCounts, DatagramCounts DEF LastLogicalInterval
<1>2. i \in Nat \ {0} /\ n \in Nat \ {0}
  BY <1>1
<1>3. /\ DisclosedKey(i, n) \in {0} \cup 1 .. DataIntervalCount(total)
      /\ DisclosedKey(i, n) # 0 => DisclosedKey(i, n) + DisclosureDelay = i
  BY <1>1, <1>2, RoundAssumption DEF DisclosedKey
<1>4. CASE i <= DataIntervalCount(total)
  <2>1. i \in 1 .. DataIntervalCount(total)
    BY <1>1, <1>4
  <2>2. /\ FirstPacketIndex(i) \in Nat \ {0}
        /\ LastPacketIndex(total, i) \in Nat
        /\ LastPacketIndex(total, i) <= total
    BY <2>1, PacketRange
  <2>3. n <= LastPacketIndex(total, i) - FirstPacketIndex(i) + 1
    BY <1>4 DEF DatagramCount, DataPacketCount
  <2>4. FirstPacketIndex(i) + n - 1 \in 0 .. total
    BY <1>2, <2>2, <2>3
  <2> QED
    BY <1>3, <1>4, <2>4 DEF Datagram
<1>5. CASE ~(i <= DataIntervalCount(total))
  BY <1>3, <1>5 DEF Datagram
<1> QED
  BY <1>4, <1>5

-----------------------------------------------------------------------------
(***************************************************************************)
(* What a receiver context is worth, whatever reaches it: datagrams in any *)
(* order, altered, repeated or of another round, time, pauses and resumes. *)
(* Sound says that its keys form an unbroken walk from the first, that a   *)
(* packet is judged exactly when its key is verified and exactly as its    *)
(* MAC deserves, and that a completed round holds every packet, passed.    *)
(*                                                                         *)
(* One lemma for each operation of ReceiverContext shows that it keeps a   *)
(* sound context sound, and how it may change the course of the round:     *)
(* Settles (the round goes on, or ends once and with an outcome) or        *)
(* Unsettled (neither).                                                    *)
(***************************************************************************)
(* The members of a context.                                               *)
Fields == {"total", "active", "outcome", "incomplete", "timeline", "pauseAfter",
           "pauseTs", "baseline", "candidates", "keys", "verified"}

(* A context is a record of these members, with one baseline slot for each *)
(* packet of the round.                                                    *)
Shape(s) ==
    /\ s = [f \in Fields |-> s[f]]
    /\ s.baseline = [p \in Slots(s) |-> s.baseline[p]]
    /\ \A p \in Slots(s) :
         s.baseline[p] = [copy |-> s.baseline[p].copy, status |-> s.baseline[p].status]

(* Whoever holds a key has verified all the keys before it.                *)
KeyWalk(s) == \A k \in s.keys : 1 .. k \subseteq s.verified

(* A verdict is given only to a stored packet whose key is known, and says *)
(* what its MAC says.                                                      *)
VerdictsBehindKeys(s) ==
    \A p \in Slots(s) : s.baseline[p].status # "Pending" =>
        /\ s.baseline[p].copy # "none"
        /\ IntervalOfPacket(p) \in s.keys
        /\ (s.baseline[p].status = "Passed") = MacValid(s.baseline[p].copy)

(* The outcomes of a round, and that there is none yet.                    *)
OutcomeValues == {"none", "Completed", "AuthenticationFailed", "ProtocolIncomplete",
                  "VerificationTimeout", "Stopped"}

(* A round that runs has no outcome, and one that completed has all its    *)
(* packets, passed and unaltered.                                          *)
LifeCycle(s) ==
    /\ s.active \in BOOLEAN
    /\ s.outcome \in OutcomeValues
    /\ s.active => s.outcome = "none"
    /\ s.outcome = "Completed" => Intact(s)

(* Types of the members that the round moves on.                           *)
Ranges(s) ==
    /\ s.total \in Nat \ {0}
    /\ s.incomplete \in BOOLEAN
    /\ s.timeline \in Seq([first : Nat, ts : Nat])
    /\ s.active => s.timeline # <<>>
    /\ s.keys \subseteq 1 .. DataIntervalCount(s.total)
    /\ s.verified \subseteq 1 .. DataIntervalCount(s.total)

(* What holds of a context between any two operations.                     *)
Sound(s) ==
    Shape(s) /\ Ranges(s) /\ KeyWalk(s) /\ VerdictsBehindKeys(s) /\ LifeCycle(s)

(* A context that has stored and learned nothing is sound.                 *)
LEMMA FreshSound ==
    ASSUME NEW s, NEW t \in Nat \ {0},
           s = [f \in Fields |-> s[f]], s.total = t, s.outcome = "none",
           s.incomplete = FALSE, s.active \in BOOLEAN, s.keys = {}, s.verified = {},
           s.timeline \in Seq([first : Nat, ts : Nat]),
           s.active => s.timeline # <<>>,
           s.baseline = [p \in 1 .. t |-> NoPacket]
    PROVE  Sound(s)
<1>1. \A p \in 1 .. t : /\ s.baseline[p] = [copy |-> s.baseline[p].copy,
                                            status |-> s.baseline[p].status]
                        /\ s.baseline[p].status = "Pending"
  BY DEF NoPacket
<1>2. Slots(s) = 1 .. t
  BY DEF Slots
<1>3. s.baseline = [p \in Slots(s) |-> s.baseline[p]]
  BY <1>2
<1>4. Shape(s) /\ VerdictsBehindKeys(s)
  BY <1>1, <1>2, <1>3 DEF Shape, VerdictsBehindKeys
<1>5. Ranges(s) /\ KeyWalk(s) /\ LifeCycle(s)
  BY DEF Ranges, KeyWalk, LifeCycle, OutcomeValues
<1> QED BY <1>4, <1>5 DEF Sound

(* The context that configure creates.                                     *)
LEMMA UnstartedSound ==
    ASSUME NEW t \in Nat \ {0}
    PROVE  Sound(Unstarted(t)) /\ ~Unstarted(t).active /\ Unstarted(t).total = t
<1> DEFINE s == Unstarted(t)
<1>1. /\ s = [f \in Fields |-> s[f]] /\ s.total = t /\ s.outcome = "none"
      /\ s.incomplete = FALSE /\ s.active = FALSE /\ s.keys = {} /\ s.verified = {}
      /\ s.timeline = <<>> /\ s.baseline = [p \in 1 .. t |-> NoPacket]
  BY DEF Unstarted, Fields
<1>2. <<>> \in Seq([first : Nat, ts : Nat])
  OBVIOUS
<1> HIDE DEF s
<1>3. Sound(s)
  BY <1>1, <1>2, FreshSound
<1> QED BY <1>1, <1>3 DEF s

(* The context that start creates.                                         *)
LEMMA StartedSound ==
    ASSUME NEW t \in Nat \ {0}, NEW ts \in Nat
    PROVE  Sound(Started(t, ts)) /\ Started(t, ts).active /\ Started(t, ts).total = t
<1> DEFINE line == <<Segment(1, ts)>>
           u == Unstarted(t)
           s == [u EXCEPT !.active = TRUE, !.timeline = line]
<1>1. line \in Seq([first : Nat, ts : Nat]) /\ line # <<>>
  BY DEF Segment
<1> HIDE DEF line
<1>2. /\ u = [f \in Fields |-> u[f]] /\ u.total = t /\ u.outcome = "none"
      /\ u.incomplete = FALSE /\ u.keys = {} /\ u.verified = {}
      /\ u.baseline = [p \in 1 .. t |-> NoPacket]
  BY DEF Unstarted, Fields
<1> HIDE DEF u
<1>3. /\ s = [f \in Fields |-> s[f]] /\ s.total = t /\ s.outcome = "none"
      /\ s.incomplete = FALSE /\ s.active = TRUE /\ s.keys = {} /\ s.verified = {}
      /\ s.timeline = line /\ s.baseline = [p \in 1 .. t |-> NoPacket]
  BY <1>2 DEF Fields
<1>4. Started(t, ts) = s
  BY DEF Started, s, u, line
<1> HIDE DEF s
<1>5. Sound(s)
  BY <1>1, <1>3, FreshSound
<1> QED BY <1>3, <1>4, <1>5

(* What a slot holds once the packets of the intervals ks were judged.     *)
SlotJudged(s, ks, p) ==
    IF IntervalOfPacket(p) \in ks /\ s.baseline[p].copy # "none"
    THEN [copy |-> s.baseline[p].copy, status |-> PassedWith(s.baseline[p].copy)]
    ELSE s.baseline[p]

(* Judging packets touches their verdicts and the set of verified          *)
(* intervals, nothing else.                                                *)
LEMMA JudgedKeeps ==
  ASSUME NEW s, NEW ks, Shape(s)
  PROVE /\ Shape(Judged(s, ks))
        /\ Judged(s, ks).total = s.total /\ Judged(s, ks).active = s.active
        /\ Judged(s, ks).outcome = s.outcome /\ Judged(s, ks).keys = s.keys
        /\ Judged(s, ks).incomplete = s.incomplete
        /\ Judged(s, ks).timeline = s.timeline
        /\ Judged(s, ks).verified = s.verified \cup ks
        /\ \A p \in Slots(s) : Judged(s, ks).baseline[p] = SlotJudged(s, ks, p)
<1> DEFINE b == [p \in Slots(s) |->
               IF IntervalOfPacket(p) \in ks /\ s.baseline[p].copy # "none"
               THEN Verdict(s.baseline[p]) ELSE s.baseline[p]]
           c == {IF IntervalOfPacket(x.packet) \in ks THEN Verdict(x) ELSE x :
             x \in s.candidates}
           v == s.verified \cup ks
           j == [s EXCEPT !.baseline = b, !.candidates = c, !.verified = v]
<1>1. Judged(s, ks) = j
  BY DEF Judged
<1>2. \A p \in Slots(s) :
         Verdict(s.baseline[p]) = [ copy   |-> s.baseline[p].copy,
                                    status |-> PassedWith(s.baseline[p].copy) ]
  <2> TAKE p \in Slots(s)
  <2>1. s.baseline[p] = [copy |-> s.baseline[p].copy, status |-> s.baseline[p].status]
    BY DEF Shape
  <2> QED BY <2>1 DEF Verdict
<1>3. /\ b = [p \in Slots(s) |-> b[p]]
      /\ \A p \in Slots(s) : b[p] = SlotJudged(s, ks, p)
  BY <1>2 DEF SlotJudged
<1>4. s = [f \in Fields |-> s[f]]
  BY DEF Shape
<1>5. \A p \in Slots(s) : b[p] = [copy |-> b[p].copy, status |-> b[p].status]
  <2> SUFFICES ASSUME NEW p \in Slots(s)
               PROVE  b[p] = [copy |-> b[p].copy, status |-> b[p].status]
    OBVIOUS
  <2> DEFINE judged == IntervalOfPacket(p) \in ks /\ s.baseline[p].copy # "none"
  <2> HIDE DEF b, judged
  <2>1. CASE judged
    <3>1. b[p] = [copy |-> s.baseline[p].copy, status |-> PassedWith(s.baseline[p].copy)]
      BY <1>3, <2>1 DEF judged, SlotJudged
    <3> QED BY <3>1
  <2>2. CASE ~judged
    BY <1>3, <2>2 DEF judged, Shape, SlotJudged
  <2> QED BY <2>1, <2>2
<1> HIDE DEF b, c, v
<1>6. /\ j = [f \in Fields |-> j[f]]
      /\ j.total = s.total /\ j.active = s.active /\ j.outcome = s.outcome
      /\ j.incomplete = s.incomplete /\ j.timeline = s.timeline
      /\ j.keys = s.keys /\ j.baseline = b /\ j.verified = v
  BY <1>4 DEF Fields
<1>7. Slots(j) = Slots(s)
  BY <1>6 DEF Slots, Fields
<1> HIDE DEF j
<1>8. v = s.verified \cup ks
  BY DEF v
<1>9. Shape(j)
  BY <1>3, <1>5, <1>6, <1>7 DEF Shape
<1>10. \A p \in Slots(s) : j.baseline[p] = SlotJudged(s, ks, p)
  BY <1>3, <1>6
<1> QED BY <1>1, <1>6, <1>8, <1>9, <1>10

(* An operation leaves the course of the round alone, or ends the round    *)
(* and gives it an outcome.                                                *)
Settles(s, t) ==
    /\ t.total = s.total
    /\ \/ t.active = s.active /\ t.outcome = s.outcome
       \/ s.active /\ ~t.active /\ t.outcome # "none"

(* Whatever changes neither what was stored nor what was learned leaves a  *)
(* sound context sound.                                                    *)
LEMMA SameKnowledge ==
    ASSUME NEW s, NEW t, Sound(s),
           t = [x \in Fields |-> t[x]], t.total = s.total,
           t.baseline = s.baseline, t.keys = s.keys, t.verified = s.verified,
           t.incomplete \in BOOLEAN,
           t.timeline \in Seq([first : Nat, ts : Nat]),
           t.active => t.timeline # <<>>,
           t.active \in BOOLEAN, t.outcome \in OutcomeValues,
           t.active => t.outcome = "none",
           t.outcome = "Completed" => Intact(s)
    PROVE  Sound(t)
<1>1. Slots(t) = Slots(s)
  BY DEF Slots
<1>2. Shape(t)
  BY <1>1 DEF Sound, Shape
<1>3. Ranges(t)
  BY DEF Sound, Ranges
<1>4. KeyWalk(t)
  BY DEF Sound, KeyWalk
<1>5. VerdictsBehindKeys(t)
  BY <1>1 DEF Sound, VerdictsBehindKeys
<1>6. LifeCycle(t)
  BY <1>1 DEF LifeCycle, Intact
<1> QED BY <1>2, <1>3, <1>4, <1>5, <1>6 DEF Sound

(* finalize ends a round with the outcome its packets deserve.             *)
LEMMA FinalizedSound ==
    ASSUME NEW s, Sound(s), s.active
    PROVE  Sound(Finalized(s)) /\ Settles(s, Finalized(s))
<1> DEFINE f == Finalized(s)
<1>1. /\ f = [x \in Fields |-> f[x]]
      /\ \A x \in Fields \ {"active", "outcome"} : f[x] = s[x]
      /\ f.active = FALSE /\ f.outcome = FinalStatus(s)
  BY DEF Finalized, Sound, Shape, Fields
<1>2. /\ f.total = s.total /\ f.baseline = s.baseline /\ f.keys = s.keys
      /\ f.verified = s.verified /\ f.incomplete = s.incomplete
      /\ f.timeline = s.timeline
  BY <1>1 DEF Fields
<1> HIDE DEF f
<1>3. /\ f.outcome \in OutcomeValues \ {"none"}
      /\ f.outcome = "Completed" => Intact(s)
  BY <1>1 DEF FinalStatus, OutcomeValues
<1>4. Sound(f)
  BY <1>1, <1>2, <1>3, SameKnowledge DEF Sound, Ranges
<1>6. Settles(s, f)
  BY <1>1, <1>2 DEF Settles, FinalStatus
<1> QED BY <1>4, <1>6 DEF f

(* A verified key brings all the keys before it and judges what they       *)
(* cover; the last one ends the round.                                     *)
LEMMA WithKeySound ==
    ASSUME NEW s, NEW k \in 1 .. DataIntervalCount(s.total), Sound(s), s.active
    PROVE  Sound(WithKey(s, k)) /\ Settles(s, WithKey(s, k))
<1> DEFINE j == Judged(s, Recovered(k) \ s.verified)
           g == [j EXCEPT !.keys = @ \cup Recovered(k)]
<1>1. /\ Shape(j)
      /\ j.total = s.total /\ j.active = s.active /\ j.outcome = s.outcome
      /\ j.keys = s.keys /\ j.incomplete = s.incomplete /\ j.timeline = s.timeline
      /\ j.verified = s.verified \cup (1 .. k)
      /\ \A p \in Slots(s) :
              j.baseline[p] = SlotJudged(s, (1 .. k) \ s.verified, p)
  <2> DEFINE ks == (1 .. k) \ s.verified
  <2>1. Shape(s)
    BY DEF Sound
  <2>2. j = Judged(s, ks)
    BY DEF Recovered
  <2>3. s.verified \cup ks = s.verified \cup (1 .. k)
    OBVIOUS
  <2> HIDE DEF j, ks
  <2>4. Shape(j) /\ j.verified = s.verified \cup ks
    BY <2>1, <2>2, JudgedKeeps
  <2>5. /\ j.total = s.total /\ j.outcome = s.outcome /\ j.keys = s.keys
        /\ j.incomplete = s.incomplete /\ j.timeline = s.timeline
    BY <2>1, <2>2, JudgedKeeps
  <2>6. j.active = s.active
    BY <2>1, <2>2, JudgedKeeps
  <2>7. \A p \in Slots(s) : j.baseline[p] = SlotJudged(s, ks, p)
    BY <2>1, <2>2, JudgedKeeps
  <2> QED BY <2>3, <2>4, <2>5, <2>6, <2>7 DEF ks
<1> HIDE DEF j
<1>2. /\ g = [f \in Fields |-> g[f]]
      /\ g.keys = s.keys \cup (1 .. k)
      /\ g.total = s.total /\ g.active = s.active /\ g.outcome = s.outcome
      /\ g.verified = j.verified /\ g.baseline = j.baseline
      /\ g.incomplete = s.incomplete /\ g.timeline = s.timeline
  BY <1>1 DEF Shape, Fields, Recovered
<1> HIDE DEF g
<1>3. Slots(g) = Slots(s) /\ Slots(j) = Slots(s)
  BY <1>1, <1>2 DEF Slots
<1>4. Shape(g) /\ Ranges(g)
  <2>1. Shape(g)
    BY <1>1, <1>2, <1>3 DEF Shape
  <2>2. 1 .. k \subseteq 1 .. DataIntervalCount(s.total)
    <3>1. DataIntervalCount(s.total) \in Nat
      BY IntervalCounts DEF Sound, Ranges
    <3> QED BY <3>1
  <2>3. Ranges(g)
    BY <1>1, <1>2, <2>2 DEF Sound, Ranges
  <2> QED BY <2>1, <2>3
<1>5. KeyWalk(g)
  BY <1>1, <1>2 DEF Sound, KeyWalk
<1>6. VerdictsBehindKeys(g)
  <2> SUFFICES ASSUME NEW p \in Slots(s), g.baseline[p].status # "Pending"
               PROVE  /\ g.baseline[p].copy # "none"
                      /\ IntervalOfPacket(p) \in g.keys
                      /\ (g.baseline[p].status = "Passed") = MacValid(g.baseline[p].copy)
    BY <1>3 DEF VerdictsBehindKeys
  <2> DEFINE judged == /\ IntervalOfPacket(p) \in (1 .. k) \ s.verified
                       /\ s.baseline[p].copy # "none"
  <2> HIDE DEF judged
  <2>1. CASE judged
    <3>1. g.baseline[p] = [ copy   |-> s.baseline[p].copy,
                            status |-> PassedWith(s.baseline[p].copy) ]
      BY <1>1, <1>2, <2>1 DEF judged, SlotJudged
    <3> QED BY <3>1, <2>1, <1>2 DEF judged, PassedWith, MacValid
  <2>2. CASE ~judged
    <3>1. g.baseline[p] = s.baseline[p]
      BY <1>1, <1>2, <2>2 DEF judged, SlotJudged
    <3> QED BY <3>1, <1>2 DEF Sound, VerdictsBehindKeys
  <2> QED BY <2>1, <2>2
<1>7. LifeCycle(g)
  BY <1>2 DEF Sound, LifeCycle
<1>8. Sound(g) /\ g.active /\ Settles(s, g)
  BY <1>2, <1>4, <1>5, <1>6, <1>7 DEF Sound, Settles
<1>9. WithKey(s, k) = IF k = DataIntervalCount(s.total) THEN Finalized(g) ELSE g
  BY DEF WithKey, g, j
<1>10. Sound(Finalized(g)) /\ Settles(g, Finalized(g))
  BY <1>8, FinalizedSound
<1>11. Settles(s, Finalized(g))
  BY <1>8, <1>10 DEF Settles
<1> QED BY <1>8, <1>9, <1>10, <1>11

(* Noting that the protocol was not followed to the letter.                *)
LEMMA IncompleteSound ==
    ASSUME NEW s, Sound(s)
    PROVE  LET t == [s EXCEPT !.incomplete = TRUE] IN Sound(t) /\ Settles(s, t)
<1> DEFINE t == [s EXCEPT !.incomplete = TRUE]
<1>1. /\ t = [x \in Fields |-> t[x]]
      /\ t.total = s.total /\ t.active = s.active /\ t.outcome = s.outcome
      /\ t.baseline = s.baseline /\ t.keys = s.keys /\ t.verified = s.verified
      /\ t.incomplete = TRUE /\ t.timeline = s.timeline
  BY DEF Sound, Shape, Fields
<1> HIDE DEF t
<1>3. Sound(t)
  BY <1>1, SameKnowledge DEF Sound, Ranges, LifeCycle
<1>4. Sound(t) /\ Settles(s, t)
  BY <1>1, <1>3 DEF Sound, Settles
<1> QED BY <1>4 DEF t

(* Storing the first copy of a packet.                                     *)
LEMMA WithBaselineSound ==
    ASSUME NEW s, NEW p, NEW copy, Sound(s), s.active
    PROVE  LET t == WithBaseline(s, p, copy)
           IN  Sound(t) /\ t.active /\ t.outcome = s.outcome /\ t.total = s.total
<1> DEFINE n == [copy |-> copy, status |-> "Pending"]
           b == [s.baseline EXCEPT ![p] = n]
           t == [s EXCEPT !.baseline = b]
<1>1. WithBaseline(s, p, copy) = t
  BY DEF WithBaseline
<1>2. /\ b = [q \in Slots(s) |-> b[q]]
      /\ \A q \in Slots(s) : b[q] = s.baseline[q] \/ b[q] = n
  BY DEF Sound, Shape
<1> HIDE DEF b
<1>3. /\ t = [x \in Fields |-> t[x]]
      /\ t.total = s.total /\ t.active = s.active /\ t.outcome = s.outcome
      /\ t.baseline = b /\ t.keys = s.keys /\ t.verified = s.verified
      /\ t.incomplete = s.incomplete /\ t.timeline = s.timeline
  BY DEF Sound, Shape, Fields
<1> HIDE DEF t
<1>4. Slots(t) = Slots(s)
  BY <1>3 DEF Slots
<1>5. n = [copy |-> n.copy, status |-> n.status] /\ n.status = "Pending"
  OBVIOUS
<1> HIDE DEF n
<1>6. Shape(t)
  BY <1>2, <1>3, <1>4, <1>5 DEF Sound, Shape
<1>7. Ranges(t) /\ KeyWalk(t) /\ VerdictsBehindKeys(t)
  <2>1. Ranges(t)
    BY <1>3 DEF Sound, Ranges
  <2>2. KeyWalk(t)
    BY <1>3 DEF Sound, KeyWalk
  <2>3. VerdictsBehindKeys(t)
    BY <1>2, <1>3, <1>4, <1>5 DEF Sound, VerdictsBehindKeys
  <2> QED BY <2>1, <2>2, <2>3
<1>8. LifeCycle(t)
  BY <1>3 DEF Sound, LifeCycle
<1> QED BY <1>1, <1>3, <1>6, <1>7, <1>8 DEF Sound

(* Storing a further copy of a packet.                                     *)
LEMMA WithCandidateSound ==
    ASSUME NEW s, NEW p, NEW copy, Sound(s)
    PROVE  Sound(WithCandidate(s, p, copy)) /\ Settles(s, WithCandidate(s, p, copy))
<1> DEFINE c == s.candidates \cup {[packet |-> p, copy |-> copy, status |-> "Pending"]}
           t == [s EXCEPT !.candidates = c]
<1>1. WithCandidate(s, p, copy) = s \/ WithCandidate(s, p, copy) = t
  BY DEF WithCandidate
<1> HIDE DEF c
<1>2. /\ t = [x \in Fields |-> t[x]]
      /\ t.total = s.total /\ t.active = s.active /\ t.outcome = s.outcome
      /\ t.baseline = s.baseline /\ t.keys = s.keys /\ t.verified = s.verified
      /\ t.incomplete = s.incomplete /\ t.timeline = s.timeline
  BY DEF Sound, Shape, Fields
<1> HIDE DEF t
<1>4. Sound(t)
  BY <1>2, SameKnowledge DEF Sound, Ranges, LifeCycle
<1>5. Sound(t) /\ Settles(s, t) /\ Settles(s, s)
  BY <1>2, <1>4 DEF Sound, Settles
<1> QED BY <1>1, <1>5

(* A datagram that discloses a key of the round, or one that should not    *)
(* have.                                                                   *)
LEMMA KeyDisclosedSound ==
    ASSUME NEW s, NEW interval \in Nat, NEW copy, Sound(s), s.active
    PROVE  Sound(KeyDisclosed(s, interval, copy)) /\ Settles(s, KeyDisclosed(s, interval, copy))
<1>1. /\ interval > DisclosureDelay
      /\ interval - DisclosureDelay <= DataIntervalCount(s.total)
      => interval - DisclosureDelay \in 1 .. DataIntervalCount(s.total)
  BY RoundAssumption
<1>2. \/ /\ interval > DisclosureDelay
         /\ interval - DisclosureDelay <= DataIntervalCount(s.total)
         /\ KeyDisclosed(s, interval, copy) = WithKey(s, interval - DisclosureDelay)
      \/ KeyDisclosed(s, interval, copy) = [s EXCEPT !.incomplete = TRUE]
  BY DEF KeyDisclosed
<1> QED BY <1>1, <1>2, WithKeySound, IncompleteSound

(* Whatever a datagram is, and whenever it comes, handling it keeps a      *)
(* context sound and decides at most the end of its round.                 *)
LEMMA ProcessedSound ==
    ASSUME NEW s, NEW dg, NEW copy, NEW recv, dg.interval \in Nat, Sound(s)
    PROVE  Sound(Processed(s, dg, copy, recv)) /\ Settles(s, Processed(s, dg, copy, recv))
<1> DEFINE b == WithBaseline(s, dg.packet, copy)
           Kept(t) == Sound(t) /\ Settles(s, t)
<1>1. Kept(s)
  BY DEF Settles
<1>2. Kept([s EXCEPT !.incomplete = TRUE])
  BY IncompleteSound
<1>3. Kept(WithCandidate(s, dg.packet, copy))
  BY WithCandidateSound
<1>4. ASSUME s.active
      PROVE  /\ Kept(b) /\ Kept(KeyDisclosed(s, dg.interval, copy))
             /\ Kept(KeyDisclosed(b, dg.interval, copy))
  <2>1. Sound(b) /\ b.active /\ b.outcome = s.outcome /\ b.total = s.total
    BY <1>4, WithBaselineSound
  <2> HIDE DEF b
  <2>2. Kept(KeyDisclosed(s, dg.interval, copy))
    BY <1>4, KeyDisclosedSound
  <2>3. /\ Sound(KeyDisclosed(b, dg.interval, copy))
        /\ Settles(b, KeyDisclosed(b, dg.interval, copy))
    BY <2>1, KeyDisclosedSound
  <2>4. s.active = b.active
    BY <1>4, <2>1 DEF Sound, LifeCycle
  <2> QED BY <2>1, <2>2, <2>3, <2>4 DEF Settles
<1>5. \/ Processed(s, dg, copy, recv) = s
      \/ Processed(s, dg, copy, recv) = [s EXCEPT !.incomplete = TRUE]
      \/ Processed(s, dg, copy, recv) = WithCandidate(s, dg.packet, copy)
      \/ /\ s.active
         /\ \/ Processed(s, dg, copy, recv) = b
            \/ Processed(s, dg, copy, recv) = KeyDisclosed(s, dg.interval, copy)
            \/ Processed(s, dg, copy, recv) = KeyDisclosed(b, dg.interval, copy)
  BY DEF Processed, WithDataPacket
<1> HIDE DEF b
<1> QED BY <1>1, <1>2, <1>3, <1>4, <1>5

(* The timeout check of the worker.                                        *)
LEMMA TickedSound ==
    ASSUME NEW s, NEW now, Sound(s)
    PROVE  Sound(Ticked(s, now)) /\ Settles(s, Ticked(s, now))
<1> DEFINE t == [s EXCEPT !.active = FALSE, !.outcome = "VerificationTimeout"]
<1>1. /\ t = [x \in Fields |-> t[x]]
      /\ t.active = FALSE /\ t.outcome = "VerificationTimeout"
      /\ t.total = s.total /\ t.baseline = s.baseline /\ t.keys = s.keys
      /\ t.verified = s.verified /\ t.incomplete = s.incomplete
      /\ t.timeline = s.timeline
  BY DEF Sound, Shape, Fields
<1>2. Ticked(s, now) = s \/ (s.active /\ Ticked(s, now) = t)
  BY DEF Ticked, TimedOut, Expired
<1> HIDE DEF t
<1>4. Sound(t)
  BY <1>1, SameKnowledge DEF Sound, Ranges, OutcomeValues
<1> QED BY <1>1, <1>2, <1>4 DEF Sound, Settles

(* configure and stop end a round without a word.                          *)
LEMMA StoppedSound ==
    ASSUME NEW s, Sound(s)
    PROVE  /\ Sound(Stopped(s)) /\ ~Stopped(s).active
           /\ Stopped(s).total = s.total /\ Stopped(s).outcome = s.outcome
<1> DEFINE t == [s EXCEPT !.active = FALSE]
<1>1. /\ t = [x \in Fields |-> t[x]]
      /\ t.total = s.total /\ t.active = FALSE /\ t.outcome = s.outcome
      /\ t.baseline = s.baseline /\ t.keys = s.keys /\ t.verified = s.verified
      /\ t.incomplete = s.incomplete /\ t.timeline = s.timeline
  BY DEF Sound, Shape, Fields
<1> HIDE DEF t
<1>2. Sound(t)
  BY <1>1, SameKnowledge DEF Sound, Ranges, LifeCycle
<1> QED BY <1>1, <1>2 DEF Stopped, t

(* stop gives the outcome Stopped to a round that has none.                *)
LEMMA StoppedByCallSound ==
    ASSUME NEW s, Sound(s), s.active
    PROVE  LET t == [s EXCEPT !.outcome = "Stopped"]
           IN  /\ Sound(Stopped(t)) /\ ~Stopped(t).active
               /\ Stopped(t).total = s.total
               /\ t.outcome = "Stopped" /\ Stopped(t).outcome = "Stopped"
<1> DEFINE t == [s EXCEPT !.outcome = "Stopped"]
           u == [t EXCEPT !.active = FALSE]
<1>1. /\ u = [x \in Fields |-> u[x]]
      /\ u.total = s.total /\ u.active = FALSE /\ u.outcome = "Stopped"
      /\ u.baseline = s.baseline /\ u.keys = s.keys /\ u.verified = s.verified
      /\ u.incomplete = s.incomplete /\ u.timeline = s.timeline
      /\ t.outcome = "Stopped"
  BY DEF Sound, Shape, Fields
<1>2. Stopped(t) = u
  BY DEF Stopped
<1> HIDE DEF t, u
<1>3. Sound(u)
  BY <1>1, SameKnowledge DEF Sound, Ranges, OutcomeValues
<1> QED BY <1>1, <1>2, <1>3 DEF t

(* An operation that does not touch the course of the round.               *)
Unsettled(s, t) == t.total = s.total /\ t.active = s.active /\ t.outcome = s.outcome

(* requestPause, accepted or refused.                                      *)
LEMMA PausedSound ==
    ASSUME NEW s, NEW k, NEW ts, Sound(s)
    PROVE  Sound(WithPause(s, k, ts)) /\ Unsettled(s, WithPause(s, k, ts))
<1> DEFINE t == [s EXCEPT !.pauseAfter = k, !.pauseTs = ts]
<1>1. /\ t = [x \in Fields |-> t[x]]
      /\ t.total = s.total /\ t.active = s.active /\ t.outcome = s.outcome
      /\ t.baseline = s.baseline /\ t.keys = s.keys /\ t.verified = s.verified
      /\ t.incomplete = s.incomplete /\ t.timeline = s.timeline
  BY DEF Sound, Shape, Fields
<1>2. WithPause(s, k, ts) = s \/ WithPause(s, k, ts) = t
  BY DEF WithPause
<1> HIDE DEF t
<1>3. Sound(t)
  BY <1>1, SameKnowledge DEF Sound, Ranges, LifeCycle
<1> QED BY <1>1, <1>2, <1>3 DEF Unsettled

(* resume, accepted or refused.                                            *)
LEMMA ResumedSound ==
    ASSUME NEW s, NEW r \in Nat, NEW ts \in Nat, Sound(s)
    PROVE  Sound(WithResume(s, r, ts)) /\ Unsettled(s, WithResume(s, r, ts))
<1> DEFINE line == Append(s.timeline, Segment(r, ts))
           t == [s EXCEPT !.timeline = line]
<1>1. line \in Seq([first : Nat, ts : Nat]) /\ line # <<>>
  <2>1. s.timeline \in Seq([first : Nat, ts : Nat])
    BY DEF Sound, Ranges
  <2>2. Segment(r, ts) \in [first : Nat, ts : Nat]
    BY DEF Segment
  <2> QED BY <2>1, <2>2
<1>2. WithResume(s, r, ts) = s \/ WithResume(s, r, ts) = t
  BY DEF WithResume
<1> HIDE DEF line
<1>3. /\ t = [x \in Fields |-> t[x]]
      /\ t.total = s.total /\ t.active = s.active /\ t.outcome = s.outcome
      /\ t.baseline = s.baseline /\ t.keys = s.keys /\ t.verified = s.verified
      /\ t.incomplete = s.incomplete /\ t.timeline = line
  BY DEF Sound, Shape, Fields
<1> HIDE DEF t
<1>4. Sound(t)
  BY <1>1, <1>3, SameKnowledge DEF Sound, Ranges, LifeCycle
<1> QED BY <1>2, <1>3, <1>4 DEF Unsettled

(* An operation on a context that leaves its timeline and its pause alone. *)
Carries(s, t) ==
    t.total = s.total /\ t.timeline = s.timeline /\ t.pauseAfter = s.pauseAfter

(* An operation that carries the course of the round on and never ends it  *)
(* by a timeout.                                                           *)
CarriesOn(s, t) ==
    /\ Carries(s, t)
    /\ t.outcome = "VerificationTimeout" => s.outcome = "VerificationTimeout"

(* A verified key may end the round, but leaves its timeline alone.        *)
LEMMA WithKeyCarriesOn ==
    ASSUME NEW s, NEW k, Shape(s)
    PROVE  CarriesOn(s, WithKey(s, k))
<1> DEFINE ks == Recovered(k) \ s.verified
           b == [p \in Slots(s) |->
                   IF IntervalOfPacket(p) \in ks /\ s.baseline[p].copy # "none"
                   THEN Verdict(s.baseline[p]) ELSE s.baseline[p]]
           c == {IF IntervalOfPacket(x.packet) \in ks THEN Verdict(x) ELSE x :
                   x \in s.candidates}
           v == s.verified \cup ks
           j == [s EXCEPT !.baseline = b, !.candidates = c, !.verified = v]
           g == [j EXCEPT !.keys = @ \cup Recovered(k)]
           f == [g EXCEPT !.active = FALSE, !.outcome = FinalStatus(g)]
<1>1. WithKey(s, k) = f \/ WithKey(s, k) = g
  BY DEF WithKey, Judged, Finalized
<1>2. s = [x \in Fields |-> s[x]]
  BY DEF Shape
<1> HIDE DEF b, c, v
<1>3. j = [x \in Fields |-> j[x]] /\ Carries(s, j) /\ j.outcome = s.outcome
  BY <1>2 DEF Fields, Carries
<1> HIDE DEF j
<1>4. g = [x \in Fields |-> g[x]] /\ Carries(s, g) /\ g.outcome = s.outcome
  BY <1>3 DEF Fields, Carries
<1> HIDE DEF g
<1>5. Carries(s, f) /\ f.outcome = FinalStatus(g)
  BY <1>4 DEF Fields, Carries
<1>6. FinalStatus(g) # "VerificationTimeout"
  BY DEF FinalStatus
<1> HIDE DEF f
<1> QED BY <1>1, <1>4, <1>5, <1>6 DEF CarriesOn

(* What a datagram does to a context is no timeout.                        *)
LEMMA ProcessedCarriesOn ==
    ASSUME NEW s, NEW dg, NEW copy, NEW recv, Sound(s)
    PROVE  CarriesOn(s, Processed(s, dg, copy, recv))
<1> DEFINE b == WithBaseline(s, dg.packet, copy)
           marked(t) == [t EXCEPT !.incomplete = TRUE]
<1>1. Shape(s) /\ CarriesOn(s, s)
  BY DEF Sound, CarriesOn, Carries
<1>2. ASSUME NEW t, Shape(t) PROVE CarriesOn(t, marked(t))
  <2>1. Carries(t, marked(t)) /\ marked(t).outcome = t.outcome
    BY <1>2 DEF Shape, Fields, Carries
  <2> QED BY <2>1 DEF CarriesOn
<1>3. CarriesOn(s, WithCandidate(s, dg.packet, copy))
  <2> DEFINE c == s.candidates
                    \cup {[packet |-> dg.packet, copy |-> copy, status |-> "Pending"]}
             t == [s EXCEPT !.candidates = c]
  <2>1. WithCandidate(s, dg.packet, copy) = s \/ WithCandidate(s, dg.packet, copy) = t
    BY DEF WithCandidate
  <2> HIDE DEF c
  <2>2. Carries(s, t) /\ t.outcome = s.outcome
    BY <1>1 DEF Shape, Fields, Carries
  <2> QED BY <1>1, <2>1, <2>2 DEF CarriesOn
<1>4. s.active => Shape(b)
  BY WithBaselineSound DEF Sound
<1>5. CarriesOn(s, b)
  <2> DEFINE n == [s.baseline EXCEPT ![dg.packet] = [copy |-> copy, status |-> "Pending"]]
             t == [s EXCEPT !.baseline = n]
  <2>1. b = t
    BY DEF WithBaseline
  <2> HIDE DEF b, n
  <2>2. Carries(s, t) /\ t.outcome = s.outcome
    BY <1>1 DEF Shape, Fields, Carries
  <2> QED BY <2>1, <2>2 DEF CarriesOn
<1> HIDE DEF b
<1>6. ASSUME NEW t, Shape(t)
      PROVE  CarriesOn(t, KeyDisclosed(t, dg.interval, copy))
  <2>1. \/ KeyDisclosed(t, dg.interval, copy) = WithKey(t, dg.interval - DisclosureDelay)
        \/ KeyDisclosed(t, dg.interval, copy) = marked(t)
    BY DEF KeyDisclosed
  <2> QED BY <1>2, <1>6, <2>1, WithKeyCarriesOn
<1>7. \/ Processed(s, dg, copy, recv) = s
      \/ Processed(s, dg, copy, recv) = marked(s)
      \/ Processed(s, dg, copy, recv) = WithCandidate(s, dg.packet, copy)
      \/ Processed(s, dg, copy, recv) = KeyDisclosed(s, dg.interval, copy)
      \/ /\ s.active
         /\ \/ Processed(s, dg, copy, recv) = b
            \/ Processed(s, dg, copy, recv) = KeyDisclosed(b, dg.interval, copy)
  BY DEF Processed, WithDataPacket, b
<1>8. s.active => CarriesOn(s, KeyDisclosed(b, dg.interval, copy))
  BY <1>4, <1>5, <1>6 DEF CarriesOn, Carries
<1> QED BY <1>1, <1>2, <1>3, <1>5, <1>6, <1>7, <1>8

(* The segments of a round begin within it, and so does its last pause.    *)
WithinRound(s) ==
    /\ s.pauseAfter \in 0 .. LastLogicalInterval(s.total) - 1
    /\ \A n \in 1 .. Len(s.timeline) : s.timeline[n].first <= LastLogicalInterval(s.total)

(* Behind a pause that is outstanding the last interval is held, and with  *)
(* it the deadline of the round.                                           *)
LEMMA OutstandingHolds ==
    ASSUME NEW s, Ranges(s), s.active, WithinRound(s), PauseOutstanding(s)
    PROVE  HeldByPause(s.timeline, s.pauseAfter, LastLogicalInterval(s.total))
<1> DEFINE last == LastLogicalInterval(s.total)
           line == s.timeline
<1>0. \A i \in 1 .. Len(line) : line[i].first \in Nat
  <2>1. line \in Seq([first : Nat, ts : Nat])
    BY DEF Ranges
  <2> HIDE DEF line
  <2> DEFINE Segments == [first : Nat, ts : Nat]
  <2>2. line \in Seq(Segments)
    BY <2>1
  <2>3. \A x \in Segments : x.first \in Nat
    OBVIOUS
  <2> HIDE DEF Segments
  <2>4. \A i \in 1 .. Len(line) : line[i] \in Segments
    BY <2>2
  <2> QED BY <2>3, <2>4
<1>1. last \in Nat \ {0} /\ s.pauseAfter \in 1 .. last - 1
  <2>1. s.total \in Nat \ {0}
    BY DEF Ranges
  <2>2. last \in Nat \ {0}
    BY <2>1, IntervalCounts
  <2> QED BY <2>2 DEF WithinRound, PauseOutstanding
<1>2. /\ line \in Seq([first : Nat, ts : Nat]) /\ line # <<>>
      /\ \A n \in 1 .. Len(line) : line[n].first <= last
  BY DEF Ranges, WithinRound
<1>3. Len(line) \in Nat \ {0} /\ DOMAIN line = 1 .. Len(line)
  BY <1>2
<1> DEFINE Found(n) == /\ \A m \in 1 .. n : line[m].first <= last
                       /\ n < Len(line) => line[n + 1].first > last
<1>4. Found(Len(line))
  BY <1>2, <1>3
<1>5. ASSUME NEW n \in DOMAIN line, Found(n) PROVE n = Len(line)
  <2>1. n \in 1 .. Len(line)
    BY <1>3
  <2>2. CASE n < Len(line)
    <3>1. n + 1 \in 1 .. Len(line) /\ line[n + 1].first > last
      BY <1>3, <1>5, <2>1, <2>2
    <3> DEFINE i == n + 1
    <3>2. i \in 1 .. Len(line) /\ line[i].first > last
      BY <3>1
    <3> HIDE DEF i, line, last
    <3>3. line[i].first <= last
      BY <1>2, <3>2
    <3>4. line[i].first \in Nat
      BY <1>0, <3>2
    <3> QED BY <1>1, <3>2, <3>3, <3>4
  <2> QED BY <1>3, <2>1, <2>2
<1>6. (CHOOSE n \in DOMAIN line : Found(n)) = Len(line)
  BY <1>3, <1>4, <1>5
<1>7. SegmentOf(line, last) = LastSegment(line)
  BY <1>6 DEF SegmentOf, LastSegment
<1> QED BY <1>1, <1>7 DEF HeldByPause, PauseOutstanding
=============================================================================
