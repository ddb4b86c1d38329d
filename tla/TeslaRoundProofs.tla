-------------------------- MODULE TeslaRoundProofs --------------------------
(***************************************************************************)
(* A round end to end, for every number of packets, every length of        *)
(* interval, disclosure delay, clock tolerance, lead and number of pauses: *)
(* while the nodes agree on the pauses, what the receiver stores arrived   *)
(* before its key was disclosed, and a key that was learned leaves none of *)
(* its packets unverified.                                                 *)
(*                                                                         *)
(* Neither property is inductive. The reason a stored packet is on time is *)
(* that the receiver computed the disclosure from a timeline the sender    *)
(* also follows, and each node is at its own place in its queue of         *)
(* commands. RoundInv therefore speaks of plans: the segments a node has   *)
(* taken up together with those on their way to it. Agreement relates the  *)
(* two plans, Spaced says that a later segment never begins before an      *)
(* earlier one would have reached it, Pausing says who knows of a pause    *)
(* before whom, and Disclosing and Stamped tie each disclosed key and the  *)
(* datagram in the inbox to the time that has passed since.                *)
(*                                                                         *)
(* A late packet can still be taken for safe while commands are under way: *)
(* the receiver knows a pause the sender is about to miss, or a resume it  *)
(* is about to refuse. Such a state is Doomed: the command it depends on   *)
(* is in a queue and can only be taken with split set, or after its time.  *)
(* Since the queues of nodes that agree are empty, Safe is enough.         *)
(***************************************************************************)
EXTENDS TeslaRound, AuthenticationRoundProofs, FiniteSetTheorems, WellFoundedInduction

(* A part of a timeline: its first interval and when that begins.          *)
Segments == [first : Nat, ts : Nat]
(* What the Manager sends to both nodes.                                   *)
Commands == [op : {"start", "pause", "resume", "stop"}, interval : Nat, ts : Nat]

(* The segments of a timeline, and the commands in a queue, as sets.       *)
Parts(line) == {line[n] : n \in 1 .. Len(line)}
(* The commands in a queue.                                                *)
Orders(q) == {q[n] : n \in 1 .. Len(q)}
(* A start or a resume opens a segment ...                                 *)
Opens(c) == c.op = "start" \/ c.op = "resume"
(* ... and this is the segment.                                            *)
Opened(c) == Segment(c.interval, c.ts)
(* The segments a node will take up when it has worked off its queue.      *)
Coming(q) == {Opened(c) : c \in {o \in Orders(q) : Opens(o)}}
(* When interval i begins by segment x alone.                              *)
StartIn(x, i) == x.ts + (i - x.first) * IntervalLength

(* A timeline begins with interval 1 and its segments follow one another.  *)
Sorted(line) ==
    /\ line # <<>> => line[1].first = 1
    /\ \A m, n \in 1 .. Len(line) : m < n => line[m].first < line[n].first

(* The commands of a queue follow one another by interval; a stop is the   *)
(* last.                                                                   *)
Ordered(q) ==
    \A m, n \in 1 .. Len(q) :
        m < n => /\ q[m].op # "stop"
                 /\ q[n].op # "stop" => q[m].interval < q[n].interval

(* A queue continues the timeline of its node.                             *)
Sequenced(line, q) ==
    /\ Sorted(line) /\ Ordered(q)
    /\ \A c \in Orders(q) :
        /\ c.op = "start" => c.interval = 1
        /\ c.op \in {"pause", "resume"} => c.interval > 1
        /\ c.op # "stop" => \A x \in Parts(line) : x.first < c.interval

(* All segments a node follows or has been told to follow.                 *)
Plan(line, q) == Parts(line) \cup Coming(q)

(* The largest interval a command of the Manager has named so far.         *)
Latest(m) == IF m.paused THEN m.pauseAfter ELSE m.first

(* No node knows more than the Manager has ordered: while the round runs   *)
(* no stop is under way, and before its start nothing is.                  *)
Issued(m, line, q) ==
    /\ m.running => \A c \in Orders(q) : c.op # "stop" /\ c.interval <= Latest(m)
    /\ \A x \in Plan(line, q) : x.first <= m.first
    /\ m.start = 0 => line = <<>> /\ q = <<>>

(* Whoever follows an earlier segment into the first interval of a later   *)
(* one gets there no later than the later one begins: a resume is ordered  *)
(* for a time after the pause.                                             *)
Spaced(m, plan) ==
    /\ \A x \in plan : StartIn(x, m.first) <= m.start
    /\ \A x, y \in plan : x.first <= y.first => StartIn(x, y.first) <= y.ts

(* The record of the Manager.                                              *)
Managers == [running : BOOLEAN, paused : BOOLEAN, first : Nat, start : Nat,
             pauseAfter : Nat, pauseTs : Nat]

(* The Manager pauses ahead of its timeline and computes the time of the   *)
(* pause from it.                                                          *)
Coordinated(m) ==
    /\ m.first > 0
    /\ m.start = 0 => ~m.running /\ ~m.paused /\ m.first = 1
    /\ m.paused =>
        /\ m.running /\ m.pauseAfter > m.first
        /\ m.pauseTs = m.start + (m.pauseAfter - m.first + 1) * IntervalLength

(* A segment the sender will never follow, as it has refused the resume:   *)
(* it holds at the pause before that segment, and nothing it is yet to be  *)
(* told concerns the intervals up to it.                                   *)
Refused(x, line, q, h, r) ==
    /\ x.first = h + 1 /\ r <= h
    /\ h = 0 => line = <<>>
    /\ \A c \in Orders(q) : c.op # "stop" => x.first < c.interval

(* The receiver plans nothing the sender does not plan, except what the    *)
(* sender has refused; and once the receiver is in the round, or its start *)
(* is under way, it plans all the sender plans.                            *)
Agreement(line, q, h, r, rline, rq, active) ==
    /\ \A x \in Plan(rline, rq) : x \in Plan(line, q) \/ Refused(x, line, q, h, r)
    /\ active \/ (\E c \in Orders(rq) : c.op = "start")
         => Plan(line, q) \subseteq Plan(rline, rq)

(* The sender holds at the pause after k, or will be told of it.           *)
Held(k, h, q) == h = k \/ \E c \in Orders(q) : c.op = "pause" /\ c.interval = k

(* The sender holds, will hold or has held at the pause after k.           *)
Known(k, h, q, line) == Held(k, h, q) \/ \E y \in Parts(line) : y.first = k + 1

(* The sender is told of a pause before its resume, and the receiver is    *)
(* never told of a pause the sender is not told of.                        *)
Pausing(m, line, q, h, rq, after) ==
    /\ \A c \in Orders(q) : c.op = "resume" => Held(c.interval - 1, h, q)
    /\ m.paused => Held(m.pauseAfter, h, q)
    /\ \A c \in Orders(rq) : c.op = "pause" => Known(c.interval, h, q, line)
    /\ after # 0 => Known(after, h, q, line)

(* By each segment that is not behind interval i, interval i has begun at  *)
(* time t.                                                                 *)
Begun(line, i, t) == \A x \in Parts(line) : x.first <= i => StartIn(x, i) <= t

(* The sender has disclosed only keys of intervals it has reached          *)
(* DisclosureDelay later, which have begun; the network carries no other   *)
(* keys.                                                                   *)
Disclosing(line, active, h, r, keys, net, box, t) ==
    /\ line = <<>> => ~active /\ h = 0 /\ r = 0 /\ keys = {} /\ net = {} /\ box = <<>>
    /\ h # 0 => r <= h
    /\ \A k \in keys : k + DisclosureDelay <= r /\ Begun(line, k + DisclosureDelay, t)
    /\ \A dg \in net : dg.key # 0 => dg.key \in keys

(* The datagram in the inbox was sent, and stamped no later than now. If   *)
(* it was late, its key or a later one had been disclosed when it was      *)
(* stamped; if not, no key of its interval or a later one has been learned *)
(* since.                                                                  *)
Stamped(box, tooLate, line, keys, learned, net, t, offset) ==
    box # <<>> =>
        /\ Head(box).dg \in net
        /\ Head(box).recv \in Int /\ Head(box).recv <= t + offset
        /\ tooLate => \E k \in keys :
             /\ k >= Head(box).dg.interval
             /\ Begun(line, k + DisclosureDelay, Head(box).recv - offset)
        /\ ~tooLate => \A k \in learned : k < Head(box).dg.interval

(* The receiver knows only keys that follow from disclosed ones, and has   *)
(* verified the intervals of exactly those.                                *)
Learned(s, keys) ==
    /\ \A k \in s.keys : \E j \in keys : k <= j
    /\ s.verified = s.keys

(* A command under way that the sender, or the receiver, can no longer     *)
(* take: a pause whose interval the sender has passed, or a resume whose   *)
(* time has come.                                                          *)
Doomed(q, r, rq, t) ==
    \/ \E c \in Orders(q) : c.op = "pause" /\ c.interval < r
    \/ \E c \in Orders(rq) : c.op = "resume" /\ c.ts <= t

(* No stored packet of a verified interval is without a verdict.           *)
Settled(s) ==
    \A p \in Slots(s) :
        s.baseline[p].copy # "none" /\ s.baseline[p].status = "Pending"
            => IntervalOfPacket(p) \notin s.verified

(* The types of the variables, as far as the proof needs them.             *)
Types ==
    /\ now \in Nat /\ skew \in -ClockTolerance .. ClockTolerance
    /\ sending \in BOOLEAN /\ hold \in Nat /\ reached \in Nat
    /\ disclosed \subseteq Nat /\ late \in BOOLEAN
    /\ timeline \in Seq(Segments)
    /\ toSender \in Seq(Commands) /\ toReceiver \in Seq(Commands)
    /\ manager \in Managers
    /\ Sound(receiver) /\ receiver.total = TotalPacketCount
    /\ receiver.pauseAfter \in Nat
    /\ network \subseteq Datagrams(TotalPacketCount)

(* What the Manager ordered and what is left of it.                        *)
Commanding ==
    /\ Coordinated(manager)
    /\ Issued(manager, timeline, toSender)
    /\ Issued(manager, receiver.timeline, toReceiver)
    /\ Sequenced(timeline, toSender)
    /\ Sequenced(receiver.timeline, toReceiver)
    /\ Spaced(manager, Plan(timeline, toSender))

(* How the two nodes may differ.                                           *)
Agreeing ==
    /\ Agreement(timeline, toSender, hold, reached, receiver.timeline, toReceiver,
                 receiver.active)
    /\ Pausing(manager, timeline, toSender, hold, toReceiver, receiver.pauseAfter)

(* Keys and datagrams between sender and receiver.                         *)
Delivering ==
    /\ Disclosing(timeline, sending, hold, reached, disclosed, network, inbox, now)
    /\ Stamped(inbox, late, timeline, disclosed, receiver.keys, network, now, skew)
    /\ Learned(receiver, disclosed)

(* Unless a command is doomed, nothing unsafe was stored and every known   *)
(* key has settled its packets.                                            *)
Safe == Doomed(toSender, reached, toReceiver, now) \/ (unsafe = {} /\ Settled(receiver))

(* The state of nodes that have not split.                                 *)
Good == Types /\ Commanding /\ Agreeing /\ Delivering /\ Safe

(* The inductive invariant: once a pause was missed or a resume refused    *)
(* nothing is claimed any more.                                            *)
RoundInv == split \/ Good
-----------------------------------------------------------------------------
(* Queues hold commands, and what they open are segments.                  *)
LEMMA OrdersType ==
    ASSUME NEW q \in Seq(Commands)
    PROVE  /\ Orders(q) \subseteq Commands
           /\ Coming(q) \subseteq Segments
           /\ \A x \in Coming(q) : \E c \in Orders(q) : Opens(c) /\ x = Opened(c)
           /\ \A c \in Orders(q) : Opens(c) => Opened(c) \in Coming(q)
<1>1. Orders(q) \subseteq Commands
  BY DEF Orders
<1>2. /\ \A x \in Coming(q) : \E c \in Orders(q) : Opens(c) /\ x = Opened(c)
      /\ \A c \in Orders(q) : Opens(c) => Opened(c) \in Coming(q)
  BY DEF Coming
<1>3. \A c \in Commands : Opened(c) \in Segments
  BY DEF Opened, Segment, Commands, Segments
<1> QED BY <1>1, <1>2, <1>3

(* The empty queue and the empty timeline.                                 *)
LEMMA NoOrders == Orders(<<>>) = {} /\ Coming(<<>>) = {} /\ Parts(<<>>) = {}
    /\ Ordered(<<>>)
BY DEF Orders, Coming, Parts, Ordered

(* A command more in a queue.                                              *)
LEMMA OrdersAppend ==
    ASSUME NEW q \in Seq(Commands), NEW c \in Commands
    PROVE  /\ Append(q, c) \in Seq(Commands)
           /\ Orders(Append(q, c)) = Orders(q) \cup {c}
           /\ Coming(Append(q, c)) =
                Coming(q) \cup (IF Opens(c) THEN {Opened(c)} ELSE {})
<1>1. /\ Append(q, c) \in Seq(Commands) /\ Len(q) \in Nat
      /\ Len(Append(q, c)) = Len(q) + 1
      /\ Append(q, c)[Len(q) + 1] = c
      /\ \A n \in 1 .. Len(q) : Append(q, c)[n] = q[n]
  OBVIOUS
<1>2. Orders(Append(q, c)) = Orders(q) \cup {c}
  BY <1>1 DEF Orders
<1>3. Coming(Append(q, c)) = Coming(q) \cup (IF Opens(c) THEN {Opened(c)} ELSE {})
  BY <1>2 DEF Coming
<1> QED BY <1>1, <1>2, <1>3

(* A command less in a queue.                                              *)
LEMMA OrdersTail ==
    ASSUME NEW q \in Seq(Commands), q # <<>>
    PROVE  /\ Tail(q) \in Seq(Commands) /\ Head(q) \in Commands
           /\ Orders(q) = {Head(q)} \cup Orders(Tail(q))
           /\ Coming(q) = Coming(Tail(q)) \cup (IF Opens(Head(q)) THEN {Opened(Head(q))} ELSE {})
<1>1. /\ Tail(q) \in Seq(Commands) /\ Head(q) \in Commands /\ Len(q) \in Nat \ {0}
      /\ Len(Tail(q)) = Len(q) - 1
      /\ Head(q) = q[1]
      /\ \A n \in 1 .. Len(q) - 1 : Tail(q)[n] = q[n + 1]
  OBVIOUS
<1>2. Orders(q) \subseteq {Head(q)} \cup Orders(Tail(q))
  <2> SUFFICES ASSUME NEW n \in 1 .. Len(q)
               PROVE  q[n] \in {Head(q)} \cup Orders(Tail(q))
    BY DEF Orders
  <2>1. CASE n = 1
    BY <1>1, <2>1
  <2>2. CASE n # 1
    <3>1. n - 1 \in 1 .. Len(q) - 1 /\ q[n] = Tail(q)[n - 1]
      BY <1>1, <2>2
    <3> QED BY <1>1, <3>1 DEF Orders
  <2> QED BY <2>1, <2>2
<1>3. {Head(q)} \cup Orders(Tail(q)) \subseteq Orders(q)
  <2>1. Head(q) \in Orders(q)
    BY <1>1 DEF Orders
  <2>2. ASSUME NEW n \in 1 .. Len(Tail(q)) PROVE Tail(q)[n] \in Orders(q)
    <3>1. n + 1 \in 1 .. Len(q) /\ Tail(q)[n] = q[n + 1]
      BY <1>1
    <3> QED BY <3>1 DEF Orders
  <2> QED BY <2>1, <2>2 DEF Orders
<1>4. Orders(q) = {Head(q)} \cup Orders(Tail(q))
  BY <1>2, <1>3
<1>5. Coming(q) = Coming(Tail(q)) \cup (IF Opens(Head(q)) THEN {Opened(Head(q))} ELSE {})
  BY <1>4 DEF Coming
<1> QED BY <1>1, <1>4, <1>5

(* A queue stays in order when a command of a later interval, or a stop,   *)
(* joins it.                                                               *)
LEMMA OrderedAppend ==
    ASSUME NEW q \in Seq(Commands), NEW c \in Commands, Ordered(q),
           \A o \in Orders(q) : o.op # "stop" /\ (c.op # "stop" => o.interval < c.interval)
    PROVE  Ordered(Append(q, c))
<1>1. /\ Len(q) \in Nat /\ Len(Append(q, c)) = Len(q) + 1
      /\ Append(q, c)[Len(q) + 1] = c
      /\ \A n \in 1 .. Len(q) : Append(q, c)[n] = q[n] /\ q[n] \in Orders(q)
  BY DEF Orders
<1> SUFFICES ASSUME NEW m \in 1 .. Len(q) + 1, NEW n \in 1 .. Len(q) + 1, m < n
             PROVE  /\ Append(q, c)[m].op # "stop"
                    /\ Append(q, c)[n].op # "stop" =>
                         Append(q, c)[m].interval < Append(q, c)[n].interval
  BY <1>1 DEF Ordered
<1>2. m \in 1 .. Len(q) /\ (n \in 1 .. Len(q) \/ n = Len(q) + 1)
  BY <1>1
<1>3. CASE n \in 1 .. Len(q)
  BY <1>1, <1>2, <1>3 DEF Ordered
<1>4. CASE n = Len(q) + 1
  BY <1>1, <1>2, <1>4
<1> QED BY <1>2, <1>3, <1>4

(* The head of a queue comes before the rest; nothing follows a stop.      *)
LEMMA OrderedTail ==
    ASSUME NEW q \in Seq(Commands), q # <<>>, Ordered(q)
    PROVE  /\ Ordered(Tail(q))
           /\ \A o \in Orders(Tail(q)) : o.op # "stop" => Head(q).interval < o.interval
           /\ Head(q).op = "stop" => Tail(q) = <<>>
<1>1. /\ Tail(q) \in Seq(Commands) /\ Len(q) \in Nat \ {0}
      /\ Len(Tail(q)) = Len(q) - 1
      /\ Head(q) = q[1]
      /\ \A n \in 1 .. Len(q) - 1 : Tail(q)[n] = q[n + 1] /\ n + 1 \in 1 .. Len(q)
  OBVIOUS
<1>2. Ordered(Tail(q))
  <2> SUFFICES ASSUME NEW m \in 1 .. Len(q) - 1, NEW n \in 1 .. Len(q) - 1, m < n
               PROVE  /\ q[m + 1].op # "stop"
                      /\ q[n + 1].op # "stop" => q[m + 1].interval < q[n + 1].interval
    BY <1>1 DEF Ordered
  <2>1. m + 1 \in 1 .. Len(q) /\ n + 1 \in 1 .. Len(q) /\ m + 1 < n + 1
    BY <1>1
  <2> QED BY <2>1 DEF Ordered
<1>3. ASSUME NEW n \in 1 .. Len(q) - 1
      PROVE  /\ Head(q).op # "stop"
             /\ Tail(q)[n].op # "stop" => Head(q).interval < Tail(q)[n].interval
  <2>1. n + 1 \in 1 .. Len(q) /\ 1 \in 1 .. Len(q) /\ 1 < n + 1
    BY <1>1
  <2> QED BY <1>1, <2>1 DEF Ordered
<1>4. Head(q).op = "stop" => Tail(q) = <<>>
  <2> SUFFICES ASSUME Head(q).op = "stop", Tail(q) # <<>> PROVE FALSE
    OBVIOUS
  <2>1. Len(Tail(q)) # 0
    BY <1>1
  <2>2. 1 \in 1 .. Len(q) - 1
    BY <1>1, <2>1
  <2> QED BY <1>3, <2>2
<1> QED BY <1>1, <1>2, <1>3, <1>4 DEF Orders

(* A segment more in a timeline.                                           *)
LEMMA PartsAppend ==
    ASSUME NEW line \in Seq(Segments), NEW x \in Segments
    PROVE  /\ Append(line, x) \in Seq(Segments) /\ Append(line, x) # <<>>
           /\ Parts(Append(line, x)) = Parts(line) \cup {x}
<1>1. /\ Append(line, x) \in Seq(Segments) /\ Len(line) \in Nat
      /\ Len(Append(line, x)) = Len(line) + 1
      /\ Append(line, x)[Len(line) + 1] = x
      /\ \A n \in 1 .. Len(line) : Append(line, x)[n] = line[n]
  OBVIOUS
<1>2. Parts(Append(line, x)) = Parts(line) \cup {x}
  BY <1>1 DEF Parts
<1>3. Append(line, x) # <<>>
  BY <1>1
<1> QED BY <1>1, <1>2, <1>3

(* The parts of a timeline are segments.                                   *)
LEMMA PartsType ==
    ASSUME NEW line \in Seq(Segments)
    PROVE  /\ Parts(line) \subseteq Segments
           /\ line # <<>> => line[1] \in Parts(line)
<1>1. Len(line) \in Nat /\ (line # <<>> => Len(line) # 0)
  OBVIOUS
<1> QED BY <1>1 DEF Parts

(* A timeline stays sorted when a later segment joins it.                  *)
LEMMA SortedAppend ==
    ASSUME NEW line \in Seq(Segments), NEW x \in Segments, Sorted(line),
           \A y \in Parts(line) : y.first < x.first,
           line = <<>> => x.first = 1
    PROVE  Sorted(Append(line, x))
<1>1. /\ Len(line) \in Nat /\ Len(Append(line, x)) = Len(line) + 1
      /\ Append(line, x)[Len(line) + 1] = x
      /\ \A n \in 1 .. Len(line) : Append(line, x)[n] = line[n] /\ line[n] \in Parts(line)
      /\ line = <<>> => Len(line) = 0
      /\ line # <<>> => Len(line) # 0
  BY DEF Parts
<1>2. Append(line, x)[1].first = 1
  <2>1. CASE line = <<>>
    BY <1>1, <2>1
  <2>2. CASE line # <<>>
    BY <1>1, <2>2 DEF Sorted
  <2> QED BY <2>1, <2>2
<1>3. ASSUME NEW m \in 1 .. Len(line) + 1, NEW n \in 1 .. Len(line) + 1, m < n
      PROVE  Append(line, x)[m].first < Append(line, x)[n].first
  <2>1. m \in 1 .. Len(line) /\ (n \in 1 .. Len(line) \/ n = Len(line) + 1)
    BY <1>1, <1>3
  <2>2. CASE n \in 1 .. Len(line)
    BY <1>1, <1>3, <2>1, <2>2 DEF Sorted
  <2>3. CASE n = Len(line) + 1
    BY <1>1, <2>1, <2>3
  <2> QED BY <2>1, <2>2, <2>3
<1> QED BY <1>1, <1>2, <1>3 DEF Sorted

(* A nonempty set of numbers up to n has a largest member.                 *)
LEMMA LargestMember ==
    ASSUME NEW n \in Nat, NEW T, T \subseteq 1 .. n, T # {}
    PROVE  \E c \in T : \A k \in T : k <= c
<1>0. \A k \in T : k \in 1 .. n /\ k \in Nat
  OBVIOUS
<1> DEFINE Above == {k .. n : k \in T}
           R == StrictSubsetOrdering(1 .. n)
           F == FiniteSubsetsOf(1 .. n)
<1>1. IsWellFoundedOn(R, F)
  BY FS_StrictSubsetOrderingWellFounded
<1>2. F = SUBSET (1 .. n)
  <2>1. IsFiniteSet(1 .. n)
    BY FS_Interval
  <2> QED BY <2>1, FS_FiniteSubsetsOfFinite
<1>3. \A k \in T : k .. n \in SUBSET (1 .. n)
  OBVIOUS
<1>4. Above \subseteq F /\ Above # {}
  <2> HIDE DEF F
  <2> QED BY <1>2, <1>3
<1>5. \A j, k \in T : j < k => <<k .. n, j .. n>> \in R
  <2> SUFFICES ASSUME NEW j \in T, NEW k \in T, j < k PROVE <<k .. n, j .. n>> \in R
    OBVIOUS
  <2>1. k .. n \subseteq j .. n /\ j \in j .. n /\ j \notin k .. n
    BY <1>0
  <2>2. k .. n # j .. n
    BY <2>1
  <2> QED BY <1>3, <2>1, <2>2 DEF StrictSubsetOrdering
<1>6. \E a \in Above : \A b \in Above : ~(<<b, a>> \in R)
  <2> HIDE DEF Above, R, F
  <2> QED BY <1>1, <1>4, WFMin
<1>7. PICK c \in T : \A k \in T : ~(<<k .. n, c .. n>> \in R)
  <2> HIDE DEF R
  <2> QED BY <1>6
<1>8. \A k \in T : ~(c < k)
  <2> HIDE DEF R
  <2> QED BY <1>5, <1>7
<1> QED BY <1>0, <1>8

(* SegmentOf finds the last segment that is not behind an interval.        *)
LEMMA SegmentCovers ==
    ASSUME NEW line \in Seq(Segments), Sorted(line), line # <<>>, NEW i \in Nat \ {0}
    PROVE  /\ SegmentOf(line, i) \in Parts(line)
           /\ SegmentOf(line, i).first <= i
           /\ \A x \in Parts(line) : x.first <= i => x.first <= SegmentOf(line, i).first
<1> DEFINE N == Len(line)
           Upto == {n \in 1 .. N : line[n].first <= i}
           P(n) == /\ \A m \in 1 .. n : line[m].first <= i
                   /\ n < N => line[n + 1].first > i
<1>1. /\ N \in Nat \ {0} /\ DOMAIN line = 1 .. N
      /\ \A n \in 1 .. N : line[n].first \in Nat /\ line[n] \in Parts(line)
  <2>1. N \in Nat \ {0} /\ DOMAIN line = 1 .. N
    OBVIOUS
  <2>2. \A n \in 1 .. N : line[n] \in Segments /\ line[n] \in Parts(line)
    BY DEF Parts
  <2> QED BY <2>1, <2>2 DEF Segments
<1>2. 1 \in Upto
  BY <1>1 DEF Sorted
<1>3. PICK c \in Upto : \A n \in Upto : n <= c
  <2>1. Upto \subseteq 1 .. N /\ Upto # {} /\ N \in Nat
    BY <1>1, <1>2
  <2> HIDE DEF Upto, N
  <2> QED BY <2>1, LargestMember
<1>4. P(c)
  <2>1. \A m \in 1 .. c : line[m].first <= i
    <3> SUFFICES ASSUME NEW m \in 1 .. c PROVE line[m].first <= i
      OBVIOUS
    <3>1. m \in 1 .. N /\ (m < c \/ m = c)
      BY <1>1
    <3> QED BY <1>1, <3>1 DEF Sorted
  <2>2. c < N => line[c + 1].first > i
    BY <1>1, <1>3
  <2> QED BY <2>1, <2>2
<1>5. ASSUME NEW n \in 1 .. N, P(n) PROVE n = c
  <2>1. n <= c
    BY <1>1, <1>3, <1>5
  <2>2. ~(n < c)
    <3> SUFFICES ASSUME n < c PROVE FALSE
      OBVIOUS
    <3>1. n + 1 \in 1 .. c /\ n < N /\ n + 1 \in 1 .. N
      BY <1>1
    <3> QED BY <1>1, <1>4, <1>5, <3>1
  <2> QED BY <1>1, <2>1, <2>2
<1>6. (CHOOSE n \in DOMAIN line : P(n)) = c
  <2> HIDE DEF P
  <2> QED BY <1>1, <1>4, <1>5
<1>7. SegmentOf(line, i) = line[c]
  BY <1>6 DEF SegmentOf
<1>8. ASSUME NEW x \in Parts(line), x.first <= i PROVE x.first <= line[c].first
  <2>1. PICK n \in 1 .. N : x = line[n]
    BY DEF Parts
  <2>2. n \in Upto
    BY <1>8, <2>1
  <2>3. n <= c /\ (n < c \/ n = c)
    BY <1>1, <1>3, <2>2
  <2> QED BY <1>1, <2>1, <2>3 DEF Sorted
<1> QED BY <1>1, <1>7, <1>8

(* A command of a later interval keeps queue and timeline in sequence.     *)
LEMMA SequencedAppend ==
    ASSUME NEW line, NEW q \in Seq(Commands), NEW c \in Commands, Sequenced(line, q),
           \A o \in Orders(q) : o.op # "stop" /\ (c.op # "stop" => o.interval < c.interval),
           c.op = "start" => c.interval = 1,
           c.op \in {"pause", "resume"} => c.interval > 1,
           c.op # "stop" => \A x \in Parts(line) : x.first < c.interval
    PROVE  Sequenced(line, Append(q, c))
BY OrderedAppend, OrdersAppend DEF Sequenced

(* A command that is dropped keeps queue and timeline in sequence.         *)
LEMMA SequencedTail ==
    ASSUME NEW line, NEW q \in Seq(Commands), q # <<>>, Sequenced(line, q)
    PROVE  Sequenced(line, Tail(q))
BY OrderedTail, OrdersTail DEF Sequenced

(* So does a command that is carried out by a new segment.                 *)
LEMMA SequencedTaken ==
    ASSUME NEW line \in Seq(Segments), NEW q \in Seq(Commands), q # <<>>,
           Sequenced(line, q), Opens(Head(q)),
           line = <<>> => Head(q).op = "start"
    PROVE  Sequenced(Append(line, Opened(Head(q))), Tail(q))
<1> DEFINE c == Head(q)
           x == Opened(c)
<1>1. /\ Ordered(Tail(q)) /\ Orders(q) = {c} \cup Orders(Tail(q))
      /\ c \in Commands /\ Tail(q) \in Seq(Commands)
      /\ \A o \in Orders(Tail(q)) : o.op # "stop" => c.interval < o.interval
  BY OrderedTail, OrdersTail DEF Sequenced
<1>2. x \in Segments /\ x.first = c.interval /\ c.op # "stop"
  BY <1>1 DEF Opened, Segment, Segments, Commands, Opens
<1> HIDE DEF c, x
<1>3. Sorted(Append(line, x))
  BY <1>1, <1>2, SortedAppend DEF Sequenced, c
<1>4. Parts(Append(line, x)) = Parts(line) \cup {x}
  BY <1>2, PartsAppend
<1>5. Sequenced(Append(line, x), Tail(q))
  BY <1>1, <1>2, <1>3, <1>4 DEF Sequenced
<1> QED BY <1>5 DEF c, x

(* A node that drops a command loses at most the segment it opens.         *)
LEMMA PlanTail ==
    ASSUME NEW line, NEW q \in Seq(Commands), q # <<>>
    PROVE  /\ Plan(line, Tail(q)) \subseteq Plan(line, q)
           /\ ~Opens(Head(q)) => Plan(line, Tail(q)) = Plan(line, q)
           /\ Opens(Head(q)) =>
                Plan(line, q) = Plan(line, Tail(q)) \cup {Opened(Head(q))}
BY OrdersTail DEF Plan

(* A node that carries out a command keeps its plan.                       *)
LEMMA PlanTaken ==
    ASSUME NEW line \in Seq(Segments), NEW q \in Seq(Commands), q # <<>>, Opens(Head(q))
    PROVE  Plan(Append(line, Opened(Head(q))), Tail(q)) = Plan(line, q)
<1>1. /\ Head(q) \in Commands
      /\ Coming(q) = Coming(Tail(q)) \cup {Opened(Head(q))}
  BY OrdersTail
<1>2. Opened(Head(q)) \in Segments
  BY <1>1 DEF Opened, Segment, Segments, Commands
<1>3. Parts(Append(line, Opened(Head(q)))) = Parts(line) \cup {Opened(Head(q))}
  BY <1>2, PartsAppend
<1> QED BY <1>1, <1>3 DEF Plan

(* A node that is sent a command adds what it opens to its plan.           *)
LEMMA PlanAppend ==
    ASSUME NEW line, NEW q \in Seq(Commands), NEW c \in Commands
    PROVE  Plan(line, Append(q, c)) =
             Plan(line, q) \cup (IF Opens(c) THEN {Opened(c)} ELSE {})
BY OrdersAppend DEF Plan

(* Dropping a command keeps a node within the orders of the Manager.       *)
LEMMA IssuedTail ==
    ASSUME NEW m, NEW line, NEW q \in Seq(Commands), q # <<>>, Issued(m, line, q)
    PROVE  Issued(m, line, Tail(q))
<1>1. /\ Orders(Tail(q)) \subseteq Orders(q)
      /\ Plan(line, Tail(q)) \subseteq Plan(line, q)
  BY OrdersTail, PlanTail
<1> QED BY <1>1 DEF Issued

(* So does carrying it out.                                                *)
LEMMA IssuedTaken ==
    ASSUME NEW m, NEW line \in Seq(Segments), NEW q \in Seq(Commands), q # <<>>,
           Issued(m, line, q), Opens(Head(q))
    PROVE  Issued(m, Append(line, Opened(Head(q))), Tail(q))
<1>1. /\ Orders(Tail(q)) \subseteq Orders(q)
      /\ Plan(Append(line, Opened(Head(q))), Tail(q)) = Plan(line, q)
  BY OrdersTail, PlanTaken
<1> QED BY <1>1 DEF Issued

-----------------------------------------------------------------------------
(* By one segment, intervals begin one IntervalLength after the other.     *)
LEMMA StartInGrows ==
    ASSUME NEW x \in Segments, NEW i \in Nat, NEW j \in Nat, i <= j
    PROVE  /\ StartIn(x, i) \in Int /\ StartIn(x, j) \in Int
           /\ StartIn(x, j) = StartIn(x, i) + (j - i) * IntervalLength
           /\ StartIn(x, i) <= StartIn(x, j)
           /\ StartIn(x, x.first) = x.ts
<1>1. x.first \in Nat /\ x.ts \in Nat /\ IntervalLength \in Nat
  BY RoundAssumption DEF Segments
<1>2. (j - i) * IntervalLength \in Nat
  BY <1>1
<1>3. (j - x.first) * IntervalLength =
        (i - x.first) * IntervalLength + (j - i) * IntervalLength
  BY <1>1
<1>4. (i - x.first) * IntervalLength \in Int
  BY <1>1
<1>5. StartIn(x, x.first) = x.ts
  BY <1>1 DEF StartIn
<1> QED BY <1>1, <1>2, <1>3, <1>4, <1>5 DEF StartIn

(* A part of a plan is spaced if the plan is.                              *)
LEMMA SpacedSubset ==
    ASSUME NEW m, NEW n, NEW plan, NEW part, Spaced(m, plan), part \subseteq plan,
           n.first = m.first, n.start = m.start
    PROVE  Spaced(n, part)
BY DEF Spaced

(* A resume ordered after the end of the paused interval keeps the plan    *)
(* spaced: the Manager computes ResumeTime from pauseTs.                   *)
LEMMA SpacedResume ==
    ASSUME NEW m \in Managers, NEW n \in Managers, NEW plan \in SUBSET Segments,
           NEW x \in Segments,
           Spaced(m, plan), Coordinated(m), m.paused,
           n.first = m.pauseAfter + 1, n.start >= m.pauseTs,
           x.first = n.first, x.ts = n.start,
           \A y \in plan : y.first <= m.first
    PROVE  Spaced(n, plan \cup {x})
<1>1. /\ m.first \in Nat /\ m.start \in Nat /\ n.first \in Nat /\ n.start \in Nat
      /\ m.pauseTs \in Nat /\ m.first < n.first
      /\ m.pauseTs = m.start + (n.first - m.first) * IntervalLength
  <2>1. /\ m.first \in Nat /\ m.start \in Nat /\ n.first \in Nat /\ n.start \in Nat
        /\ m.pauseTs \in Nat /\ m.pauseAfter \in Nat
    BY DEF Managers
  <2>2. m.pauseAfter - m.first + 1 = n.first - m.first
    BY <2>1
  <2> QED BY <2>1, <2>2 DEF Coordinated
<1>2. (n.first - m.first) * IntervalLength \in Int
  BY <1>1, RoundAssumption
<1>3. \A y \in plan : StartIn(y, n.first) <= n.start
  <2> TAKE y \in plan
  <2>1. /\ StartIn(y, m.first) \in Int
        /\ StartIn(y, n.first) = StartIn(y, m.first) + (n.first - m.first) * IntervalLength
    BY <1>1, StartInGrows
  <2>2. StartIn(y, m.first) <= m.start
    BY DEF Spaced
  <2> QED BY <1>1, <1>2, <2>1, <2>2
<1>4. StartIn(x, x.first) = x.ts /\ x.first \in Nat /\ x.ts \in Nat
  <2>1. x.first \in Nat /\ x.ts \in Nat
    BY DEF Segments
  <2> QED BY <2>1, StartInGrows
<1>5. \A y \in plan : y.first \in Nat /\ y.first < x.first
  BY <1>1 DEF Segments
<1>6. \A y, z \in plan \cup {x} : y.first <= z.first => StartIn(y, z.first) <= z.ts
  <2> SUFFICES ASSUME NEW y \in plan \cup {x}, NEW z \in plan \cup {x},
                      y.first <= z.first
               PROVE  StartIn(y, z.first) <= z.ts
    OBVIOUS
  <2>1. CASE y \in plan /\ z \in plan
    BY <2>1 DEF Spaced
  <2>2. CASE y \in plan /\ z = x
    BY <1>3, <2>2
  <2>3. CASE y = x /\ z \in plan
    BY <1>4, <1>5, <2>3
  <2>4. CASE y = x /\ z = x
    BY <1>4, <2>4
  <2> QED BY <2>1, <2>2, <2>3, <2>4
<1> QED BY <1>3, <1>4, <1>6 DEF Spaced

(* A command the Manager sends is within its orders.                       *)
LEMMA IssuedAppend ==
    ASSUME NEW m \in Managers, NEW n \in Managers, NEW line \in Seq(Segments),
           NEW q \in Seq(Commands), NEW c \in Commands, Issued(m, line, q),
           m.first <= n.first, n.start # 0,
           n.running => /\ c.op # "stop" /\ c.interval <= Latest(n)
                        /\ \A o \in Orders(q) : o.op # "stop" /\ o.interval <= Latest(n),
           Opens(c) => c.interval <= n.first
    PROVE  Issued(n, line, Append(q, c))
<1>1. /\ Orders(Append(q, c)) = Orders(q) \cup {c}
      /\ Plan(line, Append(q, c)) = Plan(line, q) \cup (IF Opens(c) THEN {Opened(c)} ELSE {})
  BY OrdersAppend, PlanAppend
<1>2. Opened(c).first = c.interval
  BY DEF Opened, Segment
<1>3. m.first \in Nat /\ n.first \in Nat
  BY DEF Managers
<1>4. Plan(line, q) \subseteq Segments
  BY OrdersType, PartsType DEF Plan
<1>5. \A x \in Plan(line, q) : x.first <= n.first
  BY <1>3, <1>4 DEF Issued, Segments
<1> QED BY <1>1, <1>2, <1>5 DEF Issued

-----------------------------------------------------------------------------
(* The fields of a command.                                                *)
LEMMA CommandTypes ==
    ASSUME NEW c \in Commands
    PROVE  /\ c.interval \in Nat /\ c.ts \in Nat
           /\ c.op \in {"start", "pause", "resume", "stop"}
           /\ Opened(c) \in Segments
           /\ Opened(c).first = c.interval /\ Opened(c).ts = c.ts
BY DEF Commands, Opened, Segment, Segments

(* Plans hold segments.                                                    *)
LEMMA PlanType ==
    ASSUME NEW line \in Seq(Segments), NEW q \in Seq(Commands)
    PROVE  Plan(line, q) \subseteq Segments
BY OrdersType, PartsType DEF Plan

(* A command to both nodes keeps their plans in agreement.                 *)
LEMMA AgreementIssued ==
    ASSUME NEW line, NEW q \in Seq(Commands), NEW rq \in Seq(Commands), NEW h, NEW r,
           NEW rline, NEW active, NEW c \in Commands,
           Agreement(line, q, h, r, rline, rq, active),
           \A x \in Plan(rline, rq) : c.op # "stop"
               => x.first < c.interval \/ x \in Plan(line, q),
           c.op = "start" => Plan(line, q) = {}
    PROVE  Agreement(line, Append(q, c), h, r, rline, Append(rq, c), active)
<1> DEFINE new == IF Opens(c) THEN {Opened(c)} ELSE {}
<1>1. /\ Plan(line, Append(q, c)) = Plan(line, q) \cup new
      /\ Plan(rline, Append(rq, c)) = Plan(rline, rq) \cup new
      /\ Orders(Append(q, c)) = Orders(q) \cup {c}
      /\ Orders(Append(rq, c)) = Orders(rq) \cup {c}
  BY OrdersAppend, PlanAppend
<1> HIDE DEF new
<1>2. ASSUME NEW x \in Plan(rline, rq)
      PROVE  x \in Plan(line, q) \/ Refused(x, line, Append(q, c), h, r)
  BY <1>1, <1>2 DEF Agreement, Refused
<1>3. ASSUME active \/ \E o \in Orders(rq) \cup {c} : o.op = "start"
      PROVE  Plan(line, q) \subseteq Plan(rline, rq)
  BY <1>3 DEF Agreement
<1> QED BY <1>1, <1>2, <1>3 DEF Agreement

(* A command to both nodes keeps the sender informed of its pauses.        *)
LEMMA PausingIssued ==
    ASSUME NEW m \in Managers, NEW n \in Managers, NEW line, NEW q \in Seq(Commands),
           NEW rq \in Seq(Commands), NEW h, NEW after, NEW c \in Commands,
           Pausing(m, line, q, h, rq, after),
           c.op = "resume" => m.paused /\ c.interval = m.pauseAfter + 1,
           n.paused => \/ c.op = "pause" /\ c.interval = n.pauseAfter
                       \/ m.paused /\ n.pauseAfter = m.pauseAfter
    PROVE  Pausing(n, line, Append(q, c), h, Append(rq, c), after)
<1>1. /\ Orders(Append(q, c)) = Orders(q) \cup {c}
      /\ Orders(Append(rq, c)) = Orders(rq) \cup {c}
  BY OrdersAppend
<1>2. \A k : Held(k, h, q) => Held(k, h, Append(q, c))
  BY <1>1 DEF Held
<1>3. c.op = "pause" => Held(c.interval, h, Append(q, c))
  BY <1>1 DEF Held
<1>4. c.op = "resume" => Held(c.interval - 1, h, Append(q, c))
  <2>1. m.pauseAfter \in Nat
    BY DEF Managers
  <2>2. c.op = "resume" => c.interval - 1 = m.pauseAfter /\ Held(m.pauseAfter, h, q)
    BY <2>1 DEF Pausing
  <2> QED BY <1>2, <2>2
<1>5. n.paused => Held(n.pauseAfter, h, Append(q, c))
  BY <1>2, <1>3 DEF Pausing
<1> QED BY <1>1, <1>2, <1>3, <1>4, <1>5 DEF Pausing, Known

(* What each command of the Manager does that reaches both nodes           *)
(* (Broadcast); its premises are checked below for each of the commands.   *)
LEMMA IssueKeepsGood ==
    ASSUME Good, NEW c \in Commands,
           toSender' = Append(toSender, c), toReceiver' = Append(toReceiver, c),
           UNCHANGED <<senderVars, skew, receiverVars, network>>,
           manager' \in Managers, Coordinated(manager'),
           manager.first <= manager'.first, manager'.start # 0,
           \A o \in Orders(toSender) \cup Orders(toReceiver) :
              o.op # "stop" /\ (c.op # "stop" => o.interval < c.interval),
           c.op = "start" => c.interval = 1 /\ manager.start = 0,
           c.op \in {"pause", "resume"} => c.interval > manager.first,
           manager'.running =>
              /\ c.op # "stop" /\ c.interval <= Latest(manager')
              /\ \A o \in Orders(toSender) \cup Orders(toReceiver) :
                    o.interval <= Latest(manager'),
           Opens(c) => c.interval <= manager'.first,
           Spaced(manager', Plan(timeline, toSender)
                              \cup (IF Opens(c) THEN {Opened(c)} ELSE {})),
           c.op = "resume" => manager.paused /\ c.interval = manager.pauseAfter + 1,
           manager'.paused =>
              \/ c.op = "pause" /\ c.interval = manager'.pauseAfter
              \/ manager.paused /\ manager'.pauseAfter = manager.pauseAfter
    PROVE  Good'
<1> USE DEF senderVars, receiverVars
<1>1. Types'
  BY OrdersAppend DEF Good, Types
<1>2. /\ manager.first \in Nat /\ c.interval \in Nat
      /\ manager.first > 0
      /\ Plan(timeline, toSender) \subseteq Segments
      /\ Plan(receiver.timeline, toReceiver) \subseteq Segments
      /\ receiver.timeline \in Seq(Segments)
  BY CommandTypes, PlanType DEF Good, Types, Commanding, Coordinated, Managers, Sound,
     Ranges, Segments
<1>3. /\ \A x \in Plan(timeline, toSender) : c.op # "stop" => x.first < c.interval
      /\ \A x \in Plan(receiver.timeline, toReceiver) : c.op # "stop"
             => x.first < c.interval
      /\ c.op = "start" => /\ Plan(timeline, toSender) = {}
                          /\ Plan(receiver.timeline, toReceiver) = {}
  <2>1. c.op = "start" => /\ Plan(timeline, toSender) = {}
                          /\ Plan(receiver.timeline, toReceiver) = {}
    BY NoOrders DEF Good, Commanding, Issued, Plan
  <2>2. /\ \A x \in Plan(timeline, toSender) : x.first <= manager.first
        /\ \A x \in Plan(receiver.timeline, toReceiver) : x.first <= manager.first
    BY DEF Good, Commanding, Issued
  <2>3. c.op \in {"start", "pause", "resume", "stop"}
    BY CommandTypes
  <2> QED BY <1>2, <2>1, <2>2, <2>3 DEF Segments
<1>4. Commanding'
  <2>1. Issued(manager', timeline, toSender')
    BY <1>2, IssuedAppend DEF Good, Types, Commanding
  <2>2. Issued(manager', receiver.timeline, toReceiver')
    BY <1>2, IssuedAppend DEF Good, Types, Commanding
  <2>3. c.op \in {"pause", "resume"} => c.interval > 1
    BY <1>2
  <2>4. Sequenced(timeline, toSender')
    BY <1>3, <2>3, SequencedAppend DEF Good, Types, Commanding, Plan
  <2>5. Sequenced(receiver.timeline, toReceiver')
    BY <1>3, <2>3, SequencedAppend DEF Good, Types, Commanding, Plan
  <2>6. Spaced(manager', Plan(timeline, toSender'))
    BY PlanAppend DEF Good, Types
  <2> QED BY <2>1, <2>2, <2>4, <2>5, <2>6 DEF Commanding
<1>5. Agreeing'
  <2>1. Agreement(timeline, toSender', hold, reached, receiver.timeline, toReceiver',
            receiver.active)
    BY <1>3, AgreementIssued DEF Good, Types, Agreeing
  <2>2. Pausing(manager', timeline, toSender', hold, toReceiver', receiver.pauseAfter)
    BY PausingIssued DEF Good, Types, Agreeing
  <2> QED BY <2>1, <2>2 DEF Agreeing
<1>6. Delivering'
  BY DEF Good, Delivering
<1>7. Safe'
  <2>1. /\ Orders(toSender) \subseteq Orders(toSender')
        /\ Orders(toReceiver) \subseteq Orders(toReceiver')
    BY OrdersAppend DEF Good, Types
  <2>2. Doomed(toSender, reached, toReceiver, now)
          => Doomed(toSender', reached, toReceiver', now)
    BY <2>1 DEF Doomed
  <2> QED BY <2>2 DEF Good, Safe
<1> QED BY <1>1, <1>4, <1>5, <1>6, <1>7 DEF Good

(* StartRound reaches both nodes.                                          *)
LEMMA StartRoundKeepsGood ==
    ASSUME Good, StartRound PROVE Good'
<1> DEFINE c == Command("start", 1, now + ManagerLead)
<1>1. /\ ~manager.running /\ manager.start = 0
      /\ toSender' = Append(toSender, c) /\ toReceiver' = Append(toReceiver, c)
      /\ manager' = [manager EXCEPT !.running = TRUE, !.start = now + ManagerLead]
      /\ UNCHANGED <<senderVars, skew, receiverVars, network>>
  BY DEF StartRound, Broadcast, Nodes
<1>2. /\ c \in Commands /\ c.op = "start" /\ c.interval = 1 /\ c.ts = now + ManagerLead
      /\ now + ManagerLead \in Nat /\ now + ManagerLead # 0
  BY TeslaAssumption DEF Good, Types, Command, Commands
<1>3. /\ manager' \in Managers /\ manager'.running /\ ~manager'.paused
      /\ manager'.first = 1 /\ manager.first = 1 /\ manager'.start = now + ManagerLead
  BY <1>1, <1>2 DEF Good, Types, Commanding, Coordinated, Managers
<1>4. /\ timeline = <<>> /\ toSender = <<>> /\ receiver.timeline = <<>>
      /\ toReceiver = <<>>
      /\ Orders(toSender) = {} /\ Orders(toReceiver) = {}
      /\ Plan(timeline, toSender) = {}
  BY <1>1, NoOrders DEF Good, Commanding, Issued, Plan
<1>5. Opened(c) \in Segments /\ Opened(c).first = 1 /\ Opened(c).ts = now + ManagerLead
  BY <1>2, CommandTypes
<1>6. StartIn(Opened(c), 1) = now + ManagerLead
  BY <1>2, <1>5, StartInGrows
<1> HIDE DEF c
<1>7. Spaced(manager', Plan(timeline, toSender) \cup (IF Opens(c) THEN {Opened(c)} ELSE {}))
  BY <1>2, <1>3, <1>4, <1>5, <1>6 DEF Spaced, Opens
<1>8. Coordinated(manager') /\ Latest(manager') = 1
  BY <1>2, <1>3 DEF Coordinated, Latest
<1> QED BY <1>1, <1>2, <1>3, <1>4, <1>7, <1>8, IssueKeepsGood

(* While the round runs no command under way is later than the last one.   *)
LEMMA RunningOrders ==
    ASSUME Good, manager.running
    PROVE  \A o \in Orders(toSender) \cup Orders(toReceiver) :
              o.op # "stop" /\ o.interval \in Nat /\ o.interval <= Latest(manager)
<1>1. Orders(toSender) \subseteq Commands /\ Orders(toReceiver) \subseteq Commands
  BY OrdersType DEF Good, Types
<1> QED BY <1>1, CommandTypes DEF Good, Commanding, Issued

(* PauseRound reaches both nodes.                                          *)
LEMMA PauseRoundKeepsGood ==
    ASSUME Good, PauseRound(Nodes) PROVE Good'
<1> DEFINE c == Command("pause", PauseAfter, PauseTime)
<1>1. /\ manager.running /\ ~manager.paused
      /\ toSender' = Append(toSender, c) /\ toReceiver' = Append(toReceiver, c)
      /\ manager' = [manager EXCEPT !.paused = TRUE, !.pauseAfter = PauseAfter,
                                    !.pauseTs = PauseTime]
      /\ UNCHANGED <<senderVars, skew, receiverVars, network>>
  BY DEF PauseRound, Broadcast, Nodes
<1>2. /\ now \in Nat /\ manager.first \in Nat /\ manager.start \in Nat
      /\ IntervalLength \in Nat \ {0}
  BY RoundAssumption DEF Good, Types, Managers
<1>3. PauseAfter \in Nat /\ PauseAfter > manager.first
  <2>1. Elapsed \in Nat
    BY <1>2 DEF Elapsed
  <2>2. Elapsed \div IntervalLength \in Nat
    BY <1>2, <2>1
  <2> QED BY <1>2, <2>2 DEF PauseAfter
<1>4. PauseTime \in Nat
  <2>1. PauseAfter - manager.first + 1 \in Nat
    BY <1>2, <1>3
  <2>2. (PauseAfter - manager.first + 1) * IntervalLength \in Nat
    BY <1>2, <2>1
  <2> QED BY <1>2, <2>2 DEF PauseTime
<1>5. /\ c \in Commands /\ c.op = "pause" /\ c.interval = PauseAfter /\ c.ts = PauseTime
  BY <1>3, <1>4 DEF Command, Commands
<1>6. /\ manager' \in Managers /\ manager'.running /\ manager'.paused
      /\ manager'.first = manager.first /\ manager'.start = manager.start
      /\ manager'.pauseAfter = PauseAfter
      /\ manager'.pauseTs = manager.start + (PauseAfter - manager.first + 1) * IntervalLength
  BY <1>1, <1>3, <1>4 DEF Good, Types, Managers, PauseTime
<1>7. /\ manager.start # 0 /\ manager.first > 0 /\ Latest(manager) = manager.first
      /\ Latest(manager') = PauseAfter
  BY <1>1, <1>6 DEF Good, Commanding, Coordinated, Latest
<1>8. Coordinated(manager')
  BY <1>3, <1>6, <1>7 DEF Coordinated
<1> HIDE DEF c
<1>9. ~Opens(c)
  BY <1>5 DEF Opens
<1>10. Spaced(manager', Plan(timeline, toSender) \cup (IF Opens(c) THEN {Opened(c)} ELSE {}))
  BY <1>6, <1>9, SpacedSubset DEF Good, Commanding
<1>11. \A o \in Orders(toSender) \cup Orders(toReceiver) :
          o.op # "stop" /\ o.interval < PauseAfter /\ o.interval <= PauseAfter
  BY <1>1, <1>2, <1>3, <1>7, RunningOrders
<1>12. manager.first <= manager'.first /\ c.interval <= Latest(manager')
  BY <1>2, <1>3, <1>5, <1>6, <1>7
<1> QED BY <1>1, <1>3, <1>5, <1>6, <1>7, <1>8, <1>9, <1>10, <1>11, <1>12, IssueKeepsGood

(* ResumeRound reaches both nodes.                                         *)
LEMMA ResumeRoundKeepsGood ==
    ASSUME Good, ResumeRound(Nodes) PROVE Good'
<1> DEFINE c == Command("resume", manager.pauseAfter + 1, ResumeTime)
<1>1. /\ manager.running /\ manager.paused
      /\ toSender' = Append(toSender, c) /\ toReceiver' = Append(toReceiver, c)
      /\ manager' = [manager EXCEPT !.paused = FALSE, !.start = ResumeTime,
                                    !.first = manager.pauseAfter + 1]
      /\ UNCHANGED <<senderVars, skew, receiverVars, network>>
  BY DEF ResumeRound, Broadcast, Nodes
<1>2. /\ now \in Nat /\ manager.first \in Nat /\ manager.start \in Nat
      /\ manager.pauseAfter \in Nat /\ manager.pauseTs \in Nat
      /\ manager.pauseAfter > manager.first /\ manager.first > 0 /\ manager.start # 0
  BY <1>1 DEF Good, Types, Managers, Commanding, Coordinated
<1>3. ResumeTime \in Nat /\ ResumeTime >= manager.pauseTs /\ ResumeTime # 0
  BY <1>2, TeslaAssumption DEF ResumeTime
<1>5. /\ c \in Commands /\ c.op = "resume" /\ c.interval = manager.pauseAfter + 1
      /\ c.ts = ResumeTime
  BY <1>2, <1>3 DEF Command, Commands
<1>6. /\ manager' \in Managers /\ manager'.running /\ ~manager'.paused
      /\ manager'.first = manager.pauseAfter + 1 /\ manager'.start = ResumeTime
  <2> DEFINE t == ResumeTime
             k == manager.pauseAfter + 1
  <2>1. manager \in Managers /\ t \in Nat /\ k \in Nat
    BY <1>2, <1>3 DEF Good, Types
  <2>2. manager' = [manager EXCEPT !.paused = FALSE, !.start = t, !.first = k]
    BY <1>1
  <2> HIDE DEF t, k, c
  <2>3. /\ manager' \in Managers /\ manager'.running = manager.running
        /\ manager'.paused = FALSE /\ manager'.first = k /\ manager'.start = t
    BY <2>1, <2>2 DEF Managers
  <2> QED BY <1>1, <2>3 DEF t, k
<1>7. /\ Latest(manager) = manager.pauseAfter
      /\ Latest(manager') = manager.pauseAfter + 1
  BY <1>1, <1>6 DEF Latest
<1>8. Coordinated(manager')
  BY <1>2, <1>3, <1>6 DEF Coordinated
<1>9. Opened(c) \in Segments /\ Opened(c).first = manager'.first
          /\ Opened(c).ts = manager'.start
  BY <1>5, <1>6, CommandTypes
<1> HIDE DEF c
<1>10. Opens(c)
  BY <1>5 DEF Opens
<1>11. Spaced(manager', Plan(timeline, toSender) \cup (IF Opens(c) THEN {Opened(c)} ELSE {}))
  <2>1. /\ Plan(timeline, toSender) \in SUBSET Segments
        /\ \A y \in Plan(timeline, toSender) : y.first <= manager.first
    BY PlanType DEF Good, Types, Commanding, Issued
  <2>2. Spaced(manager', Plan(timeline, toSender) \cup {Opened(c)})
    BY <1>1, <1>3, <1>6, <1>9, <2>1, SpacedResume DEF Good, Types, Commanding
  <2> QED BY <1>10, <2>2
<1>12. \A o \in Orders(toSender) \cup Orders(toReceiver) :
          /\ o.op # "stop" /\ o.interval < manager.pauseAfter + 1
          /\ o.interval <= manager.pauseAfter + 1
  BY <1>1, <1>2, <1>7, RunningOrders
<1>13. /\ manager.first <= manager'.first /\ c.interval <= Latest(manager')
       /\ c.interval <= manager'.first /\ c.interval > manager.first
  BY <1>2, <1>5, <1>6, <1>7
<1> QED BY <1>1, <1>3, <1>5, <1>6, <1>7, <1>8, <1>11, <1>12, <1>13, IssueKeepsGood

(* StopRound reaches both nodes.                                           *)
LEMMA StopRoundKeepsGood ==
    ASSUME Good, StopRound(Nodes) PROVE Good'
<1> DEFINE c == Command("stop", 0, 0)
<1>1. /\ manager.running
      /\ toSender' = Append(toSender, c) /\ toReceiver' = Append(toReceiver, c)
      /\ manager' = [manager EXCEPT !.running = FALSE, !.paused = FALSE]
      /\ UNCHANGED <<senderVars, skew, receiverVars, network>>
  BY DEF StopRound, Broadcast, Nodes
<1>2. manager.first \in Nat /\ manager.first > 0 /\ manager.start # 0
  BY <1>1 DEF Good, Types, Managers, Commanding, Coordinated
<1>3. c \in Commands /\ c.op = "stop"
  BY DEF Command, Commands
<1>4. /\ manager' \in Managers /\ ~manager'.running /\ ~manager'.paused
      /\ manager'.first = manager.first /\ manager'.start = manager.start
  BY <1>1 DEF Good, Types, Managers
<1>5. Coordinated(manager') /\ manager.first <= manager'.first
  BY <1>2, <1>4 DEF Coordinated
<1> HIDE DEF c
<1>6. ~Opens(c)
  BY <1>3 DEF Opens
<1>7. Spaced(manager', Plan(timeline, toSender) \cup (IF Opens(c) THEN {Opened(c)} ELSE {}))
  BY <1>4, <1>6, SpacedSubset DEF Good, Commanding
<1>8. \A o \in Orders(toSender) \cup Orders(toReceiver) : o.op # "stop"
  BY <1>1, RunningOrders
<1> QED BY <1>1, <1>2, <1>3, <1>4, <1>5, <1>6, <1>7, <1>8, IssueKeepsGood

-----------------------------------------------------------------------------
(* The command a node takes up, in relation to its timeline and to those   *)
(* behind it.                                                              *)
LEMMA HeadFacts ==
    ASSUME NEW line \in Seq(Segments), NEW q \in Seq(Commands), q # <<>>,
           Sequenced(line, q)
    PROVE  /\ Head(q) \in Commands /\ Tail(q) \in Seq(Commands)
           /\ Orders(q) = {Head(q)} \cup Orders(Tail(q))
           /\ Orders(q) \subseteq Commands
           /\ Head(q).interval \in Nat
           /\ Head(q).op = "start" => Head(q).interval = 1 /\ line = <<>>
           /\ Head(q).op \in {"pause", "resume"} => Head(q).interval > 1
           /\ \A c \in Orders(Tail(q)) :
                /\ c.interval \in Nat
                /\ c.op # "stop" => Head(q).interval < c.interval
                /\ c.op = "start" => c.interval = 1
                /\ c.op \in {"pause", "resume"} => c.interval > 1
<1>1. /\ Head(q) \in Commands /\ Tail(q) \in Seq(Commands)
      /\ Orders(q) = {Head(q)} \cup Orders(Tail(q))
      /\ Orders(q) \subseteq Commands
  BY OrdersTail, OrdersType
<1>2. \A c \in Orders(Tail(q)) : c.op # "stop" => Head(q).interval < c.interval
  BY OrderedTail DEF Sequenced
<1>3. \A c \in Orders(q) : c.interval \in Nat
  BY <1>1, CommandTypes
<1>4. Head(q).op = "start" => line = <<>>
  <2> SUFFICES ASSUME Head(q).op = "start", line # <<>> PROVE FALSE
    OBVIOUS
  <2>1. line[1] \in Parts(line) /\ line[1].first = 1
    BY PartsType DEF Sequenced, Sorted
  <2>2. Head(q).interval = 1 /\ line[1].first < Head(q).interval
    BY <1>1, <2>1 DEF Sequenced
  <2> QED BY <2>1, <2>2
<1> QED BY <1>1, <1>2, <1>3, <1>4 DEF Sequenced

(* The sender takes a command without a new segment.                       *)
LEMMA SenderDropsCommand ==
    ASSUME Good, toSender # <<>>, toSender' = Tail(toSender), timeline' = timeline,
           UNCHANGED <<manager, toReceiver, receiver>>
    PROVE  Commanding'
<1>1. Issued(manager, timeline, toSender') /\ Sequenced(timeline, toSender')
  BY IssuedTail, SequencedTail DEF Good, Types, Commanding
<1>2. Spaced(manager, Plan(timeline, toSender'))
  BY PlanTail, SpacedSubset DEF Good, Types, Commanding
<1> QED BY <1>1, <1>2 DEF Good, Commanding

(* The sender takes a command by a new segment.                            *)
LEMMA SenderFollowsCommand ==
    ASSUME Good, toSender # <<>>, toSender' = Tail(toSender), Opens(Head(toSender)),
           timeline = <<>> => Head(toSender).op = "start",
           timeline' = Append(timeline, Opened(Head(toSender))),
           UNCHANGED <<manager, toReceiver, receiver>>
    PROVE  /\ Commanding'
           /\ timeline' \in Seq(Segments) /\ timeline' # <<>>
           /\ Parts(timeline') = Parts(timeline) \cup {Opened(Head(toSender))}
           /\ Plan(timeline', toSender') = Plan(timeline, toSender)
<1>1. /\ Issued(manager, timeline', toSender') /\ Sequenced(timeline', toSender')
      /\ Plan(timeline', toSender') = Plan(timeline, toSender)
  BY IssuedTaken, SequencedTaken, PlanTaken DEF Good, Types, Commanding
<1>2. Commanding'
  BY <1>1 DEF Good, Commanding
<1>3. Opened(Head(toSender)) \in Segments
  BY OrdersTail, CommandTypes DEF Good, Types
<1> QED BY <1>1, <1>2, <1>3, PartsAppend DEF Good, Types

(* When the sender changes and the receiver does not, plans stay in        *)
(* agreement if what leaves the plan of the sender was refused.            *)
LEMMA AgreementKept ==
    ASSUME NEW line, NEW q, NEW h, NEW r, NEW rline, NEW rq, NEW active,
           NEW line2, NEW q2, NEW h2, NEW r2,
           Agreement(line, q, h, r, rline, rq, active),
           Plan(line2, q2) \subseteq Plan(line, q),
           \A x \in Plan(line, q) : x \in Plan(line2, q2) \/ Refused(x, line2, q2, h2, r2),
           \A x : Refused(x, line, q, h, r) => Refused(x, line2, q2, h2, r2)
    PROVE  Agreement(line2, q2, h2, r2, rline, rq, active)
BY DEF Agreement

(* A sender that takes a command other than a pause stays informed.        *)
LEMMA PausingKept ==
    ASSUME NEW m, NEW line, NEW q, NEW h, NEW rq, NEW after, NEW q2,
           Pausing(m, line, q, h, rq, after), Orders(q2) \subseteq Orders(q),
           \A c \in Orders(q) : c.op = "pause" => c \in Orders(q2)
    PROVE  Pausing(m, line, q2, h, rq, after)
<1>1. \A k : Held(k, h, q) => Held(k, h, q2)
  BY DEF Held
<1> QED BY <1>1 DEF Pausing, Known

(* The sender starts, or the start comes too late for its preparation.     *)
LEMMA SenderStartsKeepsGood ==
    ASSUME Good, SenderStarts, ~split' PROVE Good'
<1> USE DEF senderVars, receiverVars
<1> DEFINE c == Head(toSender)
           q == Tail(toSender)
<1>1. /\ toSender # <<>> /\ c.op = "start" /\ toSender' = q
      /\ UNCHANGED <<manager, toReceiver, skew, receiver, inbox, late, unsafe, network>>
      /\ IF c.ts > now + StartLead THEN Sender!Begin(c.ts) ELSE UNCHANGED senderVars
  BY DEF SenderStarts, SenderCommand
<1>2. /\ c \in Commands /\ q \in Seq(Commands) /\ c.interval = 1 /\ timeline = <<>>
      /\ Orders(toSender) = {c} \cup Orders(q)
      /\ \A o \in Orders(q) : o.interval \in Nat /\ (o.op # "stop" => 1 < o.interval)
  BY <1>1, HeadFacts DEF Good, Types, Commanding
<1>3. /\ ~sending /\ hold = 0 /\ reached = 0 /\ disclosed = {} /\ network = {}
      /\ inbox = <<>>
  BY <1>2 DEF Good, Delivering, Disclosing
<1> HIDE DEF c, q
<1>4. Opens(c) /\ c.op # "pause" /\ c.op # "resume"
  BY <1>1 DEF Opens
<1>5. Pausing(manager, timeline, q, hold, toReceiver, receiver.pauseAfter)
  BY <1>2, <1>4, PausingKept DEF Good, Agreeing
<1>6. Safe /\ now' = now /\ reached' = 0 => Safe'
  BY <1>1, <1>2, <1>3, <1>4 DEF Safe, Doomed
<1>7. CASE timeline' = timeline
  <2>1. UNCHANGED senderVars
    <3>1. Sender!Begin(c.ts) => timeline' = <<Segment(1, c.ts)>>
      BY DEF Sender!Begin, Sender!Segment, Segment
    <3>2. <<Segment(1, c.ts)>> # <<>>
      OBVIOUS
    <3> QED BY <1>1, <1>2, <1>7, <3>1, <3>2
  <2>2. Types'
    BY <1>1, <1>2, <2>1 DEF Good, Types
  <2>3. Commanding'
    BY <1>1, <1>7, SenderDropsCommand DEF q
  <2>4. Agreement(timeline, q, hold, reached, receiver.timeline, toReceiver,
            receiver.active)
    <3>1. /\ Plan(timeline, q) \subseteq Plan(timeline, toSender)
          /\ Plan(timeline, toSender) = Plan(timeline, q) \cup {Opened(c)}
      BY <1>1, <1>4, PlanTail DEF Good, Types, c, q
    <3>2. Refused(Opened(c), timeline, q, hold, reached)
      BY <1>2, <1>3, CommandTypes DEF Refused
    <3>3. \A x : Refused(x, timeline, toSender, hold, reached)
              => Refused(x, timeline, q, hold, reached)
      BY <1>2 DEF Refused
    <3> QED BY <3>1, <3>2, <3>3, AgreementKept DEF Good, Agreeing
  <2>5. Agreeing'
    BY <1>1, <1>5, <2>1, <2>4 DEF Agreeing
  <2>6. Delivering'
    BY <1>1, <2>1 DEF Good, Delivering
  <2>7. Safe'
    BY <1>3, <1>6, <2>1 DEF Good
  <2> QED BY <2>2, <2>3, <2>5, <2>6, <2>7 DEF Good
<1>8. CASE timeline' # timeline
  <2>1. /\ timeline' = <<Segment(1, c.ts)>> /\ sending' = TRUE /\ hold' = 0
        /\ reached' = 0
        /\ disclosed' = {} /\ now' = now
    BY <1>1, <1>8 DEF Sender!Begin, Sender!Segment, Segment
  <2>2. timeline' = Append(timeline, Opened(c))
    BY <1>2, <2>1 DEF Opened
  <2>3. /\ Commanding'
        /\ timeline' \in Seq(Segments) /\ timeline' # <<>>
        /\ Plan(timeline', toSender') = Plan(timeline, toSender)
    BY <1>1, <1>4, <2>2, SenderFollowsCommand DEF c, q
  <2>4. Types'
    BY <1>1, <1>2, <2>1, <2>3 DEF Good, Types
  <2>5. Agreement(timeline', toSender', hold', reached', receiver.timeline, toReceiver,
            receiver.active)
    <3>1. \A x : ~Refused(x, timeline, toSender, hold, reached)
      <4> SUFFICES ASSUME NEW x, Refused(x, timeline, toSender, hold, reached)
                   PROVE  FALSE
        OBVIOUS
      <4>1. x.first = 1 /\ x.first < 1
        BY <1>1, <1>2, <1>3 DEF Refused
      <4> QED BY <4>1
    <3> QED BY <2>3, <3>1, AgreementKept DEF Good, Agreeing
  <2>6. Pausing(manager, timeline', toSender', hold', toReceiver, receiver.pauseAfter)
    <3>1. Parts(timeline) = {}
      BY <1>2, NoOrders
    <3> QED BY <1>1, <1>3, <1>5, <2>1, <3>1 DEF Pausing, Known
  <2>7. Agreeing'
    BY <1>1, <2>5, <2>6 DEF Agreeing
  <2>8. Delivering'
    BY <1>1, <1>3, <2>1, <2>3 DEF Good, Delivering, Disclosing, Stamped, Learned
  <2>9. Safe'
    BY <1>6, <2>1 DEF Good
  <2> QED BY <2>3, <2>4, <2>7, <2>8, <2>9 DEF Good
<1> QED BY <1>7, <1>8

(* A sender that does not hold at a pause has refused nothing.             *)
LEMMA NobodyRefusedWhileSending ==
    ASSUME Good, sending, hold = 0
    PROVE  /\ timeline # <<>>
           /\ \A x : ~Refused(x, timeline, toSender, hold, reached)
<1>1. timeline # <<>>
  BY DEF Good, Delivering, Disclosing
<1> QED BY <1>1 DEF Refused

(* The sender takes a pause in time (requestPause before the boundary).    *)
LEMMA SenderPausesKeepsGood ==
    ASSUME Good, SenderPauses PROVE Good'
<1> USE DEF senderVars, receiverVars
<1> DEFINE c == Head(toSender)
           q == Tail(toSender)
           k == c.interval
<1>1. /\ toSender # <<>> /\ c.op = "pause" /\ toSender' = q
      /\ UNCHANGED <<manager, toReceiver, skew, receiver, inbox, late, unsafe, network>>
      /\ sending /\ hold = 0 /\ k # 0 /\ k >= reached /\ hold' = k
      /\ UNCHANGED <<now, sending, timeline, reached, disclosed>>
  BY DEF SenderPauses, SenderCommand, Sender!Pause
<1>2. /\ c \in Commands /\ q \in Seq(Commands) /\ k \in Nat
      /\ Orders(toSender) = {c} \cup Orders(q)
      /\ \A o \in Orders(toSender) : o.op \in {"pause", "resume"}
             => o.interval > 1 /\ o.interval \in Nat
  BY <1>1, HeadFacts, CommandTypes DEF Good, Types, Commanding, Sequenced
<1>3. /\ timeline # <<>>
      /\ \A x : ~Refused(x, timeline, toSender, hold, reached)
  BY <1>1, NobodyRefusedWhileSending
<1>4. Commanding'
  BY <1>1, SenderDropsCommand DEF q
<1> HIDE DEF c, q
<1>5. ~Opens(c)
  BY <1>1 DEF Opens
<1>6. Plan(timeline, q) = Plan(timeline, toSender)
  BY <1>1, <1>5, PlanTail DEF Good, Types, c, q
<1>7. Agreement(timeline, q, k, reached, receiver.timeline, toReceiver, receiver.active)
  BY <1>3, <1>6, AgreementKept DEF Good, Agreeing
<1>8. \A j : Held(j, hold, toSender) /\ j # 0 => Held(j, k, q)
  BY <1>1, <1>2 DEF Held
<1>9. Pausing(manager, timeline, q, k, toReceiver, receiver.pauseAfter)
  <2>1. \A o \in Orders(q) : o.op = "resume" => Held(o.interval - 1, k, q)
    <3> SUFFICES ASSUME NEW o \in Orders(q), o.op = "resume"
                 PROVE  Held(o.interval - 1, k, q)
      OBVIOUS
    <3>1. Held(o.interval - 1, hold, toSender) /\ o.interval - 1 # 0
      BY <1>2 DEF Good, Agreeing, Pausing
    <3> QED BY <1>8, <3>1
  <2>2. manager.paused => Held(manager.pauseAfter, k, q)
    <3>1. manager.paused => manager.pauseAfter # 0
      BY DEF Good, Types, Managers, Commanding, Coordinated
    <3> QED BY <1>8, <3>1 DEF Good, Agreeing, Pausing
  <2>3. \A o \in Orders(toReceiver) : o.op = "pause" => Known(o.interval, k, q, timeline)
    <3> SUFFICES ASSUME NEW o \in Orders(toReceiver), o.op = "pause"
                 PROVE  Known(o.interval, k, q, timeline)
      OBVIOUS
    <3>1. o \in Commands /\ o.interval > 1
      BY OrdersType DEF Good, Types, Commanding, Sequenced
    <3>2. o.interval # 0
      BY <3>1, CommandTypes
    <3>3. Known(o.interval, hold, toSender, timeline)
      BY DEF Good, Agreeing, Pausing
    <3> QED BY <1>8, <3>2, <3>3 DEF Known
  <2>4. receiver.pauseAfter # 0 => Known(receiver.pauseAfter, k, q, timeline)
    BY <1>8 DEF Good, Agreeing, Pausing, Known
  <2> QED BY <2>1, <2>2, <2>3, <2>4 DEF Pausing
<1>10. Types'
  BY <1>1, <1>2 DEF Good, Types
<1>11. Agreeing'
  BY <1>1, <1>7, <1>9 DEF Agreeing
<1>12. Delivering'
  <2>1. Disclosing(timeline, sending, k, reached, disclosed, network, inbox, now)
    BY <1>1, <1>2, <1>3 DEF Good, Types, Delivering, Disclosing
  <2> HIDE DEF k
  <2> QED BY <1>1, <2>1 DEF Good, Delivering
<1>13. Safe'
  <2>1. ~(k < reached)
    BY <1>1, <1>2 DEF Good, Types
  <2>2. Doomed(toSender, reached, toReceiver, now) => Doomed(q, reached, toReceiver, now)
    BY <1>1, <1>2, <2>1 DEF Doomed
  <2> QED BY <1>1, <2>2 DEF Good, Safe
<1> QED BY <1>4, <1>10, <1>11, <1>12, <1>13 DEF Good

(* The sender resumes, or refuses the resume and thereby every later       *)
(* segment.                                                                *)
LEMMA SenderResumesKeepsGood ==
    ASSUME Good, SenderResumes PROVE Good'
<1> USE DEF senderVars, receiverVars
<1> DEFINE c == Head(toSender)
           q == Tail(toSender)
<1>1. /\ toSender # <<>> /\ c.op = "resume" /\ toSender' = q
      /\ UNCHANGED <<manager, toReceiver, skew, receiver, inbox, late, unsafe, network>>
      /\ \/ Sender!Resume(c.ts)
         \/ UNCHANGED senderVars
  BY DEF SenderResumes, SenderCommand
<1>2. /\ c \in Commands /\ q \in Seq(Commands) /\ c.interval \in Nat /\ c.interval > 1
      /\ Orders(toSender) = {c} \cup Orders(q) /\ Orders(toSender) \subseteq Commands
      /\ \A o \in Orders(q) : /\ o.interval \in Nat
                              /\ o.op # "stop" => c.interval < o.interval
  BY <1>1, HeadFacts DEF Good, Types, Commanding
<1> HIDE DEF c, q
<1>3. Opens(c) /\ c.op # "pause"
  BY <1>1 DEF Opens
<1>4. /\ hold \in Nat /\ reached \in Nat
      /\ hold = c.interval - 1 /\ hold # 0 /\ reached <= hold
  <2>1. Held(c.interval - 1, hold, toSender)
    BY <1>1, <1>2 DEF Good, Agreeing, Pausing
  <2>2. \A o \in Orders(toSender) : o.op = "pause" => o.interval # c.interval - 1
    BY <1>2, <1>3
  <2>3. hold = c.interval - 1
    BY <2>1, <2>2 DEF Held
  <2> QED BY <1>2, <2>3 DEF Good, Types, Delivering, Disclosing
<1>5. timeline # <<>>
  BY <1>4 DEF Good, Delivering, Disclosing
<1>6. \A j : Held(j, hold, toSender) => Held(j, hold, q)
  BY <1>2, <1>3 DEF Held
<1>7. Doomed(toSender, reached, toReceiver, now) => Doomed(q, reached, toReceiver, now)
  BY <1>2, <1>3 DEF Doomed
<1>8. CASE UNCHANGED senderVars
  <2>1. Types'
    BY <1>1, <1>2, <1>8 DEF Good, Types
  <2>2. Commanding'
    BY <1>1, <1>8, SenderDropsCommand DEF q
  <2>3. Agreement(timeline, q, hold, reached, receiver.timeline, toReceiver,
            receiver.active)
    <3>1. /\ Plan(timeline, q) \subseteq Plan(timeline, toSender)
          /\ Plan(timeline, toSender) = Plan(timeline, q) \cup {Opened(c)}
      BY <1>1, <1>3, PlanTail DEF Good, Types, c, q
    <3>2. Refused(Opened(c), timeline, q, hold, reached)
      BY <1>2, <1>4, CommandTypes DEF Refused
    <3>3. \A x : Refused(x, timeline, toSender, hold, reached)
              => Refused(x, timeline, q, hold, reached)
      BY <1>2 DEF Refused
    <3> QED BY <3>1, <3>2, <3>3, AgreementKept DEF Good, Agreeing
  <2>4. Pausing(manager, timeline, q, hold, toReceiver, receiver.pauseAfter)
    BY <1>2, <1>3, PausingKept DEF Good, Agreeing
  <2>5. Agreeing'
    BY <1>1, <1>8, <2>3, <2>4 DEF Agreeing
  <2>6. Delivering'
    BY <1>1, <1>8 DEF Good, Delivering
  <2>7. Safe'
    BY <1>1, <1>7, <1>8 DEF Good, Safe
  <2> QED BY <2>1, <2>2, <2>5, <2>6, <2>7 DEF Good
<1>9. CASE Sender!Resume(c.ts)
  <2>1. /\ timeline' = Append(timeline, Opened(c)) /\ hold' = 0
        /\ UNCHANGED <<now, sending, reached, disclosed>>
    <3>1. hold + 1 = c.interval
      BY <1>2, <1>4
    <3> QED BY <1>9, <3>1 DEF Sender!Resume, Sender!Segment, Segment, Opened
  <2>2. /\ Commanding'
        /\ timeline' \in Seq(Segments) /\ timeline' # <<>>
        /\ Parts(timeline') = Parts(timeline) \cup {Opened(c)}
        /\ Plan(timeline', toSender') = Plan(timeline, toSender)
    BY <1>1, <1>3, <1>5, <2>1, SenderFollowsCommand DEF c, q
  <2>3. Opened(c).first = c.interval
    BY <1>2, CommandTypes
  <2>4. Types'
    BY <1>1, <1>2, <2>1, <2>2 DEF Good, Types
  <2>5. Agreement(timeline', q, 0, reached, receiver.timeline, toReceiver, receiver.active)
    <3>1. \A x : ~Refused(x, timeline, toSender, hold, reached)
      <4> SUFFICES ASSUME NEW x, Refused(x, timeline, toSender, hold, reached)
                   PROVE  FALSE
        OBVIOUS
      <4>1. x.first = c.interval /\ x.first < c.interval
        BY <1>1, <1>2, <1>4 DEF Refused
      <4> QED BY <1>2, <4>1
    <3> QED BY <1>1, <2>2, <3>1, AgreementKept DEF Good, Agreeing
  <2>6. \A j : Held(j, hold, toSender) /\ j # hold => Held(j, 0, q)
    BY <1>6 DEF Held
  <2>7. \A j : Known(j, hold, toSender, timeline) => Known(j, 0, q, timeline')
    <3> SUFFICES ASSUME NEW j, Known(j, hold, toSender, timeline)
                 PROVE  Known(j, 0, q, timeline')
      OBVIOUS
    <3>1. CASE j = hold
      <4>1. Opened(c) \in Parts(timeline') /\ Opened(c).first = j + 1
        BY <1>2, <1>4, <2>2, <2>3, <3>1
      <4> QED BY <4>1 DEF Known
    <3>2. CASE j # hold
      BY <2>2, <2>6, <3>2 DEF Known
    <3> QED BY <3>1, <3>2
  <2>8. Pausing(manager, timeline', q, 0, toReceiver, receiver.pauseAfter)
    <3>1. \A o \in Orders(q) : o.op = "resume" => Held(o.interval - 1, 0, q)
      <4> SUFFICES ASSUME NEW o \in Orders(q), o.op = "resume"
                   PROVE  Held(o.interval - 1, 0, q)
        OBVIOUS
      <4>1. Held(o.interval - 1, hold, toSender) /\ o.interval - 1 # hold
        BY <1>2, <1>4 DEF Good, Agreeing, Pausing
      <4> QED BY <2>6, <4>1
    <3>2. manager.paused => Held(manager.pauseAfter, 0, q)
      <4>1. c.interval <= manager.first
        <5>1. Opened(c) \in Plan(timeline, toSender)
          <6>1. Opened(c) \in Coming(toSender)
            BY <1>2, <1>3, OrdersType DEF Good, Types
          <6> QED BY <6>1 DEF Plan
        <5> QED BY <2>3, <5>1 DEF Good, Commanding, Issued
      <4>2. manager.first \in Nat /\ manager.pauseAfter \in Nat
        BY DEF Good, Types, Managers
      <4>3. manager.paused => manager.pauseAfter > manager.first
        BY DEF Good, Commanding, Coordinated
      <4>4. manager.paused => manager.pauseAfter # hold
        BY <1>2, <1>4, <4>1, <4>2, <4>3
      <4> QED BY <2>6, <4>4 DEF Good, Agreeing, Pausing
    <3> QED BY <2>7, <3>1, <3>2 DEF Good, Agreeing, Pausing
  <2>9. Agreeing'
    BY <1>1, <2>1, <2>5, <2>8 DEF Agreeing
  <2>10. \A k \in disclosed : \A t :
            Begun(timeline, k + DisclosureDelay, t)
                => Begun(timeline', k + DisclosureDelay, t)
    <3> SUFFICES ASSUME NEW k \in disclosed, NEW t,
                        Begun(timeline, k + DisclosureDelay, t)
                 PROVE  Begun(timeline', k + DisclosureDelay, t)
      OBVIOUS
    <3>1. k \in Nat /\ k + DisclosureDelay <= reached
      BY DEF Good, Types, Delivering, Disclosing
    <3>2. ~(Opened(c).first <= k + DisclosureDelay)
      BY <1>2, <1>4, <2>3, <3>1, RoundAssumption
    <3> QED BY <2>2, <3>2 DEF Begun
  <2>11. Disclosing(timeline', sending, 0, reached, disclosed, network, inbox, now)
    BY <2>2, <2>10 DEF Good, Delivering, Disclosing
  <2>12. Stamped(inbox, late, timeline', disclosed, receiver.keys, network, now, skew)
    BY <2>10 DEF Good, Delivering, Stamped
  <2>13. Delivering'
    BY <1>1, <2>1, <2>11, <2>12 DEF Good, Delivering
  <2>14. Safe'
    BY <1>1, <1>7, <2>1 DEF Good, Safe
  <2> QED BY <2>2, <2>4, <2>9, <2>13, <2>14 DEF Good
<1> QED BY <1>1, <1>8, <1>9

(* The sender stops.                                                       *)
LEMMA SenderStopsKeepsGood ==
    ASSUME Good, SenderStops PROVE Good'
<1> USE DEF senderVars, receiverVars
<1> DEFINE c == Head(toSender)
           q == Tail(toSender)
<1>1. /\ toSender # <<>> /\ c.op = "stop" /\ toSender' = q
      /\ UNCHANGED <<manager, toReceiver, skew, receiver, inbox, late, unsafe, network>>
      /\ UNCHANGED <<now, timeline, hold, reached, disclosed>>
      /\ sending' = sending \/ sending' = FALSE
  BY DEF SenderStops, SenderCommand, Sender!Finish
<1>2. /\ q \in Seq(Commands) /\ Orders(toSender) = {c} \cup Orders(q)
  BY <1>1, HeadFacts DEF Good, Types, Commanding
<1>3. Commanding'
  BY <1>1, SenderDropsCommand DEF q
<1> HIDE DEF c, q
<1>4. ~Opens(c) /\ c.op # "pause"
  BY <1>1 DEF Opens
<1>5. Plan(timeline, q) = Plan(timeline, toSender)
  BY <1>1, <1>4, PlanTail DEF Good, Types, c, q
<1>6. Agreement(timeline, q, hold, reached, receiver.timeline, toReceiver, receiver.active)
  <2>1. \A x : Refused(x, timeline, toSender, hold, reached)
            => Refused(x, timeline, q, hold, reached)
    BY <1>2 DEF Refused
  <2> QED BY <1>5, <2>1, AgreementKept DEF Good, Agreeing
<1>7. Pausing(manager, timeline, q, hold, toReceiver, receiver.pauseAfter)
  BY <1>2, <1>4, PausingKept DEF Good, Agreeing
<1>8. Agreeing'
  BY <1>1, <1>6, <1>7 DEF Agreeing
<1>9. Types'
  BY <1>1, <1>2 DEF Good, Types
<1>10. Disclosing(timeline, sending', hold, reached, disclosed, network, inbox, now)
  BY <1>1 DEF Good, Delivering, Disclosing
<1>11. Delivering'
  BY <1>1, <1>10 DEF Good, Delivering
<1>12. Safe'
  <2>1. Doomed(toSender, reached, toReceiver, now) => Doomed(q, reached, toReceiver, now)
    BY <1>2, <1>4 DEF Doomed
  <2> QED BY <1>1, <2>1 DEF Good, Safe
<1> QED BY <1>3, <1>8, <1>9, <1>11, <1>12 DEF Good

-----------------------------------------------------------------------------
(* The interval of the o-th packet of an interval.                         *)
LEMMA IntervalOfOffset ==
    ASSUME NEW a \in Nat, NEW o \in Nat, o < PacketsPerInterval
    PROVE  (a * PacketsPerInterval + o) \div PacketsPerInterval = a
<1> DEFINE t == a * PacketsPerInterval + o
           b == t \div PacketsPerInterval
<1>1. a * PacketsPerInterval \in Nat /\ PacketsPerInterval \in Nat \ {0}
  BY RoundAssumption
<1>2. t \in Nat
  BY <1>1
<1>3. b \in Nat /\ b * PacketsPerInterval <= t /\ t < b * PacketsPerInterval + PacketsPerInterval
  BY <1>2, PacketDivision
<1> HIDE DEF b
<1>4. /\ (a + 1) * PacketsPerInterval = a * PacketsPerInterval + PacketsPerInterval
      /\ (b + 1) * PacketsPerInterval = b * PacketsPerInterval + PacketsPerInterval
      /\ b * PacketsPerInterval \in Nat
  BY <1>1, <1>3
<1>5. ~(a < b)
  <2> SUFFICES ASSUME a < b PROVE FALSE
    OBVIOUS
  <2>1. (a + 1) * PacketsPerInterval <= b * PacketsPerInterval
    BY <1>3, PacketProductMonotone
  <2> QED BY <1>1, <1>2, <1>3, <1>4, <2>1
<1>6. ~(b < a)
  <2> SUFFICES ASSUME b < a PROVE FALSE
    OBVIOUS
  <2>1. (b + 1) * PacketsPerInterval <= a * PacketsPerInterval
    BY <1>3, PacketProductMonotone
  <2> QED BY <1>1, <1>2, <1>3, <1>4, <2>1
<1>7. b = a
  BY <1>3, <1>5, <1>6
<1> QED BY <1>7 DEF b

(* What the fields of a planned datagram have to do with each other.       *)
LEMMA DatagramPlan ==
    ASSUME NEW total \in Nat \ {0}, NEW dg \in Datagrams(total)
    PROVE  /\ dg.interval \in Nat \ {0} /\ dg.packet \in 0 .. total /\ dg.key \in Nat
           /\ dg.key # 0 => dg.interval = dg.key + DisclosureDelay
           /\ dg.packet # 0 => IntervalOfPacket(dg.packet) = dg.interval
           /\ dg.packet = 0 /\ dg.interval > DisclosureDelay =>
                dg.key # 0
<1>0. PICK i \in 1 .. LastLogicalInterval(total) :
        \E n \in 1 .. DatagramCount(total, i) : dg = Datagram(total, i, n)
  BY DEF Datagrams
<1>1. PICK n \in 1 .. DatagramCount(total, i) : dg = Datagram(total, i, n)
  BY <1>0
<1>2. /\ dg \in [ interval : 1 .. LastLogicalInterval(total),
                  packet : 0 .. total,
                  key : {0} \cup 1 .. DataIntervalCount(total) ]
      /\ dg.interval = i
      /\ dg.key # 0 => dg.key + DisclosureDelay = i
  BY <1>1, DatagramFields
<1>3. /\ DataIntervalCount(total) \in Nat /\ LastLogicalInterval(total) \in Nat
      /\ DatagramCount(total, i) \in Nat
  BY IntervalCounts, DatagramCounts
<1>4. CASE i <= DataIntervalCount(total)
  <2>1. i \in 1 .. DataIntervalCount(total) /\ i \in Nat \ {0} /\ i - 1 \in Nat
    BY <1>3, <1>4
  <2>2. /\ FirstPacketIndex(i) \in Nat \ {0}
        /\ LastPacketIndex(total, i) \in Nat
        /\ FirstPacketIndex(i) = (i - 1) * PacketsPerInterval + 1
        /\ LastPacketIndex(total, i) <= i * PacketsPerInterval
    BY <2>1, PacketRange, PacketProductNext, RoundAssumption
       DEF FirstPacketIndex, LastPacketIndex
  <2>3. n \in Nat \ {0} /\ n <= LastPacketIndex(total, i) - FirstPacketIndex(i) + 1
    BY <1>3, <1>4 DEF DatagramCount, DataPacketCount
  <2>4. /\ (i - 1) * PacketsPerInterval \in Nat
        /\ i * PacketsPerInterval = (i - 1) * PacketsPerInterval + PacketsPerInterval
    BY <2>1, PacketProductNext
  <2>5. n - 1 \in Nat /\ n - 1 < PacketsPerInterval
    BY <2>2, <2>3, <2>4, RoundAssumption
  <2>6. dg.packet = (i - 1) * PacketsPerInterval + (n - 1) + 1
    <3>1. dg.packet = FirstPacketIndex(i) + n - 1
      BY <1>1, <1>4 DEF Datagram
    <3> QED BY <2>2, <2>3, <2>4, <3>1
  <2>7. dg.packet # 0 /\ dg.packet - 1 = (i - 1) * PacketsPerInterval + (n - 1)
    BY <2>4, <2>5, <2>6
  <2>8. IntervalOfPacket(dg.packet) = i
    <3>1. (dg.packet - 1) \div PacketsPerInterval = i - 1
      BY <2>1, <2>5, <2>7, IntervalOfOffset
    <3> QED BY <2>1, <3>1 DEF IntervalOfPacket
  <2> QED BY <1>2, <1>3, <2>7, <2>8
<1>5. CASE ~(i <= DataIntervalCount(total))
  <2>1. dg.packet = 0 /\ n = 1
    BY <1>1, <1>5 DEF Datagram, DatagramCount
  <2>2. dg.key = DisclosedKey(i, 1)
    BY <1>1, <2>1 DEF Datagram
  <2>3. i > DisclosureDelay => dg.key # 0
    BY <1>3, <2>2, RoundAssumption DEF DisclosedKey
  <2> QED BY <1>2, <1>3, <2>1, <2>3
<1> QED BY <1>4, <1>5

(* SenderSchedule and the receiver read a timeline alike.                  *)
LEMMA SenderTimeline ==
    ASSUME NEW line, NEW i
    PROVE  Sender!IntervalStartTimestamp(line, i) = IntervalStartTimestamp(line, i)
BY DEF Sender!IntervalStartTimestamp, IntervalStartTimestamp, Sender!SegmentOf,
   SegmentOf

(* An interval that has begun on the timeline of the sender has begun by   *)
(* each of its segments: the later ones begin later.                       *)
LEMMA TimelineBegun ==
    ASSUME Good, timeline # <<>>, NEW i \in Nat \ {0}, NEW t \in Int,
           IntervalStartTimestamp(timeline, i) <= t
    PROVE  Begun(timeline, i, t)
<1> DEFINE seg == SegmentOf(timeline, i)
<1>1. /\ seg \in Parts(timeline) /\ seg.first <= i
      /\ \A x \in Parts(timeline) : x.first <= i => x.first <= seg.first
  BY SegmentCovers DEF Good, Types, Commanding, Sequenced
<1>2. IntervalStartTimestamp(timeline, i) = StartIn(seg, i)
  BY DEF IntervalStartTimestamp, StartIn
<1> HIDE DEF seg
<1>3. Parts(timeline) \subseteq Segments
  BY PartsType DEF Good, Types
<1> SUFFICES ASSUME NEW x \in Parts(timeline), x.first <= i
             PROVE  StartIn(x, i) <= t
  BY DEF Begun
<1>4. /\ x \in Segments /\ seg \in Segments
      /\ x.first \in Nat /\ seg.first \in Nat /\ seg.ts \in Nat
  BY <1>1, <1>3 DEF Segments
<1>5. x.first <= seg.first
  BY <1>1
<1>6. StartIn(x, seg.first) <= seg.ts
  BY <1>1, <1>5 DEF Good, Commanding, Spaced, Plan
<1>7. /\ StartIn(x, i) = StartIn(x, seg.first) + (i - seg.first) * IntervalLength
      /\ StartIn(seg, i) = StartIn(seg, seg.first) + (i - seg.first) * IntervalLength
      /\ StartIn(seg, seg.first) = seg.ts
      /\ StartIn(x, i) \in Int /\ StartIn(x, seg.first) \in Int
  BY <1>1, <1>4, StartInGrows
<1>8. (i - seg.first) * IntervalLength \in Int
  BY <1>4, RoundAssumption
<1> QED BY <1>2, <1>4, <1>6, <1>7, <1>8

(* The sender sends, and with the datagram may disclose a key.             *)
LEMMA SenderSendsKeepsGood ==
    ASSUME Good, SenderSends PROVE Good'
<1> USE DEF senderVars, receiverVars
<1>1. PICK dg \in Datagrams(TotalPacketCount) :
        /\ Sender!Send(dg) /\ network' = network \cup {dg}
        /\ UNCHANGED <<manager, toSender, toReceiver, skew, receiverVars>>
  BY DEF SenderSends
<1>2. /\ sending /\ dg.interval = reached
      /\ now >= IntervalStartTimestamp(timeline, reached)
      /\ disclosed' = IF dg.key # 0 THEN disclosed \cup {dg.key} ELSE disclosed
      /\ UNCHANGED <<now, sending, timeline, hold, reached>>
  BY <1>1, SenderTimeline DEF Sender!Send
<1>3. /\ dg.key \in Nat /\ reached \in Nat \ {0}
      /\ dg.key # 0 => dg.key + DisclosureDelay = reached
  BY <1>2, DatagramPlan, TeslaAssumption
<1>4. timeline # <<>>
  BY <1>2 DEF Good, Delivering, Disclosing
<1>5. Begun(timeline, reached, now)
  <2>1. IntervalStartTimestamp(timeline, reached) <= now
    <3>1. IntervalStartTimestamp(timeline, reached) \in Int
      <4>1. SegmentOf(timeline, reached) \in Segments
        BY <1>3, <1>4, SegmentCovers, PartsType DEF Good, Types, Commanding, Sequenced
      <4>2. IntervalStartTimestamp(timeline, reached)
                = StartIn(SegmentOf(timeline, reached), reached)
        BY DEF IntervalStartTimestamp, StartIn
      <4> QED BY <1>3, <4>1, <4>2, StartInGrows
    <3> QED BY <1>2, <3>1 DEF Good, Types
  <2>2. now \in Int
    BY DEF Good, Types
  <2> QED BY <1>3, <1>4, <2>1, <2>2, TimelineBegun
<1>6. disclosed \subseteq disclosed' /\ network \subseteq network'
  BY <1>1, <1>2
<1>7. Types'
  BY <1>1, <1>2, <1>3 DEF Good, Types
<1>8. Commanding' /\ Agreeing' /\ Safe'
  BY <1>1, <1>2 DEF Good, Commanding, Agreeing, Safe
<1>9. Disclosing(timeline, sending, hold, reached, disclosed', network', inbox, now)
  <2>1. \A k \in disclosed' : /\ k + DisclosureDelay <= reached
                             /\ Begun(timeline, k + DisclosureDelay, now)
    <3> SUFFICES ASSUME NEW k \in disclosed', k \notin disclosed
                 PROVE  k + DisclosureDelay <= reached
                            /\ Begun(timeline, k + DisclosureDelay, now)
      BY DEF Good, Delivering, Disclosing
    <3>1. k + DisclosureDelay = reached
      BY <1>2, <1>3
    <3> QED BY <1>3, <1>5, <3>1
  <2>2. \A x \in network' : x.key # 0 => x.key \in disclosed'
    BY <1>1, <1>2, <1>6 DEF Good, Delivering, Disclosing
  <2> QED BY <1>4, <2>1, <2>2 DEF Good, Delivering, Disclosing
<1>10. Stamped(inbox, late, timeline, disclosed', receiver.keys, network', now, skew)
  BY <1>6 DEF Good, Delivering, Stamped
<1>11. Learned(receiver, disclosed')
  BY <1>6 DEF Good, Delivering, Learned
<1>12. Delivering'
  BY <1>1, <1>2, <1>9, <1>10, <1>11 DEF Delivering
<1> QED BY <1>7, <1>8, <1>12 DEF Good

(* The sender reaches its next interval, or has sent all.                  *)
LEMMA SenderAdvancesKeepsGood ==
    ASSUME Good, SenderAdvances PROVE Good'
<1> USE DEF senderVars, receiverVars
<1>1. /\ UNCHANGED <<manager, toSender, toReceiver, skew, receiverVars, network>>
      /\ UNCHANGED <<now, timeline, hold, disclosed>>
      /\ sending
      /\ \/ /\ sending' = sending /\ reached' = reached + 1
            /\ hold = 0 \/ reached # hold
         \/ sending' = FALSE /\ reached' = reached
  BY DEF SenderAdvances, Sender!ReachNext, Sender!Finish
<1>2. Types' /\ reached \in Nat /\ hold \in Nat /\ reached' \in Nat /\ reached <= reached'
  <2>1. reached \in Nat /\ hold \in Nat /\ sending \in BOOLEAN
    BY DEF Good, Types
  <2>2. reached' = reached + 1 \/ reached' = reached
    BY <1>1
  <2>3. reached' \in Nat /\ reached <= reached'
    BY <2>1, <2>2
  <2>4. sending' \in BOOLEAN
    BY <1>1, <2>1
  <2> QED BY <1>1, <2>1, <2>3, <2>4 DEF Good, Types
<1>3. Commanding'
  BY <1>1 DEF Good, Commanding
<1>4. timeline # <<>> /\ (hold # 0 => reached' <= hold)
  <2>1. timeline # <<>> /\ (hold # 0 => reached <= hold)
    BY <1>1 DEF Good, Delivering, Disclosing
  <2>2. reached' = reached \/ (reached' = reached + 1 /\ (hold = 0 \/ reached # hold))
    BY <1>1
  <2> QED BY <1>2, <2>1, <2>2
<1>5. Agreement(timeline, toSender, hold, reached', receiver.timeline, toReceiver,
          receiver.active)
  <2>1. \A x : Refused(x, timeline, toSender, hold, reached)
              => Refused(x, timeline, toSender, hold, reached')
    BY <1>4 DEF Refused
  <2> QED BY <2>1, AgreementKept DEF Good, Agreeing
<1>6. Agreeing'
  BY <1>1, <1>5 DEF Good, Agreeing
<1>7. Disclosing(timeline, sending', hold, reached', disclosed, network, inbox, now)
  <2>1. \A k \in disclosed : k + DisclosureDelay <= reached'
    <3> TAKE k \in disclosed
    <3>1. k \in Nat /\ k + DisclosureDelay <= reached
      BY DEF Good, Types, Delivering, Disclosing
    <3> QED BY <1>2, <3>1, RoundAssumption
  <2> QED BY <1>4, <2>1 DEF Good, Delivering, Disclosing
<1>8. Delivering'
  BY <1>1, <1>7 DEF Good, Delivering
<1>9. Safe'
  <2>1. Orders(toSender) \subseteq Commands
    BY OrdersType DEF Good, Types
  <2>2. \A c \in Orders(toSender) : c.interval < reached => c.interval < reached'
    BY <1>2, <2>1, CommandTypes
  <2>3. Doomed(toSender, reached, toReceiver, now)
          => Doomed(toSender, reached', toReceiver, now)
    BY <2>2 DEF Doomed
  <2> QED BY <1>1, <2>3 DEF Good, Safe
<1> QED BY <1>2, <1>3, <1>6, <1>8, <1>9 DEF Good

(* Time passes; a resume under way may come to be doomed.                  *)
LEMMA TickKeepsGood ==
    ASSUME Good, Tick PROVE Good'
<1> USE DEF senderVars, receiverVars
<1>1. /\ UNCHANGED <<manager, toSender, toReceiver, skew, receiverVars, network>>
      /\ UNCHANGED <<sending, timeline, hold, reached, disclosed>>
      /\ now' = now + 1
  BY DEF Tick, Sender!Tick
<1>2. Types' /\ now \in Nat /\ now' \in Nat /\ now < now' /\ skew \in Int
  BY <1>1, ContextAssumption DEF Good, Types
<1>3. Commanding' /\ Agreeing'
  BY <1>1 DEF Good, Commanding, Agreeing
<1>4. timeline \in Seq(Segments) /\ Parts(timeline) \subseteq Segments
  BY PartsType DEF Good, Types
<1>5. Disclosing(timeline, sending, hold, reached, disclosed, network, inbox, now')
  <2>1. \A k \in disclosed : Begun(timeline, k + DisclosureDelay, now')
    <3> SUFFICES ASSUME NEW k \in disclosed, NEW x \in Parts(timeline),
                        x.first <= k + DisclosureDelay
                 PROVE  StartIn(x, k + DisclosureDelay) <= now'
      BY DEF Begun
    <3>1. k + DisclosureDelay \in Nat
      BY RoundAssumption DEF Good, Types
    <3>2. StartIn(x, k + DisclosureDelay) <= now
      BY DEF Good, Delivering, Disclosing, Begun
    <3>3. StartIn(x, k + DisclosureDelay) \in Int
      BY <1>4, <3>1, StartInGrows
    <3> QED BY <1>2, <3>2, <3>3
  <2> QED BY <2>1 DEF Good, Delivering, Disclosing
<1>6. Stamped(inbox, late, timeline, disclosed, receiver.keys, network, now', skew)
  BY <1>2 DEF Good, Delivering, Stamped
<1>7. Delivering'
  BY <1>1, <1>5, <1>6 DEF Good, Delivering
<1>8. Safe'
  <2>1. Orders(toReceiver) \subseteq Commands
    BY OrdersType DEF Good, Types
  <2>2. \A c \in Orders(toReceiver) : c.ts <= now => c.ts <= now'
    BY <1>2, <2>1, CommandTypes
  <2>3. Doomed(toSender, reached, toReceiver, now)
          => Doomed(toSender, reached, toReceiver, now')
    BY <2>2 DEF Doomed
  <2> QED BY <1>1, <2>3 DEF Good, Safe
<1> QED BY <1>2, <1>3, <1>7, <1>8 DEF Good

-----------------------------------------------------------------------------
(* An operation that learns the keys ks and gives verdicts in their        *)
(* intervals.                                                              *)
Learns(s, t, ks) ==
    /\ Carries(s, t)
    /\ t.keys = s.keys \cup ks /\ t.verified = s.verified \cup ks
    /\ \A p \in Slots(s) : t.baseline[p] = SlotJudged(s, ks \ s.verified, p)

(* An operation that changes neither packets nor keys learns nothing.      *)
LEMMA LearnsNothing ==
    ASSUME NEW s, NEW t, Carries(s, t), t.keys = s.keys, t.verified = s.verified,
           t.baseline = s.baseline
    PROVE  Learns(s, t, {})
BY DEF Learns, SlotJudged

(* Learning keys settles the packets of their intervals.                   *)
LEMMA LearnsSettled ==
    ASSUME NEW s, NEW t, NEW ks, Learns(s, t, ks), Settled(s)
    PROVE  Settled(t)
<1>1. Slots(t) = Slots(s) /\ t.verified = s.verified \cup ks
  BY DEF Learns, Carries, Slots
<1> SUFFICES ASSUME NEW p \in Slots(s), t.baseline[p].copy # "none",
                    t.baseline[p].status = "Pending",
                    IntervalOfPacket(p) \in s.verified \cup ks
             PROVE  FALSE
  BY <1>1 DEF Settled
<1>2. t.baseline[p] = SlotJudged(s, ks \ s.verified, p)
  BY DEF Learns
<1> DEFINE judged == IntervalOfPacket(p) \in ks \ s.verified /\ s.baseline[p].copy # "none"
<1>3. CASE judged
  <2>1. t.baseline[p] = [copy |-> s.baseline[p].copy,
            status |-> PassedWith(s.baseline[p].copy)]
    BY <1>2, <1>3 DEF SlotJudged
  <2> QED BY <2>1 DEF PassedWith
<1>4. CASE ~judged
  <2>1. t.baseline[p] = s.baseline[p]
    BY <1>2, <1>4 DEF SlotJudged
  <2>2. IntervalOfPacket(p) \in s.verified
    BY <1>4, <2>1
  <2> QED BY <2>1, <2>2 DEF Settled
<1> QED BY <1>3, <1>4

(* Setting the flag for a loss learns nothing.                             *)
LEMMA IncompleteLearns ==
    ASSUME NEW s, Sound(s)
    PROVE  Learns(s, [s EXCEPT !.incomplete = TRUE], {})
<1> DEFINE t == [s EXCEPT !.incomplete = TRUE]
<1>1. /\ Carries(s, t) /\ t.keys = s.keys /\ t.verified = s.verified
      /\ t.baseline = s.baseline
  BY DEF Sound, Shape, Fields, Carries
<1> HIDE DEF t
<1>2. Learns(s, t, {})
  BY <1>1, LearnsNothing
<1> QED BY <1>2 DEF t

(* Storing another version of a packet learns nothing.                     *)
LEMMA CandidateLearns ==
    ASSUME NEW s, NEW p, NEW copy, Sound(s)
    PROVE  Learns(s, WithCandidate(s, p, copy), {})
<1> DEFINE c == s.candidates \cup {[packet |-> p, copy |-> copy, status |-> "Pending"]}
           t == [s EXCEPT !.candidates = c]
<1>1. WithCandidate(s, p, copy) = s \/ WithCandidate(s, p, copy) = t
  BY DEF WithCandidate
<1> HIDE DEF c
<1>2. /\ Carries(s, t) /\ t.keys = s.keys /\ t.verified = s.verified
      /\ t.baseline = s.baseline
  BY DEF Sound, Shape, Fields, Carries
<1> HIDE DEF t
<1>3. Learns(s, t, {}) /\ Learns(s, s, {})
  BY <1>2, LearnsNothing DEF Carries
<1> QED BY <1>1, <1>3

(* A key teaches all keys up to it.                                        *)
LEMMA WithKeyLearns ==
    ASSUME NEW s, NEW k \in 1 .. DataIntervalCount(s.total), Sound(s)
    PROVE  Learns(s, WithKey(s, k), 1 .. k)
<1> DEFINE ks == (1 .. k) \ s.verified
           b == [p \in Slots(s) |->
               IF IntervalOfPacket(p) \in ks /\ s.baseline[p].copy # "none"
               THEN Verdict(s.baseline[p]) ELSE s.baseline[p]]
           c == {IF IntervalOfPacket(x.packet) \in ks THEN Verdict(x) ELSE x :
             x \in s.candidates}
           v == s.verified \cup ks
           j == [s EXCEPT !.baseline = b, !.candidates = c, !.verified = v]
           g == [j EXCEPT !.keys = @ \cup (1 .. k)]
           f == [g EXCEPT !.active = FALSE, !.outcome = FinalStatus(g)]
<1>1. WithKey(s, k) = IF k = DataIntervalCount(s.total) THEN f ELSE g
  BY DEF WithKey, Judged, Recovered, Finalized
<1>2. Judged(s, ks) = j
  BY DEF Judged
<1>3. /\ j.total = s.total /\ j.timeline = s.timeline /\ j.keys = s.keys
      /\ j.verified = s.verified \cup ks
      /\ j = [x \in Fields |-> j[x]]
      /\ \A p \in Slots(s) : j.baseline[p] = SlotJudged(s, ks, p)
  <2> HIDE DEF j, ks
  <2>1. Shape(s)
    BY DEF Sound
  <2>2. Shape(j) /\ j.total = s.total /\ j.timeline = s.timeline
    BY <1>2, <2>1, JudgedKeeps
  <2>3. j.keys = s.keys /\ j.verified = s.verified \cup ks
    BY <1>2, <2>1, JudgedKeeps
  <2>4. \A p \in Slots(s) : j.baseline[p] = SlotJudged(s, ks, p)
    BY <1>2, <2>1, JudgedKeeps
  <2> QED BY <2>2, <2>3, <2>4 DEF Shape
<1>4. j.pauseAfter = s.pauseAfter
  <2> HIDE DEF b, c, v
  <2> QED BY DEF Sound, Shape, Fields
<1>5. s.verified \cup ks = s.verified \cup (1 .. k)
  OBVIOUS
<1> HIDE DEF j
<1>6. /\ g.total = s.total /\ g.timeline = s.timeline /\ g.pauseAfter = s.pauseAfter
      /\ g.keys = s.keys \cup (1 .. k) /\ g.verified = j.verified
      /\ g.baseline = j.baseline /\ g = [x \in Fields |-> g[x]]
  BY <1>3, <1>4 DEF Fields
<1> HIDE DEF g
<1>7. /\ f.total = s.total /\ f.timeline = s.timeline /\ f.pauseAfter = s.pauseAfter
      /\ f.keys = g.keys /\ f.verified = g.verified /\ f.baseline = g.baseline
  BY <1>6 DEF Fields
<1> HIDE DEF f
<1>8. Learns(s, g, 1 .. k)
  BY <1>3, <1>5, <1>6 DEF Learns, Carries
<1>9. Learns(s, f, 1 .. k)
  BY <1>7, <1>8 DEF Learns, Carries
<1> QED BY <1>1, <1>8, <1>9

(* What a disclosed key teaches, when the datagram carries one.            *)
LEMMA KeyDisclosedLearns ==
    ASSUME NEW s, NEW interval \in Nat, NEW copy, Sound(s)
    PROVE  \/ Learns(s, KeyDisclosed(s, interval, copy), {})
           \/ /\ interval > DisclosureDelay
              /\ Learns(s, KeyDisclosed(s, interval, copy), 1 .. interval - DisclosureDelay)
<1>1. /\ interval > DisclosureDelay
      /\ interval - DisclosureDelay <= DataIntervalCount(s.total)
      => interval - DisclosureDelay \in 1 .. DataIntervalCount(s.total)
  BY RoundAssumption
<1>2. \/ /\ interval > DisclosureDelay
         /\ interval - DisclosureDelay <= DataIntervalCount(s.total)
         /\ KeyDisclosed(s, interval, copy) = WithKey(s, interval - DisclosureDelay)
      \/ KeyDisclosed(s, interval, copy) = [s EXCEPT !.incomplete = TRUE]
  BY DEF KeyDisclosed
<1> QED BY <1>1, <1>2, WithKeyLearns, IncompleteLearns

(* Storing a packet changes its slot only.                                 *)
LEMMA WithBaselineFields ==
    ASSUME NEW s, NEW p \in Slots(s), NEW copy, Sound(s)
    PROVE  LET t == WithBaseline(s, p, copy)
           IN  /\ Carries(s, t) /\ t.keys = s.keys /\ t.verified = s.verified
               /\ \A q \in Slots(s) :
                    t.baseline[q] = IF q = p THEN [copy |-> copy, status |-> "Pending"]
                                    ELSE s.baseline[q]
<1> DEFINE n == [copy |-> copy, status |-> "Pending"]
           b == [s.baseline EXCEPT ![p] = n]
           t == [s EXCEPT !.baseline = b]
<1>1. WithBaseline(s, p, copy) = t
  BY DEF WithBaseline
<1>2. \A q \in Slots(s) : b[q] = IF q = p THEN n ELSE s.baseline[q]
  BY DEF Sound, Shape
<1> HIDE DEF b
<1>3. /\ Carries(s, t) /\ t.keys = s.keys /\ t.verified = s.verified /\ t.baseline = b
  BY DEF Sound, Shape, Fields, Carries
<1> HIDE DEF t
<1> QED BY <1>1, <1>2, <1>3

(* A genuine datagram teaches what its key teaches, and before that stores *)
(* its packet at most if the slot is free and the packet counts as time    *)
(* safe.                                                                   *)
LEMMA ProcessedLearns ==
    ASSUME NEW s, NEW dg, NEW recv, Sound(s), dg \in Datagrams(s.total)
    PROVE  LET t == Processed(s, dg, "genuine", recv)
               b == WithBaseline(s, dg.packet, "genuine")
               Taught(u) == Learns(u, t, {}) \/ (dg.key # 0 /\ Learns(u, t, 1 .. dg.key))
           IN  \/ Taught(s)
               \/ /\ s.active /\ dg.packet \in Slots(s)
                  /\ IsPacketTimeSafe(s, dg.interval, recv)
                  /\ s.baseline[dg.packet].copy = "none"
                  /\ Sound(b)
                  /\ Taught(b)
<1> DEFINE t == Processed(s, dg, "genuine", recv)
           b == WithBaseline(s, dg.packet, "genuine")
           Taught(u) == Learns(u, t, {}) \/ (dg.key # 0 /\ Learns(u, t, 1 .. dg.key))
<1>1. /\ s.total \in Nat \ {0} /\ dg.interval \in Nat \ {0}
      /\ dg.packet \in 0 .. s.total
      /\ dg.key \in Nat
      /\ dg.key # 0 => dg.interval = dg.key + DisclosureDelay
      /\ dg.packet = 0 /\ dg.interval > DisclosureDelay => dg.key # 0
  BY DatagramPlan DEF Sound, Ranges
<1>2. dg.key # 0 => dg.interval - DisclosureDelay = dg.key
  BY <1>1, RoundAssumption
<1>3. Learns(s, s, {}) /\ Learns(b, b, {})
  BY LearnsNothing DEF Carries
<1>4. \/ t = s
      \/ t = [s EXCEPT !.incomplete = TRUE]
      \/ t = WithCandidate(s, dg.packet, "genuine")
      \/ dg.packet = 0 /\ t = KeyDisclosed(s, dg.interval, "genuine")
      \/ /\ s.active /\ dg.packet # 0
         /\ IsPacketTimeSafe(s, dg.interval, recv)
         /\ s.baseline[dg.packet].copy = "none"
         /\ \/ t = b
            \/ dg.key # 0 /\ t = KeyDisclosed(b, dg.interval, "genuine")
  BY DEF Processed, WithDataPacket
<1> SUFFICES \/ Taught(s)
             \/ /\ s.active /\ dg.packet \in Slots(s)
                /\ IsPacketTimeSafe(s, dg.interval, recv)
                /\ s.baseline[dg.packet].copy = "none"
                /\ Sound(b)
                /\ Taught(b)
  OBVIOUS
<1> HIDE DEF t, b
<1>5. CASE t = s
  BY <1>3, <1>5
<1>6. CASE t = [s EXCEPT !.incomplete = TRUE]
  BY <1>6, IncompleteLearns
<1>7. CASE t = WithCandidate(s, dg.packet, "genuine")
  BY <1>7, CandidateLearns
<1>8. CASE dg.packet = 0 /\ t = KeyDisclosed(s, dg.interval, "genuine")
  <2>1. Learns(s, t, {}) \/ (dg.interval > DisclosureDelay
                             /\ Learns(s, t, 1 .. dg.interval - DisclosureDelay))
    BY <1>1, <1>8, KeyDisclosedLearns
  <2>2. Taught(s)
    BY <1>1, <1>2, <1>8, <2>1
  <2> QED BY <2>2
<1>9. CASE /\ s.active /\ dg.packet # 0
           /\ IsPacketTimeSafe(s, dg.interval, recv)
           /\ s.baseline[dg.packet].copy = "none"
           /\ \/ t = b
              \/ dg.key # 0 /\ t = KeyDisclosed(b, dg.interval, "genuine")
  <2>1. dg.packet \in Slots(s)
    BY <1>1, <1>9 DEF Slots
  <2>2. Sound(b)
    BY <1>9, WithBaselineSound DEF b
  <2>3. CASE t = b
    BY <1>3, <1>9, <2>1, <2>2, <2>3
  <2>4. CASE dg.key # 0 /\ t = KeyDisclosed(b, dg.interval, "genuine")
    <3>1. Learns(b, t, {}) \/ Learns(b, t, 1 .. dg.interval - DisclosureDelay)
      BY <1>1, <2>2, <2>4, KeyDisclosedLearns
    <3>2. Taught(b)
      BY <1>2, <2>4, <3>1
    <3> QED BY <1>9, <2>1, <2>2, <3>2
  <2> QED BY <1>9, <2>3, <2>4
<1> QED BY <1>4, <1>5, <1>6, <1>7, <1>8, <1>9

-----------------------------------------------------------------------------
(* An operation that changes neither packets nor keys.                     *)
SameKnowing(s, t) ==
    /\ t.total = s.total /\ t.keys = s.keys /\ t.verified = s.verified
    /\ t.baseline = s.baseline

(* Such an operation leaves what was learned and settled.                  *)
LEMMA SameKnowingKeeps ==
    ASSUME NEW s, NEW t, NEW keys, SameKnowing(s, t)
    PROVE  /\ Learned(s, keys) => Learned(t, keys)
           /\ Settled(s) => Settled(t)
BY DEF SameKnowing, Learned, Settled, Slots

(* Control calls and deadlines are such operations; this is what they do   *)
(* to timeline and pause.                                                  *)
LEMMA ContextChanges ==
    ASSUME NEW s, Sound(s), NEW k, NEW ts
    PROVE  /\ LET t == WithPause(s, k, ts)
              IN  /\ SameKnowing(s, t) /\ t.timeline = s.timeline
                  /\ t.pauseAfter = IF s.active THEN k ELSE s.pauseAfter
           /\ LET t == WithResume(s, k, ts)
              IN  /\ SameKnowing(s, t) /\ t.pauseAfter = s.pauseAfter
                  /\ t.timeline = IF s.active THEN Append(s.timeline, Segment(k, ts))
                                  ELSE s.timeline
           /\ LET t == Stopped(s)
              IN  SameKnowing(s, t) /\ t.timeline = s.timeline
                  /\ t.pauseAfter = s.pauseAfter
           /\ LET t == TimedOut(s)
              IN  /\ SameKnowing(s, t) /\ t.timeline = s.timeline
                  /\ t.pauseAfter = s.pauseAfter
<1> DEFINE line == Append(s.timeline, Segment(k, ts))
           p == [s EXCEPT !.pauseAfter = k, !.pauseTs = ts]
           r == [s EXCEPT !.timeline = line]
           x == [s EXCEPT !.active = FALSE]
           o == [s EXCEPT !.active = FALSE, !.outcome = "VerificationTimeout"]
<1>1. /\ WithPause(s, k, ts) = IF s.active THEN p ELSE s
      /\ WithResume(s, k, ts) = IF s.active THEN r ELSE s
      /\ Stopped(s) = x /\ TimedOut(s) = o
  BY DEF WithPause, WithResume, Stopped, TimedOut
<1> HIDE DEF line
<1>2. s = [f \in Fields |-> s[f]]
  BY DEF Sound, Shape
<1>3. SameKnowing(s, p) /\ p.timeline = s.timeline /\ p.pauseAfter = k
  BY <1>2 DEF SameKnowing, Fields
<1>4. SameKnowing(s, r) /\ r.timeline = line /\ r.pauseAfter = s.pauseAfter
  BY <1>2 DEF SameKnowing, Fields
<1>5. SameKnowing(s, x) /\ x.timeline = s.timeline /\ x.pauseAfter = s.pauseAfter
  BY <1>2 DEF SameKnowing, Fields
<1>6. SameKnowing(s, o) /\ o.timeline = s.timeline /\ o.pauseAfter = s.pauseAfter
  BY <1>2 DEF SameKnowing, Fields
<1>7. SameKnowing(s, s)
  BY DEF SameKnowing
<1> HIDE DEF p, r, x, o
<1>8. LET t == WithPause(s, k, ts)
      IN  /\ SameKnowing(s, t) /\ t.timeline = s.timeline
          /\ t.pauseAfter = IF s.active THEN k ELSE s.pauseAfter
  BY <1>1, <1>3, <1>7
<1>9. LET t == WithResume(s, k, ts)
      IN  /\ SameKnowing(s, t) /\ t.pauseAfter = s.pauseAfter
          /\ t.timeline = IF s.active THEN Append(s.timeline, Segment(k, ts))
                          ELSE s.timeline
  BY <1>1, <1>4, <1>7 DEF line
<1> QED BY <1>1, <1>5, <1>6, <1>8, <1>9

(* A context that was just started.                                        *)
LEMMA StartedFields ==
    ASSUME NEW t \in Nat \ {0}, NEW ts
    PROVE  LET s == Started(t, ts)
           IN  /\ s.timeline = <<Segment(1, ts)>> /\ s.pauseAfter = 0
               /\ s.keys = {} /\ s.verified = {} /\ s.total = t /\ s.active
               /\ Settled(s)
<1> DEFINE line == <<Segment(1, ts)>>
           u == Unstarted(t)
           s == [u EXCEPT !.active = TRUE, !.timeline = line]
<1>1. Started(t, ts) = s
  BY DEF Started
<1> HIDE DEF line
<1>2. /\ u = [f \in Fields |-> u[f]] /\ u.total = t /\ u.pauseAfter = 0
      /\ u.keys = {} /\ u.verified = {}
  BY DEF Unstarted, Fields
<1> HIDE DEF u
<1>3. /\ s.timeline = line /\ s.pauseAfter = 0 /\ s.keys = {} /\ s.verified = {}
      /\ s.total = t /\ s.active
  BY <1>2 DEF Fields
<1> HIDE DEF s
<1>4. Settled(s)
  BY <1>3 DEF Settled
<1> QED BY <1>1, <1>3, <1>4 DEF line

(* The receiver takes a command without a new segment.                     *)
LEMMA ReceiverDropsCommand ==
    ASSUME Good, toReceiver # <<>>, toReceiver' = Tail(toReceiver),
           receiver'.timeline = receiver.timeline,
           UNCHANGED <<manager, toSender, timeline>>
    PROVE  Commanding'
<1>0. receiver.timeline \in Seq(Segments)
  BY DEF Good, Types, Sound, Ranges, Segments
<1>1. Issued(manager, receiver.timeline, toReceiver')
          /\ Sequenced(receiver.timeline, toReceiver')
  BY <1>0, IssuedTail, SequencedTail DEF Good, Types, Commanding
<1> QED BY <1>1 DEF Good, Commanding

(* The receiver takes a command by a new segment.                          *)
LEMMA ReceiverFollowsCommand ==
    ASSUME Good, toReceiver # <<>>, toReceiver' = Tail(toReceiver),
           Opens(Head(toReceiver)),
           receiver.timeline = <<>> => Head(toReceiver).op = "start",
           receiver'.timeline = Append(receiver.timeline, Opened(Head(toReceiver))),
           UNCHANGED <<manager, toSender, timeline>>
    PROVE  /\ Commanding'
           /\ Plan(receiver'.timeline, toReceiver') = Plan(receiver.timeline, toReceiver)
<1>0. receiver.timeline \in Seq(Segments)
  BY DEF Good, Types, Sound, Ranges, Segments
<1>1. /\ Issued(manager, receiver'.timeline, toReceiver')
      /\ Sequenced(receiver'.timeline, toReceiver')
      /\ Plan(receiver'.timeline, toReceiver') = Plan(receiver.timeline, toReceiver)
  BY <1>0, IssuedTaken, SequencedTaken, PlanTaken DEF Good, Types, Commanding
<1> QED BY <1>1 DEF Good, Commanding

(* Plans stay in agreement when the receiver takes a command and, as long  *)
(* as it is in the round, keeps its plan.                                  *)
LEMMA AgreementTaken ==
    ASSUME NEW line, NEW q, NEW h, NEW r, NEW rline, NEW rq, NEW active,
           NEW rline2, NEW rq2, NEW active2,
           Agreement(line, q, h, r, rline, rq, active),
           Plan(rline2, rq2) \subseteq Plan(rline, rq),
           active2 \/ (\E c \in Orders(rq2) : c.op = "start") =>
              /\ active \/ (\E c \in Orders(rq) : c.op = "start")
              /\ Plan(rline2, rq2) = Plan(rline, rq)
    PROVE  Agreement(line, q, h, r, rline2, rq2, active2)
BY DEF Agreement

(* A pause the receiver takes up was on its way to it.                     *)
LEMMA PausingTaken ==
    ASSUME NEW m, NEW line, NEW q, NEW h, NEW rq, NEW after, NEW rq2, NEW after2,
           Pausing(m, line, q, h, rq, after), Orders(rq2) \subseteq Orders(rq),
           \/ after2 = after
           \/ after2 = 0
           \/ \E c \in Orders(rq) : c.op = "pause" /\ after2 = c.interval
    PROVE  Pausing(m, line, q, h, rq2, after2)
BY DEF Pausing

(* The receiver starts, or the start comes too late for its preparation.   *)
LEMMA ReceiverStartsKeepsGood ==
    ASSUME Good, ReceiverStarts PROVE Good'
<1> USE DEF senderVars, receiverVars
<1> DEFINE c == Head(toReceiver)
           q == Tail(toReceiver)
<1>1. /\ toReceiver # <<>> /\ c.op = "start" /\ toReceiver' = q
      /\ UNCHANGED <<senderVars, manager, toSender, skew, inbox, late, unsafe, network>>
      /\ receiver' = receiver \/ receiver' = Started(TotalPacketCount, c.ts)
  BY DEF ReceiverStarts, ReceiverCommand
<1>2. receiver.timeline \in Seq(Segments)
  BY DEF Good, Types, Sound, Ranges, Segments
<1>3. /\ c \in Commands /\ q \in Seq(Commands) /\ c.interval = 1
      /\ receiver.timeline = <<>>
      /\ Orders(toReceiver) = {c} \cup Orders(q)
      /\ \A o \in Orders(q) : o.interval \in Nat /\ (o.op # "stop" => 1 < o.interval)
                              /\ (o.op = "start" => o.interval = 1)
  BY <1>1, <1>2, HeadFacts DEF Good, Types, Commanding
<1>4. \A o \in Orders(q) : o.op # "start"
  BY <1>3
<1>5. ~receiver.active
  BY <1>3 DEF Good, Types, Sound, Ranges
<1> HIDE DEF c, q
<1>6. Opens(c) /\ c.op # "resume"
  BY <1>1 DEF Opens
<1>7. Doomed(toSender, reached, toReceiver, now) => Doomed(toSender, reached, q, now)
  BY <1>3, <1>6 DEF Doomed
<1>8. CASE receiver' = receiver
  <2>1. Types'
    BY <1>1, <1>3, <1>8 DEF Good, Types
  <2>2. Commanding'
    BY <1>1, <1>8, ReceiverDropsCommand DEF q
  <2>3. Agreement(timeline, toSender, hold, reached, receiver.timeline, q, receiver.active)
    <3>1. Plan(receiver.timeline, q) \subseteq Plan(receiver.timeline, toReceiver)
      BY <1>1, <1>2, PlanTail DEF Good, Types, q
    <3> QED BY <1>4, <1>5, <3>1, AgreementTaken DEF Good, Agreeing
  <2>4. Pausing(manager, timeline, toSender, hold, q, receiver.pauseAfter)
    BY <1>3, PausingTaken DEF Good, Agreeing
  <2>5. Agreeing'
    BY <1>1, <1>8, <2>3, <2>4 DEF Agreeing
  <2>6. Delivering'
    BY <1>1, <1>8 DEF Good, Delivering
  <2>7. Safe'
    BY <1>1, <1>7, <1>8 DEF Good, Safe
  <2> QED BY <2>1, <2>2, <2>5, <2>6, <2>7 DEF Good
<1>9. CASE receiver' = Started(TotalPacketCount, c.ts)
  <2>1. /\ receiver'.timeline = <<Segment(1, c.ts)>> /\ receiver'.pauseAfter = 0
        /\ receiver'.keys = {} /\ receiver'.verified = {}
        /\ receiver'.total = TotalPacketCount /\ receiver'.active
        /\ Settled(receiver')
    BY <1>9, StartedFields, TeslaAssumption
  <2>2. Sound(receiver')
    <3>1. c.ts \in Nat
      BY <1>3, CommandTypes
    <3> QED BY <1>9, <3>1, StartedSound, TeslaAssumption
  <2>3. receiver'.timeline = Append(receiver.timeline, Opened(c))
    BY <1>3, <2>1 DEF Opened
  <2>4. /\ Commanding'
        /\ Plan(receiver'.timeline, toReceiver') = Plan(receiver.timeline, toReceiver)
    BY <1>1, <1>6, <2>3, ReceiverFollowsCommand DEF c, q
  <2>5. Types'
    BY <1>1, <1>3, <2>1, <2>2 DEF Good, Types
  <2>6. Agreement(timeline, toSender, hold, reached, receiver'.timeline, q,
            receiver'.active)
    BY <1>1, <1>3, <2>4, AgreementTaken DEF Good, Agreeing
  <2>7. Pausing(manager, timeline, toSender, hold, q, receiver'.pauseAfter)
    BY <1>3, <2>1, PausingTaken DEF Good, Agreeing
  <2>8. Agreeing'
    BY <1>1, <2>6, <2>7 DEF Agreeing
  <2>9. Delivering'
    <3>1. Learned(receiver', disclosed)
      BY <2>1 DEF Learned
    <3>2. Stamped(inbox, late, timeline, disclosed, receiver'.keys, network, now, skew)
      BY <2>1 DEF Good, Delivering, Stamped
    <3> QED BY <1>1, <3>1, <3>2 DEF Good, Delivering
  <2>10. Safe'
    BY <1>1, <1>7, <2>1 DEF Good, Safe
  <2> QED BY <2>4, <2>5, <2>8, <2>9, <2>10 DEF Good
<1> QED BY <1>1, <1>8, <1>9

(* Keys, datagrams and packets when the receiver only changes its course.  *)
LEMMA KnowledgeKept ==
    ASSUME Good, SameKnowing(receiver, receiver'),
           UNCHANGED <<senderVars, toSender, skew, inbox, late, unsafe, network>>
    PROVE  /\ Delivering'
           /\ (Doomed(toSender, reached, toReceiver, now) =>
                 Doomed(toSender, reached, toReceiver', now)) => Safe'
<1> USE DEF senderVars
<1>1. /\ receiver'.keys = receiver.keys
      /\ Learned(receiver', disclosed) /\ (Settled(receiver) => Settled(receiver'))
  BY SameKnowingKeeps DEF Good, Delivering, SameKnowing
<1>2. Delivering'
  BY <1>1 DEF Good, Delivering
<1>3. (Doomed(toSender, reached, toReceiver, now) =>
        Doomed(toSender, reached, toReceiver', now)) => Safe'
  BY <1>1 DEF Good, Safe
<1> QED BY <1>2, <1>3

(* The receiver takes a pause or refuses it.                               *)
LEMMA ReceiverPausesKeepsGood ==
    ASSUME Good, ReceiverPauses PROVE Good'
<1> USE DEF senderVars, receiverVars
<1> DEFINE c == Head(toReceiver)
           q == Tail(toReceiver)
<1>1. /\ toReceiver # <<>> /\ c.op = "pause" /\ toReceiver' = q
      /\ UNCHANGED <<senderVars, manager, toSender, skew, inbox, late, unsafe, network>>
      /\ receiver' = receiver \/ receiver' = WithPause(receiver, c.interval, c.ts)
  BY DEF ReceiverPauses, ReceiverCommand
<1>2. receiver.timeline \in Seq(Segments)
  BY DEF Good, Types, Sound, Ranges, Segments
<1>3. /\ c \in Commands /\ q \in Seq(Commands) /\ c.interval \in Nat
      /\ Orders(toReceiver) = {c} \cup Orders(q)
  BY <1>1, <1>2, HeadFacts DEF Good, Types, Commanding
<1> HIDE DEF c, q
<1>4. ~Opens(c) /\ c.op # "resume" /\ c.op # "start"
  BY <1>1 DEF Opens
<1>5. /\ SameKnowing(receiver, receiver') /\ receiver'.timeline = receiver.timeline
      /\ receiver'.pauseAfter = receiver.pauseAfter \/ receiver'.pauseAfter = c.interval
      /\ Sound(receiver') /\ receiver'.active = receiver.active
      /\ receiver'.total = receiver.total
  <2>1. CASE receiver' = receiver
    BY <2>1 DEF SameKnowing, Good, Types
  <2>2. CASE receiver' = WithPause(receiver, c.interval, c.ts)
    <3>1. Sound(receiver)
      BY DEF Good, Types
    <3>2. Sound(receiver') /\ Unsettled(receiver, receiver')
      BY <2>2, <3>1, PausedSound
    <3> QED BY <2>2, <3>1, <3>2, ContextChanges DEF Unsettled
  <2> QED BY <1>1, <2>1, <2>2
<1>6. Types'
  BY <1>1, <1>3, <1>5 DEF Good, Types
<1>7. Commanding'
  BY <1>1, <1>5, ReceiverDropsCommand DEF q
<1>8. Agreement(timeline, toSender, hold, reached, receiver.timeline, q, receiver.active)
  <2>1. Plan(receiver.timeline, q) = Plan(receiver.timeline, toReceiver)
    BY <1>1, <1>2, <1>4, PlanTail DEF Good, Types, c, q
  <2> QED BY <1>3, <2>1, AgreementTaken DEF Good, Agreeing
<1>9. Pausing(manager, timeline, toSender, hold, q, receiver'.pauseAfter)
  BY <1>1, <1>3, <1>5, PausingTaken DEF Good, Agreeing
<1>10. Agreeing'
  BY <1>1, <1>5, <1>8, <1>9 DEF Agreeing
<1>11. Doomed(toSender, reached, toReceiver, now) => Doomed(toSender, reached, q, now)
  BY <1>3, <1>4 DEF Doomed
<1>12. Delivering' /\ Safe'
  BY <1>1, <1>5, <1>11, KnowledgeKept
<1> QED BY <1>6, <1>7, <1>10, <1>12 DEF Good

(* The receiver resumes; a refusal would split the nodes.                  *)
LEMMA ReceiverResumesKeepsGood ==
    ASSUME Good, ReceiverResumes, ~split' PROVE Good'
<1> USE DEF senderVars, receiverVars
<1> DEFINE c == Head(toReceiver)
           q == Tail(toReceiver)
<1>1. /\ toReceiver # <<>> /\ c.op = "resume" /\ toReceiver' = q
      /\ UNCHANGED <<senderVars, manager, toSender, skew, inbox, late, unsafe, network>>
      /\ receiver' = WithResume(receiver, c.interval, c.ts)
      /\ ~(c.ts <= LocalTime + StartLead)
  BY DEF ReceiverResumes, ReceiverCommand
<1>2. receiver.timeline \in Seq(Segments)
  BY DEF Good, Types, Sound, Ranges, Segments
<1>3. /\ c \in Commands /\ q \in Seq(Commands) /\ c.interval \in Nat /\ c.ts \in Nat
      /\ c.interval > 1
      /\ Orders(toReceiver) = {c} \cup Orders(q)
      /\ \A o \in Orders(q) : /\ o.interval \in Nat
                              /\ o.op # "stop" => c.interval < o.interval
                              /\ (o.op = "start" => o.interval = 1)
  BY <1>1, <1>2, HeadFacts, CommandTypes DEF Good, Types, Commanding
<1>4. \A o \in Orders(q) : o.op # "start"
  BY <1>3
<1> HIDE DEF c, q
<1>5. Opens(c)
  BY <1>1 DEF Opens
<1>6. /\ SameKnowing(receiver, receiver') /\ receiver'.pauseAfter = receiver.pauseAfter
      /\ receiver'.timeline = IF receiver.active THEN Append(receiver.timeline, Opened(c))
                              ELSE receiver.timeline
      /\ Sound(receiver') /\ receiver'.active = receiver.active
      /\ receiver'.total = receiver.total
  <2>1. Sound(receiver)
    BY DEF Good, Types
  <2>2. Sound(receiver') /\ Unsettled(receiver, receiver')
    BY <1>1, <1>3, <2>1, ResumedSound
  <2> QED BY <1>1, <2>1, <2>2, ContextChanges DEF Unsettled, Opened
<1>7. Types'
  BY <1>1, <1>3, <1>6 DEF Good, Types
<1>8. /\ Commanding'
      /\ Agreement(timeline, toSender, hold, reached, receiver'.timeline, q,
             receiver'.active)
  <2>1. CASE receiver.active
    <3>1. receiver.timeline # <<>>
      BY <2>1 DEF Good, Types, Sound, Ranges
    <3>2. /\ Commanding'
          /\ Plan(receiver'.timeline, toReceiver') = Plan(receiver.timeline, toReceiver)
      BY <1>1, <1>5, <1>6, <2>1, <3>1, ReceiverFollowsCommand DEF c, q
    <3>3. Plan(receiver'.timeline, q) \subseteq Plan(receiver.timeline, toReceiver)
      BY <1>1, <3>2
    <3>4. Plan(receiver'.timeline, q) = Plan(receiver.timeline, toReceiver)
      BY <1>1, <3>2
    <3>5. Agreement(timeline, toSender, hold, reached, receiver.timeline, toReceiver,
                    receiver.active)
      BY DEF Good, Agreeing
    <3>6. Agreement(timeline, toSender, hold, reached, receiver'.timeline, q,
              receiver'.active)
      BY <2>1, <3>3, <3>4, <3>5, AgreementTaken
    <3> QED BY <3>2, <3>6
  <2>2. CASE ~receiver.active
    <3>1. Commanding'
      BY <1>1, <1>6, <2>2, ReceiverDropsCommand DEF q
    <3>2. Plan(receiver.timeline, q) \subseteq Plan(receiver.timeline, toReceiver)
      BY <1>1, <1>2, PlanTail DEF Good, Types, q
    <3> QED BY <1>4, <1>6, <2>2, <3>1, <3>2, AgreementTaken DEF Good, Agreeing
  <2> QED BY <2>1, <2>2
<1>9. Pausing(manager, timeline, toSender, hold, q, receiver.pauseAfter)
  BY <1>3, PausingTaken DEF Good, Agreeing
<1>10. Agreeing'
  BY <1>1, <1>6, <1>8, <1>9 DEF Agreeing
<1>11. Doomed(toSender, reached, toReceiver, now) => Doomed(toSender, reached, q, now)
  <2>1. ~(c.ts <= now)
    <3>1. /\ now \in Nat /\ skew \in Int /\ -ClockTolerance <= skew
          /\ ClockTolerance \in Nat /\ StartLead \in Nat /\ ClockTolerance <= StartLead
      BY ContextAssumption, TeslaAssumption DEF Good, Types
    <3> QED BY <1>1, <1>3, <3>1 DEF LocalTime
  <2> QED BY <1>3, <2>1 DEF Doomed
<1>12. Delivering' /\ Safe'
  BY <1>1, <1>6, <1>11, KnowledgeKept
<1> QED BY <1>7, <1>8, <1>10, <1>12 DEF Good

(* The receiver stops.                                                     *)
LEMMA ReceiverStopsKeepsGood ==
    ASSUME Good, ReceiverStops PROVE Good'
<1> USE DEF senderVars, receiverVars
<1> DEFINE c == Head(toReceiver)
           q == Tail(toReceiver)
<1>1. /\ toReceiver # <<>> /\ c.op = "stop" /\ toReceiver' = q
      /\ UNCHANGED <<senderVars, manager, toSender, skew, inbox, late, unsafe, network>>
      /\ receiver' = Stopped(receiver)
  BY DEF ReceiverStops, ReceiverCommand
<1>2. receiver.timeline \in Seq(Segments)
  BY DEF Good, Types, Sound, Ranges, Segments
<1>3. q \in Seq(Commands) /\ Orders(toReceiver) = {c} \cup Orders(q)
  BY <1>1, <1>2, HeadFacts DEF Good, Types, Commanding
<1> HIDE DEF c, q
<1>4. ~Opens(c) /\ c.op # "resume" /\ c.op # "start"
  BY <1>1 DEF Opens
<1>5. /\ SameKnowing(receiver, receiver') /\ receiver'.timeline = receiver.timeline
      /\ receiver'.pauseAfter = receiver.pauseAfter
      /\ Sound(receiver') /\ ~receiver'.active /\ receiver'.total = receiver.total
  <2>1. Sound(receiver)
    BY DEF Good, Types
  <2> QED BY <1>1, <2>1, StoppedSound, ContextChanges
<1>6. Types'
  BY <1>1, <1>3, <1>5 DEF Good, Types
<1>7. Commanding'
  BY <1>1, <1>5, ReceiverDropsCommand DEF q
<1>8. Agreement(timeline, toSender, hold, reached, receiver.timeline, q, receiver'.active)
  <2>1. Plan(receiver.timeline, q) = Plan(receiver.timeline, toReceiver)
    BY <1>1, <1>2, <1>4, PlanTail DEF Good, Types, c, q
  <2> QED BY <1>3, <1>5, <2>1, AgreementTaken DEF Good, Agreeing
<1>9. Pausing(manager, timeline, toSender, hold, q, receiver.pauseAfter)
  BY <1>3, PausingTaken DEF Good, Agreeing
<1>10. Agreeing'
  BY <1>1, <1>5, <1>8, <1>9 DEF Agreeing
<1>11. Doomed(toSender, reached, toReceiver, now) => Doomed(toSender, reached, q, now)
  BY <1>3, <1>4 DEF Doomed
<1>12. Delivering' /\ Safe'
  BY <1>1, <1>5, <1>11, KnowledgeKept
<1> QED BY <1>6, <1>7, <1>10, <1>12 DEF Good

(* Types, orders and plans when the receiver keeps its course.             *)
LEMMA CourseKept ==
    ASSUME Good, Sound(receiver'), receiver'.total = receiver.total,
           receiver'.timeline = receiver.timeline,
           receiver'.pauseAfter = receiver.pauseAfter,
           receiver'.active => receiver.active,
           UNCHANGED <<senderVars, manager, toSender, toReceiver, skew, network>>,
           late' \in BOOLEAN
    PROVE  Types' /\ Commanding' /\ Agreeing'
<1> USE DEF senderVars
<1>1. Types'
  BY DEF Good, Types
<1>2. Commanding'
  BY DEF Good, Commanding
<1>3. Agreement(timeline, toSender, hold, reached, receiver.timeline, toReceiver,
          receiver'.active)
  BY AgreementTaken DEF Good, Agreeing
<1>4. Agreeing'
  BY <1>3 DEF Good, Agreeing
<1> QED BY <1>1, <1>2, <1>4

(* The deadline of the receiver passes.                                    *)
LEMMA TimeoutKeepsGood ==
    ASSUME Good, Timeout PROVE Good'
<1> USE DEF senderVars, receiverVars
<1>1. /\ UNCHANGED <<senderVars, manager, toSender, toReceiver, skew, inbox, late,
             unsafe, network>>
      /\ receiver' = TimedOut(receiver) /\ Expired(receiver, LocalTime)
  BY DEF Timeout
<1>2. receiver' = Ticked(receiver, LocalTime)
  BY <1>1 DEF Ticked
<1>3. Sound(receiver)
  BY DEF Good, Types
<1>4. Sound(receiver') /\ Settles(receiver, receiver')
  BY <1>2, <1>3, TickedSound
<1>5. /\ SameKnowing(receiver, receiver') /\ receiver'.timeline = receiver.timeline
      /\ receiver'.pauseAfter = receiver.pauseAfter
  BY <1>1, <1>3, ContextChanges
<1>6. receiver'.total = receiver.total /\ (receiver'.active => receiver.active)
  BY <1>4 DEF Settles
<1>7. late' \in BOOLEAN
  BY <1>1 DEF Good, Types
<1>8. Types' /\ Commanding' /\ Agreeing'
  BY <1>1, <1>4, <1>5, <1>6, <1>7, CourseKept
<1>9. Delivering' /\ Safe'
  BY <1>1, <1>5, KnowledgeKept
<1> QED BY <1>8, <1>9 DEF Good

(* A datagram arrives and is stamped.                                      *)
LEMMA ArriveKeepsGood ==
    ASSUME Good, NEW dg \in network, Arrive(dg) PROVE Good'
<1> USE DEF senderVars, receiverVars
<1>1. /\ UNCHANGED <<senderVars, manager, toSender, toReceiver, skew,
             receiver, unsafe, network>>
      /\ inbox' = <<[dg |-> dg, recv |-> LocalTime]>>
      /\ late' = \E k \in disclosed : k >= dg.interval
  BY DEF Arrive
<1>2. /\ late' \in BOOLEAN /\ inbox' # <<>>
      /\ Head(inbox').dg = dg /\ Head(inbox').recv = LocalTime
  BY <1>1
<1>3. /\ now \in Int /\ skew \in Int /\ LocalTime = now + skew /\ LocalTime \in Int
      /\ dg \in Datagrams(TotalPacketCount)
  BY ContextAssumption DEF Good, Types, LocalTime
<1>4. dg.interval \in Nat
  BY <1>3, DatagramPlan, TeslaAssumption
<1>5. Types'
  BY <1>1, <1>2 DEF Good, Types
<1>6. Commanding' /\ Agreeing' /\ Safe'
  BY <1>1 DEF Good, Commanding, Agreeing, Safe
<1>7. Disclosing(timeline, sending, hold, reached, disclosed, network, inbox', now)
  BY DEF Good, Delivering, Disclosing
<1>8. Stamped(inbox', late', timeline, disclosed, receiver.keys, network, now, skew)
  <2>1. late' => \E k \in disclosed :
          /\ k >= dg.interval
          /\ Begun(timeline, k + DisclosureDelay, LocalTime - skew)
    <3>1. LocalTime - skew = now
      BY <1>3
    <3> QED BY <1>1, <3>1 DEF Good, Delivering, Disclosing
  <2>2. ~late' => \A k \in receiver.keys : k < dg.interval
    <3> SUFFICES ASSUME ~late', NEW k \in receiver.keys PROVE k < dg.interval
      OBVIOUS
    <3>1. PICK j \in disclosed : k <= j
      BY DEF Good, Delivering, Learned
    <3>2. j \in Nat /\ ~(j >= dg.interval)
      BY <1>1 DEF Good, Types
    <3>3. k \in Nat
      <4>1. receiver.keys \subseteq 1 .. DataIntervalCount(receiver.total)
        BY DEF Good, Types, Sound, Ranges
      <4> QED BY <4>1
    <3> QED BY <1>4, <3>1, <3>2, <3>3
  <2> QED BY <1>2, <1>3, <2>1, <2>2 DEF Stamped
<1>9. Delivering'
  BY <1>1, <1>7, <1>8 DEF Good, Delivering
<1> QED BY <1>5, <1>6, <1>9 DEF Good

(* The heart of the argument: a late packet that the receiver takes for    *)
(* safe (bIsPacketTimeSafe) means a doomed command. The key was disclosed  *)
(* in an interval the sender had reached; so either the receiver holds     *)
(* that interval back by a pause the sender passed and is yet to be told   *)
(* of, or it reckons with a timeline of fewer or other segments than the   *)
(* sender, and a resume it is yet to take has already begun.               *)
LEMMA LateMeansDoomed ==
    ASSUME Good, receiver.active, inbox # <<>>, late,
           IsPacketTimeSafe(receiver, Head(inbox).dg.interval, Head(inbox).recv)
    PROVE  Doomed(toSender, reached, toReceiver, now)
<1> DEFINE i == Head(inbox).dg.interval
           recv == Head(inbox).recv
           line == receiver.timeline
           after == receiver.pauseAfter
           d == DisclosureDelay
           seg == SegmentOf(line, i + d)
<1>1. /\ i \in Nat \ {0} /\ recv \in Int /\ recv <= now + skew
      /\ now \in Nat /\ skew \in Int /\ -ClockTolerance <= skew
      /\ skew <= ClockTolerance
      /\ ClockTolerance \in Nat /\ d \in Nat \ {0} /\ after \in Nat
      /\ hold \in Nat /\ reached \in Nat
  <2>1. Head(inbox).dg \in network /\ recv \in Int /\ recv <= now + skew
    BY DEF Good, Delivering, Stamped
  <2>2. i \in Nat \ {0}
    BY <2>1, DatagramPlan, TeslaAssumption DEF Good, Types
  <2> QED BY <2>1, <2>2, RoundAssumption, ContextAssumption DEF Good, Types
<1>2. PICK k \in disclosed : k >= i /\ Begun(timeline, k + d, recv - skew)
  BY DEF Good, Delivering, Stamped
<1>3. k \in Nat /\ k + d <= reached /\ k + d \in Nat /\ i + d <= k + d
          /\ i + d \in Nat \ {0}
  <2>1. k \in Nat /\ k + d <= reached
    BY DEF Good, Types, Delivering, Disclosing
  <2> QED BY <1>1, <1>2, <2>1
<1>4. /\ line \in Seq(Segments) /\ line # <<>> /\ Sorted(line)
      /\ Parts(line) \subseteq Segments
  <2>1. line \in Seq(Segments) /\ line # <<>>
    BY DEF Good, Types, Sound, Ranges, Segments
  <2> QED BY <2>1, PartsType DEF Good, Commanding, Sequenced
<1>5. /\ seg \in Parts(line) /\ seg.first <= i + d
      /\ \A x \in Parts(line) : x.first <= i + d => x.first <= seg.first
  BY <1>3, <1>4, SegmentCovers
<1>6. seg \in Segments /\ seg.first \in Nat /\ seg.ts \in Nat
  BY <1>4, <1>5 DEF Segments
<1>7. /\ timeline # <<>> /\ (hold # 0 => reached <= hold)
  BY DEF Good, Delivering, Disclosing
<1>8. /\ HeldByPause(line, after, i + d) \/ recv + ClockTolerance < IntervalStartTimestamp(line, i + d)
      /\ IntervalStartTimestamp(line, i + d) = StartIn(seg, i + d)
      /\ HeldByPause(line, after, i + d) => after # 0 /\ i + d > after /\ seg.first <= after
  BY DEF IsPacketTimeSafe, HeldByPause, IntervalStartTimestamp, StartIn
<1>9. Orders(toSender) \subseteq Commands /\ Orders(toReceiver) \subseteq Commands
  BY OrdersType DEF Good, Types
<1> HIDE DEF seg, i, recv, line, after, d
<1>10. ASSUME NEW j \in Nat, j < i + d, j # 0, Held(j, hold, toSender)
       PROVE  Doomed(toSender, reached, toReceiver, now)
  <2>1. j < reached
    BY <1>1, <1>3, <1>10
  <2>2. hold # j
    BY <1>1, <1>7, <1>10, <2>1
  <2> QED BY <1>10, <2>1, <2>2 DEF Held, Doomed
<1>11. CASE after # 0 /\ i + d > after /\ seg.first <= after
  <2>1. Known(after, hold, toSender, timeline)
    BY <1>11 DEF Good, Agreeing, Pausing, after
  <2>2. CASE Held(after, hold, toSender)
    BY <1>1, <1>3, <1>10, <1>11, <2>2
  <2>3. CASE ~Held(after, hold, toSender)
    <3>1. PICK y \in Parts(timeline) : y.first = after + 1
      BY <2>1, <2>3 DEF Known
    <3>2. y \in Segments /\ y.ts \in Nat /\ y.first \in Nat
      BY PartsType DEF Good, Types, Segments
    <3>3. y.first <= i + d /\ y.first <= k + d
      BY <1>1, <1>3, <1>11, <3>1
    <3>4. y \in Plan(line, toReceiver)
      BY DEF Good, Agreeing, Agreement, Plan, line
    <3>5. y \notin Parts(line)
      BY <1>1, <1>5, <1>6, <1>11, <3>1, <3>3
    <3>6. PICK c \in Orders(toReceiver) : Opens(c) /\ y = Opened(c)
      BY <3>4, <3>5, OrdersType DEF Good, Types, Plan
    <3>7. y.first = c.interval /\ y.ts = c.ts
      BY <1>9, <3>6, CommandTypes
    <3>8. c.op = "resume"
      <4>1. c.op = "start" => c.interval = 1
        BY DEF Good, Commanding, Sequenced
      <4> QED BY <1>1, <1>11, <3>1, <3>6, <3>7, <4>1 DEF Opens
    <3>9. y.ts <= now
      <4>1. StartIn(y, k + d) <= recv - skew
        BY <1>2, <3>3 DEF Begun
      <4>2. /\ StartIn(y, y.first) <= StartIn(y, k + d) /\ StartIn(y, y.first) = y.ts
            /\ StartIn(y, k + d) \in Int
        BY <1>3, <3>2, <3>3, StartInGrows
      <4> QED BY <1>1, <3>2, <4>1, <4>2
    <3> QED BY <3>7, <3>8, <3>9 DEF Doomed
  <2> QED BY <2>2, <2>3
<1>12. CASE recv + ClockTolerance < StartIn(seg, i + d)
  <2>1. /\ StartIn(seg, i + d) <= StartIn(seg, k + d)
        /\ StartIn(seg, i + d) \in Int /\ StartIn(seg, k + d) \in Int
    BY <1>3, <1>6, StartInGrows
  <2>2. seg.first <= k + d
    BY <1>3, <1>5, <1>6
  <2>3. seg \notin Parts(timeline)
    <3> SUFFICES ASSUME seg \in Parts(timeline) PROVE FALSE
      OBVIOUS
    <3>1. StartIn(seg, k + d) <= recv - skew
      BY <1>2, <2>2 DEF Begun
    <3> QED BY <1>1, <1>12, <2>1, <3>1
  <2>4. seg \in Plan(timeline, toSender) \/ Refused(seg, timeline, toSender, hold, reached)
    BY <1>5 DEF Good, Agreeing, Agreement, Plan, line
  <2>5. ~Refused(seg, timeline, toSender, hold, reached)
    <3>1. seg.first <= reached
      BY <1>1, <1>3, <1>6, <2>2
    <3> QED BY <1>1, <1>6, <3>1 DEF Refused
  <2>6. PICK c \in Orders(toSender) : Opens(c) /\ seg = Opened(c)
    BY <2>3, <2>4, <2>5, OrdersType DEF Good, Types, Plan
  <2>7. seg.first = c.interval /\ c.interval \in Nat
    BY <1>9, <2>6, CommandTypes
  <2>8. c.op = "resume" /\ c.interval > 1
    <3>1. c.op # "stop"
      BY <2>6 DEF Opens
    <3>2. timeline[1] \in Parts(timeline) /\ timeline[1].first = 1
      BY <1>7, PartsType DEF Good, Types, Commanding, Sequenced, Sorted
    <3>3. timeline[1].first < c.interval
      BY <3>1, <3>2 DEF Good, Commanding, Sequenced
    <3>4. c.op = "start" => c.interval = 1
      BY DEF Good, Commanding, Sequenced
    <3> QED BY <2>6, <2>7, <3>2, <3>3, <3>4 DEF Opens
  <2>9. Held(c.interval - 1, hold, toSender)
    BY <2>8 DEF Good, Agreeing, Pausing
  <2>10. c.interval - 1 \in Nat /\ c.interval - 1 # 0 /\ c.interval - 1 < i + d
    BY <1>3, <1>5, <2>7, <2>8
  <2> QED BY <1>10, <2>9, <2>10
<1> QED BY <1>8, <1>11, <1>12

(* The worker takes the datagram from the inbox.                           *)
LEMMA ProcessKeepsGood ==
    ASSUME Good, Process PROVE Good'
<1> USE DEF senderVars, receiverVars
<1> DEFINE dg == Head(inbox).dg
           recv == Head(inbox).recv
           t == Processed(receiver, dg, "genuine", recv)
           b == WithBaseline(receiver, dg.packet, "genuine")
           Taught(u) == Learns(u, t, {}) \/ (dg.key # 0 /\ Learns(u, t, 1 .. dg.key))
           Stored == /\ receiver.active /\ dg.packet \in Slots(receiver)
                     /\ IsPacketTimeSafe(receiver, dg.interval, recv)
                     /\ receiver.baseline[dg.packet].copy = "none"
                     /\ Sound(b)
                     /\ Taught(b)
<1>1. /\ inbox # <<>>
      /\ UNCHANGED <<senderVars, manager, toSender, toReceiver, skew, network>>
      /\ receiver' = Ticked(t, LocalTime)
      /\ inbox' = <<>> /\ late' = FALSE
      /\ unsafe' = IF /\ dg.packet # 0 /\ late
                      /\ receiver'.baseline # receiver.baseline
                      /\ receiver.baseline[dg.packet] = NoPacket
                      /\ receiver'.baseline[dg.packet] # NoPacket
                   THEN unsafe \cup {dg.packet} ELSE unsafe
  BY DEF Process
<1>2. /\ Sound(receiver) /\ receiver.total = TotalPacketCount
      /\ dg \in Datagrams(receiver.total) /\ dg \in network
  BY <1>1 DEF Good, Types, Delivering, Stamped
<1>3. /\ dg.interval \in Nat \ {0} /\ dg.key \in Nat
      /\ dg.packet # 0 => IntervalOfPacket(dg.packet) = dg.interval
  BY <1>2, DatagramPlan, TeslaAssumption
<1>4. Sound(t) /\ Settles(receiver, t)
  BY <1>2, <1>3, ProcessedSound
<1>5. Taught(receiver) \/ Stored
  BY <1>2, ProcessedLearns
<1>6. /\ Stored => /\ Carries(receiver, b) /\ b.keys = receiver.keys
                   /\ b.verified = receiver.verified
                   /\ \A q \in Slots(receiver) :
                        b.baseline[q] = IF q = dg.packet
                                        THEN [copy |-> "genuine", status |-> "Pending"]
                                        ELSE receiver.baseline[q]
  BY <1>2, WithBaselineFields
<1> HIDE DEF t, b, dg, recv
<1>7. /\ Carries(receiver, t)
      /\ t.keys = receiver.keys \/ (dg.key # 0 /\ t.keys = receiver.keys \cup (1 .. dg.key))
      /\ receiver.verified = receiver.keys => t.verified = t.keys
  BY <1>5, <1>6 DEF Learns, Carries
<1>8. Sound(receiver') /\ Settles(t, receiver')
  BY <1>1, <1>4, TickedSound
<1>9. SameKnowing(t, receiver') /\ Carries(t, receiver')
  <2>1. receiver' = t \/ receiver' = TimedOut(t)
    BY <1>1 DEF Ticked
  <2> QED BY <1>4, <2>1, ContextChanges DEF SameKnowing, Carries
<1>10. receiver'.active => receiver.active
  BY <1>4, <1>8 DEF Settles
<1>11. Types' /\ Commanding' /\ Agreeing'
  BY <1>1, <1>7, <1>8, <1>9, <1>10, CourseKept DEF Carries
<1>12. Delivering'
  <2>1. Disclosing(timeline, sending, hold, reached, disclosed, network, inbox', now)
    BY <1>1 DEF Good, Delivering, Disclosing
  <2>2. Stamped(inbox', late', timeline, disclosed, receiver'.keys, network, now, skew)
    BY <1>1 DEF Stamped
  <2>3. Learned(t, disclosed)
    <3>1. t.verified = t.keys
      BY <1>7 DEF Good, Delivering, Learned
    <3>2. \A k \in t.keys : \E j \in disclosed : k <= j
      <4>1. dg.key # 0 => dg.key \in disclosed
        BY <1>2 DEF Good, Delivering, Disclosing
      <4>2. \A k \in 1 .. dg.key : k <= dg.key
        BY <1>3
      <4> QED BY <1>7, <4>1, <4>2 DEF Good, Delivering, Learned
    <3> QED BY <3>1, <3>2 DEF Learned
  <2>4. Learned(receiver', disclosed)
    BY <1>9, <2>3, SameKnowingKeeps
  <2> QED BY <1>1, <2>1, <2>2, <2>4 DEF Delivering
<1>13. ASSUME ~Doomed(toSender, reached, toReceiver, now)
       PROVE  unsafe' = {} /\ Settled(receiver')
  <2>1. unsafe = {} /\ Settled(receiver)
    BY <1>13 DEF Good, Safe
  <2>2. Stored => ~late
    BY <1>1, <1>13, LateMeansDoomed DEF dg, recv
  <2>3. Settled(t)
    <3>1. Taught(receiver) => Settled(t)
      BY <2>1, LearnsSettled
    <3>2. CASE Stored
      <4>1. dg.interval \notin receiver.verified
        <5>1. \A k \in receiver.keys : k < dg.interval
          BY <1>1, <2>2, <3>2 DEF Good, Delivering, Stamped, dg
        <5> QED BY <1>3, <5>1 DEF Good, Delivering, Learned
      <4>2. Settled(b)
        <5>1. Slots(b) = Slots(receiver)
          BY <1>6, <3>2 DEF Carries, Slots
        <5>2. IntervalOfPacket(dg.packet) = dg.interval
          <6>1. dg.packet # 0
            BY <3>2 DEF Slots
          <6> QED BY <1>3, <6>1
        <5> QED BY <1>6, <2>1, <3>2, <4>1, <5>1, <5>2 DEF Settled
      <4> QED BY <3>2, <4>2, LearnsSettled
    <3> QED BY <1>5, <3>1, <3>2
  <2>4. Settled(receiver')
    BY <1>9, <2>3, SameKnowingKeeps
  <2>5. unsafe' = unsafe
    <3> SUFFICES ASSUME dg.packet # 0, late,
                        receiver'.baseline # receiver.baseline,
                        receiver.baseline[dg.packet] = NoPacket,
                        receiver'.baseline[dg.packet] # NoPacket
                 PROVE  FALSE
      BY <1>1
    <3>1. Taught(receiver)
      BY <1>5, <2>2
    <3>2. dg.packet \in Slots(receiver)
      BY <1>2, DatagramPlan, TeslaAssumption DEF Slots
    <3>3. t.baseline[dg.packet] = receiver.baseline[dg.packet]
      <4>1. receiver.baseline[dg.packet].copy = "none"
        BY DEF NoPacket
      <4> QED BY <3>1, <3>2, <4>1 DEF Learns, SlotJudged
    <3> QED BY <1>9, <3>3 DEF SameKnowing
  <2> QED BY <2>1, <2>4, <2>5
<1>14. Safe'
  BY <1>1, <1>13 DEF Safe
<1> QED BY <1>11, <1>12, <1>14 DEF Good

-----------------------------------------------------------------------------
(* Nothing is planned, sent or learned in the initial states.              *)
LEMMA RoundInvInit == Init => RoundInv
<1> SUFFICES ASSUME Init PROVE Good
  BY DEF RoundInv
<1>1. /\ now = 0 /\ sending = FALSE /\ timeline = <<>> /\ hold = 0 /\ reached = 0
      /\ disclosed = {}
      /\ toSender = <<>> /\ toReceiver = <<>> /\ network = {} /\ inbox = <<>>
      /\ late = FALSE /\ unsafe = {}
  BY DEF Init, Sender!Init
<1>2. /\ manager \in Managers /\ ~manager.running /\ ~manager.paused
      /\ manager.first = 1 /\ manager.start = 0
  BY DEF Init, Managers
<1>3. /\ receiver = Unstarted(TotalPacketCount)
      /\ Sound(receiver) /\ ~receiver.active /\ receiver.total = TotalPacketCount
  BY TeslaAssumption, UnstartedSound DEF Init
<1>4. /\ receiver.timeline = <<>> /\ receiver.pauseAfter = 0
      /\ receiver.keys = {} /\ receiver.verified = {}
      /\ receiver.baseline = [p \in 1 .. TotalPacketCount |-> NoPacket]
  BY <1>3 DEF Unstarted
<1>5. skew \in -ClockTolerance .. ClockTolerance
  BY TeslaAssumption DEF Init
<1>6. Types
  <2>1. timeline \in Seq(Segments) /\ toSender \in Seq(Commands)
            /\ toReceiver \in Seq(Commands)
    BY <1>1
  <2>2. now \in Nat /\ sending \in BOOLEAN /\ hold \in Nat /\ reached \in Nat
    BY <1>1
  <2>3. disclosed \subseteq Nat /\ late \in BOOLEAN
            /\ network \subseteq Datagrams(TotalPacketCount)
    BY <1>1
  <2>4. receiver.pauseAfter \in Nat
    BY <1>4
  <2> QED BY <1>2, <1>3, <1>5, <2>1, <2>2, <2>3, <2>4 DEF Types
<1>7. /\ Orders(toSender) = {} /\ Orders(toReceiver) = {}
      /\ Plan(timeline, toSender) = {} /\ Plan(receiver.timeline, toReceiver) = {}
      /\ Ordered(toSender) /\ Ordered(toReceiver)
      /\ Parts(timeline) = {} /\ Parts(receiver.timeline) = {}
  BY <1>1, <1>4, NoOrders DEF Plan
<1>8. Sorted(timeline) /\ Sorted(receiver.timeline)
  BY <1>1, <1>4 DEF Sorted
<1>9. Commanding
  <2>1. Coordinated(manager)
    BY <1>2 DEF Coordinated
  <2>2. Issued(manager, timeline, toSender)
    BY <1>1, <1>2, <1>7 DEF Issued
  <2>3. Issued(manager, receiver.timeline, toReceiver)
    BY <1>1, <1>2, <1>4, <1>7 DEF Issued
  <2>4. Sequenced(timeline, toSender) /\ Sequenced(receiver.timeline, toReceiver)
    BY <1>7, <1>8 DEF Sequenced
  <2>5. Spaced(manager, Plan(timeline, toSender))
    BY <1>7 DEF Spaced
  <2> QED BY <2>1, <2>2, <2>3, <2>4, <2>5 DEF Commanding
<1>10. Agreeing
  BY <1>2, <1>4, <1>7 DEF Agreeing, Agreement, Pausing
<1>11. Delivering
  <2>1. Disclosing(timeline, sending, hold, reached, disclosed, network, inbox, now)
    BY <1>1 DEF Disclosing
  <2>2. Stamped(inbox, late, timeline, disclosed, receiver.keys, network, now, skew)
    BY <1>1 DEF Stamped
  <2>3. Learned(receiver, disclosed)
    BY <1>4 DEF Learned
  <2> QED BY <2>1, <2>2, <2>3 DEF Delivering
<1>12. Safe
  BY <1>1, <1>4 DEF Safe, Settled
<1> QED BY <1>6, <1>9, <1>10, <1>11, <1>12 DEF Good

(* A step that changes nothing.                                            *)
LEMMA StutteringKeepsGood ==
    ASSUME Good, UNCHANGED vars PROVE Good'
<1>1. UNCHANGED <<now, sending, timeline, hold, reached, disclosed, manager, toSender,
                  toReceiver, skew, receiver, inbox, late, unsafe, network>>
  BY DEF vars, senderVars, receiverVars
<1>2. Types' /\ Commanding'
  BY <1>1 DEF Good, Types, Commanding
<1>3. Agreeing' /\ Delivering' /\ Safe'
  BY <1>1 DEF Good, Agreeing, Delivering, Safe
<1> QED BY <1>2, <1>3 DEF Good

(* Nodes that have split stay so.                                          *)
LEMMA SplitStays ==
    ASSUME split, [Next]_vars PROVE split'
<1>1. CASE UNCHANGED vars
  BY <1>1 DEF vars
<1>2. CASE StartRound
  BY <1>2 DEF StartRound, Broadcast
<1>3. ASSUME NEW up \in SUBSET Nodes,
             PauseRound(up) \/ ResumeRound(up) \/ StopRound(up) \/ StartFails(up)
      PROVE  split'
  BY <1>3 DEF PauseRound, ResumeRound, StopRound, StartFails, Broadcast
<1>4. CASE SenderStarts \/ SenderPauses \/ SenderMissesPause \/ SenderResumes
           \/ SenderStops \/ SenderSends \/ SenderAdvances
  BY <1>4 DEF SenderStarts, SenderPauses, SenderMissesPause, SenderResumes,
              SenderStops, SenderSends, SenderAdvances
<1>5. CASE ReceiverStarts \/ ReceiverPauses \/ ReceiverResumes \/ ReceiverStops
  BY <1>5 DEF ReceiverStarts, ReceiverPauses, ReceiverResumes, ReceiverStops
<1>6. ASSUME NEW dg \in network, Arrive(dg) PROVE split'
  BY <1>6 DEF Arrive
<1>7. CASE Process \/ Timeout \/ Tick
  BY <1>7 DEF Process, Timeout, Tick
<1> QED BY <1>1, <1>2, <1>3, <1>4, <1>5, <1>6, <1>7 DEF Next

(* Every step keeps the invariant; a broadcast that misses a node, a       *)
(* missed pause and a refused resume set split.                            *)
LEMMA RoundInvNext == RoundInv /\ [Next]_vars => RoundInv'
<1> SUFFICES ASSUME Good, [Next]_vars, ~split' PROVE Good'
  BY SplitStays DEF RoundInv
<1>1. CASE UNCHANGED vars
  BY <1>1, StutteringKeepsGood
<1>2. CASE StartRound
  BY <1>2, StartRoundKeepsGood
<1>3. ASSUME NEW up \in SUBSET Nodes, PauseRound(up) PROVE Good'
  <2>1. up = Nodes
    BY <1>3 DEF PauseRound, Broadcast
  <2> QED BY <1>3, <2>1, PauseRoundKeepsGood
<1>4. ASSUME NEW up \in SUBSET Nodes, ResumeRound(up) PROVE Good'
  <2>1. up = Nodes
    BY <1>4 DEF ResumeRound, Broadcast
  <2> QED BY <1>4, <2>1, ResumeRoundKeepsGood
<1>5. ASSUME NEW up \in SUBSET Nodes, StopRound(up) PROVE Good'
  <2>1. up = Nodes
    BY <1>5 DEF StopRound, Broadcast
  <2> QED BY <1>5, <2>1, StopRoundKeepsGood
<1>6. ASSUME NEW up \in SUBSET Nodes, StartFails(up) PROVE Good'
  BY <1>6 DEF StartFails
<1>7. CASE SenderStarts
  BY <1>7, SenderStartsKeepsGood
<1>8. CASE SenderPauses
  BY <1>8, SenderPausesKeepsGood
<1>9. CASE SenderMissesPause
  BY <1>9 DEF SenderMissesPause
<1>10. CASE SenderResumes
  BY <1>10, SenderResumesKeepsGood
<1>11. CASE SenderStops
  BY <1>11, SenderStopsKeepsGood
<1>12. CASE SenderSends
  BY <1>12, SenderSendsKeepsGood
<1>13. CASE SenderAdvances
  BY <1>13, SenderAdvancesKeepsGood
<1>14. CASE ReceiverStarts
  BY <1>14, ReceiverStartsKeepsGood
<1>15. CASE ReceiverPauses
  BY <1>15, ReceiverPausesKeepsGood
<1>16. CASE ReceiverResumes
  BY <1>16, ReceiverResumesKeepsGood
<1>17. CASE ReceiverStops
  BY <1>17, ReceiverStopsKeepsGood
<1>18. ASSUME NEW dg \in network, Arrive(dg) PROVE Good'
  BY <1>18, ArriveKeepsGood
<1>19. CASE Process
  BY <1>19, ProcessKeepsGood
<1>20. CASE Timeout
  BY <1>20, TimeoutKeepsGood
<1>21. CASE Tick
  BY <1>21, TickKeepsGood
<1> QED BY <1>1, <1>2, <1>3, <1>4, <1>5, <1>6, <1>7, <1>8, <1>9, <1>10, <1>11,
           <1>12, <1>13, <1>14, <1>15, <1>16, <1>17, <1>18, <1>19, <1>20, <1>21
        DEF Next

(* Nodes that agree have empty queues, in which nothing is doomed.         *)
LEMMA AgreedNotDoomed ==
    ASSUME RoundInv, Agreed
    PROVE  Good /\ unsafe = {} /\ Settled(receiver)
<1>1. Good
  BY DEF RoundInv, Agreed
<1>2. Orders(toSender) = {} /\ Orders(toReceiver) = {}
  BY NoOrders DEF Agreed
<1>3. ~Doomed(toSender, reached, toReceiver, now)
  BY <1>2 DEF Doomed
<1> QED BY <1>1, <1>3 DEF Good, Safe

(* The invariant implies the security condition of TESLA ...               *)
LEMMA RoundInvSafe == RoundInv => SafeWhileAgreed
BY AgreedNotDoomed DEF SafeWhileAgreed, StoredBeforeDisclosure

(* ... and that no packet waits behind a known key.                        *)
LEMMA RoundInvSettled == RoundInv => NothingPendingBehindKey
<1> SUFFICES ASSUME RoundInv, Agreed, NEW p \in Slots(receiver),
                    receiver.baseline[p] # NoPacket,
                    receiver.baseline[p].status = "Pending"
             PROVE  IntervalOfPacket(p) \notin receiver.keys
  BY DEF NothingPendingBehindKey
<1>1. Good /\ Settled(receiver)
  BY AgreedNotDoomed
<1>2. receiver.verified = receiver.keys
  BY <1>1 DEF Good, Delivering, Learned
<1>3. receiver.baseline[p].copy # "none"
  BY <1>1 DEF Good, Types, Sound, Shape, NoPacket
<1> QED BY <1>1, <1>2, <1>3 DEF Settled

(* Every state of a round satisfies the invariant, whatever the network,   *)
(* the clocks within the tolerance and the command connections do.         *)
THEOREM RoundInvariant == Spec => []RoundInv
<1>1. Init => RoundInv
  BY RoundInvInit
<1>2. RoundInv /\ [Next]_vars => RoundInv'
  BY RoundInvNext
<1> QED BY <1>1, <1>2, PTL DEF Spec

(* The security condition of TESLA: while sender and receiver agree on the *)
(* pauses and no command is under way, every packet the receiver stored    *)
(* arrived before the sender had disclosed its key (bIsPacketTimeSafe).    *)
THEOREM SafeWhileAgreedHolds == Spec => []SafeWhileAgreed
<1>1. RoundInv => SafeWhileAgreed
  BY RoundInvSafe
<1> QED BY <1>1, RoundInvariant, PTL

(* While they agree, a key the receiver has learned has given a verdict to *)
(* every stored packet of its interval (setVerifiedIntervals).             *)
THEOREM NothingPendingHolds == Spec => []NothingPendingBehindKey
<1>1. RoundInv => NothingPendingBehindKey
  BY RoundInvSettled
<1> QED BY <1>1, RoundInvariant, PTL
=============================================================================
