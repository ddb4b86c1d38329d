----------------------------- MODULE LinkProofs -----------------------------
(***************************************************************************)
(* What holds on the links between the processes, for every limit, file    *)
(* and timeout: the datagrams of a round reach the socket, a file arrives  *)
(* whole, a node that lives is not given up, and a Monitor misses no       *)
(* metric but those a full queue or store gives up.  The four parts share  *)
(* no variable, so each invariant below is kept by the steps of its own    *)
(* part and untouched by the others.                                       *)
(*                                                                         *)
(* The last part is about the links between the Manager and the            *)
(* participants of its rounds (ManagerRound): a round starts on what its   *)
(* participants hold, and ends by itself when they owe nothing.            *)
(***************************************************************************)
EXTENDS MCLinks, ManagerRound, FiniteSetTheorems, SequenceTheorems, WellFoundedInduction, TLAPS

-----------------------------------------------------------------------------
(* An element of a sequence.                                                *)
Holds(s, x) == \E i \in DOMAIN s : s[i] = x

(***************************************************************************)
(* The send path of a PC node.                                             *)
(***************************************************************************)
Calls == [call : {"drain", "result"}, round : Nat,
          status : {"none", "Completed", "Stopped", "Failed"}]

SendTyping ==
    /\ running \in BOOLEAN /\ sendScheduled \in BOOLEAN /\ fault \in BOOLEAN
    /\ sendClient \in BOOLEAN /\ closes \in Nat
    /\ queue \in Seq(Nat \X Nat)
    /\ posted \in Seq(Calls)
    /\ main \in [at : {"idle", "closing", "writing"}, batch : Seq(Nat \X Nat), more : BOOLEAN]
    /\ worker \in [at : {"idle", "sending", "posting"}, round : Nat, sent : Nat,
                   failed : BOOLEAN]
    /\ told \in [SendPath!Rounds -> {"none", "Completed", "Stopped", "Failed"}]

(* The first n datagrams of round r are written or on their way.            *)
Accounted(r, n) ==
    \A i \in 1 .. n :
        <<r, i>> \in written \/ Holds(queue, <<r, i>>) \/ Holds(main.batch, <<r, i>>)

(* The flag is set while something is queued, and a drain is due while it   *)
(* is set: the worker and the main thread hand this duty to one another.    *)
DutyHeld ==
    /\ queue # <<>> => sendScheduled
    /\ sendScheduled => SendPath!DrainIsDue

(* A client is there only while the node runs, and a round goes on only     *)
(* while there is a client or the node is being closed.                     *)
ClientHeld ==
    /\ sendClient => running
    /\ main.at = "closing" => ~sendClient
    /\ main.at # "writing" => main.batch = <<>>
    /\ worker.at # "idle" => sendClient \/ main.at = "closing"

(* A fault of the queue is noted, or was noted for round r and is wiped.    *)
FaultOf(r) == fault \/ r \in wiped

(* What a connected client may hear: a round that was sent so far, and one  *)
(* whose result is posted, is accounted for unless there was a fault.       *)
RoundsAccounted ==
    /\ worker.at # "idle" /\ sendClient
          => FaultOf(worker.round) \/ Accounted(worker.round, worker.sent)
    /\ \A c \in Calls :
          Holds(posted, c) /\ c.status = "Completed" /\ sendClient
              => FaultOf(c.round) \/ Accounted(c.round, Packets)
    /\ \A r \in SendPath!Rounds \ wiped :
          told[r] = "Completed" => {r} \X (1 .. Packets) \subseteq written

SendInv == SendTyping /\ DutyHeld /\ ClientHeld /\ RoundsAccounted

-----------------------------------------------------------------------------
(***************************************************************************)
(* The upload of a file.                                                   *)
(***************************************************************************)
Frames == [frame : {"hello", "begin", "chunk", "end"}, req : Nat, index : Nat]

Sessions == [active : BOOLEAN, req : Nat, next : Nat \ {0}, data : Seq(Nat \X Nat)]

ClientStates ==
    [at : {"none", "connected", "leaving", "removed"}, hello : BOOLEAN,
     session : Sessions, preparing : BOOLEAN]

Threads ==
    [at : {"none", "running", "posted"}, req : Nat, data : Seq(Nat \X Nat), ok : BOOLEAN]

Uploads == [req : Nat, next : 1 .. Chunks + 1]

(* The first n chunks of an upload, as its receiver collects them.          *)
FirstChunks(r, n) == [i \in 1 .. n |-> <<r, i>>]

(* The frames of files in a buffer, as BacklogBounded counts them.          *)
Backlog(s) == ChunkSize * Upload!Count(s, {"chunk"}) + Upload!Count(s, {"end"})

(* A buffer within the limit, a client whose session holds the first chunks *)
(* of its upload in their order, a preparation thread with a whole file.    *)
Buffers == {b \in Seq(Frames) : Backlog(b) <= BacklogLimit}

Clients ==
    {c \in ClientStates :
        c.session.active => c.session.data = FirstChunks(c.session.req, c.session.next - 1)}

Preparations == {t \in Threads : t.at = "running" => t.data = FirstChunks(t.req, Chunks)}

ManagerTyping ==
    /\ state \in {"Disconnected", "Connecting", "Connected"}
    /\ socket \in Upload!Links \cup {0}
    /\ state # "Disconnected" => socket \in Upload!Links
    /\ upload \in Uploads /\ uploadsAsked \in Nat /\ used \in Nat

LinksInOrder ==
    buffer \in [Upload!Links -> Buffers] /\ wire \in [Upload!Links -> Seq(Frames)]

NodeInOrder ==
    client \in [Upload!Links -> Clients] /\ thread \in [Upload!Links -> Preparations]

UploadInv == ManagerTyping /\ LinksInOrder /\ NodeInOrder /\ Upload!AcceptedUploadIsWhole

-----------------------------------------------------------------------------
(***************************************************************************)
(* Discovery.                                                              *)
(***************************************************************************)
EndpointStates ==
    [known : BOOLEAN, score : Int, state : {"Disconnected", "Connecting", "Connected"},
     silent : Nat]

FoundTyping ==
    /\ up \in BOOLEAN /\ upFor \in Nat /\ target \in Nat
    /\ beat \in 0 .. HeartbeatInterval /\ host \in Nat /\ heard \in BOOLEAN
    /\ losses \in 0 .. MaxLosses /\ said \in SUBSET [to : Int, score : Nat]
    /\ endpoint \in EndpointStates
    /\ ~up => upFor = 0
    /\ host = 0 => ~heard

(* The node's heartbeats are meant for this Manager and can reach it.       *)
WithinReach == heard /\ target \in {0, host}

(* Of the time the node has been within reach, the Manager has not heard    *)
(* of it for at most the given time.                                        *)
SilentAtMost(t) == endpoint.silent <= t \/ upFor <= t

(* The Manager has heard of the node since the last heartbeat but for those *)
(* that were lost, or the last heartbeat is still under way.                *)
HeardFrom ==
    WithinReach =>
        \/ SilentAtMost(losses * HeartbeatInterval + HeartbeatInterval - beat)
        \/ /\ beat = HeartbeatInterval /\ \E p \in said : Found!Reaches(p)
           /\ SilentAtMost((losses + 1) * HeartbeatInterval)

FoundInv == FoundTyping /\ HeardFrom

-----------------------------------------------------------------------------
(***************************************************************************)
(* The Monitor.                                                            *)
(***************************************************************************)
Messages == [kind : {"answer", "record", "snapshot", "reset"}, from : Nodes, n : Nat]

WatchedTyping ==
    /\ viewState \in {"Disconnected", "Connecting", "Connected"}
    /\ viewState # "Disconnected" => peer \in Nodes
    /\ opening \in {<<>>, <<"snapshot">>, <<"hello", "snapshot">>}
    /\ sent \in [Nodes -> Nat] /\ queued \in [Nodes -> Seq(Nat)]
    /\ viewWire \in Seq(Messages)
    /\ store = [s \in Watched!Stores |-> store[s]]

(* A node queues what it produces in the order of the numbers.              *)
InOrder(q, k) ==
    /\ \A i \in DOMAIN q : q[i] \in 1 .. k
    /\ \A i, j \in DOMAIN q : i < j => q[i] < q[j]

QueuesInOrder == \A n \in Nodes : InOrder(queued[n], sent[n])

(* The metrics held once j messages of a wire have been read.               *)
MetricsAfter(records, w, j) == records \cup UNION {Watched!Gain(w[i], "metrics") : i \in 1 .. j}

(* All that comes before a record that is held is held or given up.         *)
WithoutHole(records, gone) ==
    \A r \in records : Watched!Records(r[1], 1 .. r[2]) \subseteq records \cup gone

(* What the watched node has produced, and what of it is still queued.      *)
Produced == Watched!Records(peer, 1 .. sent[peer])
StillQueued == {<<peer, k>> : k \in {i \in 1 .. sent[peer] : Holds(queued[peer], i)}}

(* After every message behind the snapshot, what is held is without a hole  *)
(* but for what has been given up.                                          *)
Meets(records, w, gone) ==
    \A j \in 0 .. Len(w) :
        (\A i \in j + 1 .. Len(w) : w[i].kind # "snapshot")
            => WithoutHole(MetricsAfter(records, w, j), gone)

(* Stores and messages are of the node that is watched, and nothing is      *)
(* there before the connection has been opened.                             *)
OnePeer ==
    /\ viewState # "Connected" => viewWire = <<>> /\ opening = <<>>
    /\ viewState # "Disconnected" =>
          /\ \A s \in Watched!Stores : \A r \in store[s] : r[1] = peer
          /\ \A i \in DOMAIN viewWire : viewWire[i].from = peer
    /\ (viewState = "Connecting" \/ opening = <<"hello", "snapshot">>) =>
          store["metrics"] = {} /\ viewWire = <<>>

(* The metrics held and those under way.                                    *)
HeldInAll == MetricsAfter(store["metrics"], viewWire, Len(viewWire))

(* Once the snapshot is under way, each record is held, under way, queued   *)
(* or given up, and the records held and those under way meet.              *)
MetricsMeet ==
    viewState = "Connected" =>
        /\ HeldInAll \subseteq Produced
        /\ opening = <<>> =>
              /\ Produced \subseteq HeldInAll \cup lost \cup StillQueued
              /\ Meets(store["metrics"], viewWire, lost)

WatchedInv == WatchedTyping /\ QueuesInOrder /\ OnePeer /\ MetricsMeet

-----------------------------------------------------------------------------
LinksInv == SendInv /\ UploadInv /\ FoundInv /\ WatchedInv
-----------------------------------------------------------------------------
(***************************************************************************)
(* Facts about the elements of a sequence.                                 *)
(***************************************************************************)
(* An appended element is behind those there were.                          *)
LEMMA HoldsAppend ==
    ASSUME NEW S, NEW s \in Seq(S), NEW e \in S
    PROVE  \A x : Holds(Append(s, e), x) <=> Holds(s, x) \/ x = e
<1> SUFFICES ASSUME NEW x
             PROVE  Holds(Append(s, e), x) <=> Holds(s, x) \/ x = e
  OBVIOUS
<1>1. /\ Len(Append(s, e)) = Len(s) + 1 /\ Len(s) \in Nat
      /\ DOMAIN Append(s, e) = 1 .. Len(s) + 1 /\ DOMAIN s = 1 .. Len(s)
      /\ Append(s, e)[Len(s) + 1] = e
      /\ \A i \in 1 .. Len(s) : Append(s, e)[i] = s[i]
  OBVIOUS
<1> QED BY <1>1 DEF Holds

(* The head is in front of the rest.                                        *)
LEMMA HoldsTail ==
    ASSUME NEW S, NEW s \in Seq(S), s # <<>>
    PROVE  \A x : Holds(s, x) <=> x = Head(s) \/ Holds(Tail(s), x)
<1> SUFFICES ASSUME NEW x
             PROVE  Holds(s, x) <=> x = Head(s) \/ Holds(Tail(s), x)
  OBVIOUS
<1>1. /\ Len(s) \in Nat \ {0} /\ DOMAIN s = 1 .. Len(s)
      /\ DOMAIN Tail(s) = 1 .. Len(s) - 1 /\ Head(s) = s[1]
      /\ \A i \in 1 .. Len(s) - 1 : Tail(s)[i] = s[i + 1]
  OBVIOUS
<1>2. ASSUME NEW i \in DOMAIN s, i # 1
      PROVE  i - 1 \in DOMAIN Tail(s) /\ Tail(s)[i - 1] = s[i]
  BY <1>1, <1>2
<1>3. ASSUME NEW i \in DOMAIN Tail(s)
      PROVE  i + 1 \in DOMAIN s /\ Tail(s)[i] = s[i + 1]
  BY <1>1, <1>3
<1>4. Holds(s, x) => x = Head(s) \/ Holds(Tail(s), x)
  <2> HAVE Holds(s, x)
  <2>1. PICK i \in DOMAIN s : s[i] = x
    BY DEF Holds
  <2> QED BY <1>1, <1>2, <2>1 DEF Holds
<1>5. Holds(Tail(s), x) => Holds(s, x)
  BY <1>3 DEF Holds
<1>6. Holds(s, Head(s))
  BY <1>1 DEF Holds
<1> QED BY <1>4, <1>5, <1>6

(* A sequence that is cut in two loses nothing.                             *)
LEMMA HoldsSplit ==
    ASSUME NEW S, NEW s \in Seq(S), NEW n \in 0 .. Len(s)
    PROVE  /\ SubSeq(s, 1, n) \in Seq(S) /\ SubSeq(s, n + 1, Len(s)) \in Seq(S)
           /\ \A x : Holds(s, x) <=> \/ Holds(SubSeq(s, 1, n), x)
                                     \/ Holds(SubSeq(s, n + 1, Len(s)), x)
<1> DEFINE front == SubSeq(s, 1, n)
           rest == SubSeq(s, n + 1, Len(s))
<1>1. /\ Len(s) \in Nat /\ DOMAIN s = 1 .. Len(s)
      /\ front \in Seq(S) /\ rest \in Seq(S)
      /\ DOMAIN front = 1 .. n /\ DOMAIN rest = 1 .. Len(s) - n
      /\ \A i \in 1 .. n : front[i] = s[i]
      /\ \A i \in 1 .. Len(s) - n : rest[i] = s[n + i]
  OBVIOUS
<1>2. ASSUME NEW i \in DOMAIN s, i > n
      PROVE  i - n \in DOMAIN rest /\ rest[i - n] = s[i]
  BY <1>1, <1>2
<1>3. ASSUME NEW i \in DOMAIN s, i <= n
      PROVE  i \in DOMAIN front /\ front[i] = s[i]
  BY <1>1, <1>3
<1>4. /\ \A i \in DOMAIN front : i \in DOMAIN s /\ front[i] = s[i]
      /\ \A i \in DOMAIN rest : n + i \in DOMAIN s /\ rest[i] = s[n + i]
  BY <1>1
<1> HIDE DEF front, rest
<1>5. ASSUME NEW x
      PROVE  Holds(s, x) <=> Holds(front, x) \/ Holds(rest, x)
  <2>1. Holds(s, x) => Holds(front, x) \/ Holds(rest, x)
    <3> HAVE Holds(s, x)
    <3>1. PICK i \in DOMAIN s : s[i] = x
      BY DEF Holds
    <3>2. i <= n \/ i > n
      BY <1>1
    <3> QED BY <1>2, <1>3, <3>1, <3>2 DEF Holds
  <2>2. Holds(front, x) \/ Holds(rest, x) => Holds(s, x)
    BY <1>4 DEF Holds
  <2> QED BY <2>1, <2>2
<1> QED BY <1>1, <1>5 DEF front, rest

(* Nothing is in the empty sequence.                                       *)
LEMMA HoldsNone == \A x : ~Holds(<<>>, x)
BY DEF Holds

-----------------------------------------------------------------------------
(***************************************************************************)
(* The send path of a PC node.                                             *)
(***************************************************************************)
(* The actions of the send path, one by one.                                *)
LEMMA SendCases ==
    ASSUME SendPath!Next
    PROVE  \/ SendPath!Open \/ SendPath!ClientConnects \/ SendPath!RoundStart
           \/ SendPath!RoundStop \/ SendPath!CloseQueue \/ SendPath!CloseRuntime
           \/ SendPath!DrainTakes \/ SendPath!DrainWrites \/ SendPath!DrainWriteFails
           \/ SendPath!ResultWaits \/ SendPath!ResultTold
           \/ SendPath!WorkerRefused \/ SendPath!WorkerQueues
           \/ SendPath!WorkerPostsDrain \/ SendPath!WorkerEnds
BY DEF SendPath!Next, SendPath!MainNext, SendPath!WorkerNext

(* The limits of the send path.                                             *)
LEMMA SendLimits ==
    ASSUME LinksAssumption
    PROVE  /\ Packets \in Nat /\ QueueLimit \in Nat \ {0} /\ BatchLimit \in Nat \ {0}
           /\ MaxRounds \in Nat
BY DEF LinksAssumption, SendPath!LimitsAssumption

(* A PC node begins with nothing queued and nothing told.                  *)
LEMMA SendInitially ==
    ASSUME LinksAssumption, SendPath!Init
    PROVE  SendInv
<1> USE DEF SendPath!Init
<1>1. SendTyping
  <2>1. /\ queue \in Seq(Nat \X Nat) /\ posted \in Seq(Calls) /\ <<>> \in Seq(Nat \X Nat)
    OBVIOUS
  <2>2. main \in [at : {"idle", "closing", "writing"}, batch : Seq(Nat \X Nat), more : BOOLEAN]
    BY <2>1 DEF SendPath!Idle
  <2>3. told \in [SendPath!Rounds -> {"none", "Completed", "Stopped", "Failed"}]
    OBVIOUS
  <2> QED BY <2>1, <2>2, <2>3 DEF SendTyping
<1>2. DutyHeld
  BY DEF DutyHeld
<1>3. ClientHeld
  BY DEF ClientHeld, SendPath!Idle
<1>4. RoundsAccounted
  BY DEF RoundsAccounted
<1> QED BY <1>1, <1>2, <1>3, <1>4 DEF SendInv

(* The batch that a drain takes and the queue it leaves.                    *)
LEMMA BatchTaken ==
    ASSUME LinksAssumption, SendTyping
    PROVE  LET size == SendPath!Least(BatchLimit, Len(queue))
           IN size \in 0 .. Len(queue)
BY SendLimits DEF SendTyping, SendPath!Least

(* Every step of the send path keeps the types.                            *)
LEMMA SendTypingStep ==
    ASSUME LinksAssumption, SendTyping, SendPath!Next
    PROVE  SendTyping'
<1> USE SendLimits DEF SendTyping
<1>1. CASE SendPath!Open
  BY <1>1 DEF SendPath!Open
<1>2. CASE SendPath!ClientConnects
  BY <1>2 DEF SendPath!ClientConnects
<1>4. ASSUME NEW verdict \in {"Completed", "Stopped", "Failed"}, SendPath!Halted(verdict)
      PROVE  posted' \in Seq(Calls) /\ worker' \in
                 [at : {"idle", "sending", "posting"}, round : Nat, sent : Nat,
                  failed : BOOLEAN]
  <2>1. SendPath!ResultCall(worker.round, verdict) \in Calls
    BY DEF SendPath!ResultCall, Calls
  <2> HIDE DEF SendTyping
  <2>2. posted \in Seq(Calls) /\ worker \in
                 [at : {"idle", "sending", "posting"}, round : Nat, sent : Nat,
                  failed : BOOLEAN]
    BY DEF SendTyping
  <2> DEFINE C == Calls
  <2> HIDE DEF C
  <2>3. posted' \in Seq(Calls)
    BY <1>4, <2>1, <2>2 DEF SendPath!Halted
  <2>4. worker' \in [at : {"idle", "sending", "posting"}, round : Nat, sent : Nat,
                     failed : BOOLEAN]
    BY <1>4, <2>2 DEF SendPath!Halted
  <2> QED BY <2>3, <2>4
<1>3. CASE SendPath!RoundStart
  <2>1. posted' \in Seq(Calls) /\ worker' \in
            [at : {"idle", "sending", "posting"}, round : Nat, sent : Nat, failed : BOOLEAN]
    <3>1. CASE UNCHANGED <<posted, worker>>
      BY <3>1
    <3>2. CASE SendPath!Halted(IF worker.failed THEN "Failed" ELSE "Stopped")
      BY <1>4, <3>2
    <3>3. CASE /\ UNCHANGED posted
               /\ worker' = [at |-> "sending", round |-> worker.round + 1, sent |-> 0,
                             failed |-> FALSE]
      BY <3>3
    <3> QED BY <1>3, <3>1, <3>2, <3>3 DEF SendPath!RoundStart
  <2>2. fault' \in BOOLEAN
    BY <1>3 DEF SendPath!RoundStart
  <2> QED BY <1>3, <2>1, <2>2 DEF SendPath!RoundStart
<1>5. CASE SendPath!RoundStop
  BY <1>4, <1>5 DEF SendPath!RoundStop
<1>6. CASE SendPath!CloseQueue
  <2>1. queue' \in Seq(Nat \X Nat) /\ <<>> \in Seq(Nat \X Nat)
    BY <1>6 DEF SendPath!CloseQueue
  <2>2. main' \in [at : {"idle", "closing", "writing"}, batch : Seq(Nat \X Nat), more : BOOLEAN]
    BY <1>6, <2>1 DEF SendPath!CloseQueue, SendPath!Idle
  <2>3. closes' \in Nat /\ UNCHANGED <<posted, worker, told>>
    BY <1>6 DEF SendPath!CloseQueue
  <2>4. running' = FALSE /\ sendScheduled' = FALSE /\ fault' = FALSE /\ sendClient' = FALSE
    BY <1>6 DEF SendPath!CloseQueue
  <2> QED BY <2>1, <2>2, <2>3, <2>4
<1>7. CASE SendPath!CloseRuntime
  BY <1>4, <1>7 DEF SendPath!CloseRuntime, SendPath!Idle
<1>8. CASE SendPath!DrainTakes
  <2> DEFINE size == SendPath!Least(BatchLimit, Len(queue))
             rest == SubSeq(queue, size + 1, Len(queue))
  <2>1. /\ posted # <<>> /\ posted' = Tail(posted)
        /\ main' = [at |-> "writing", batch |-> SubSeq(queue, 1, size),
                    more |-> rest # <<>>]
        /\ queue' = rest /\ sendScheduled' = (sendScheduled /\ rest # <<>>)
        /\ UNCHANGED <<running, fault, worker, sendClient, written, told, closes>>
    BY <1>8 DEF SendPath!DrainTakes
  <2>2. SubSeq(queue, 1, size) \in Seq(Nat \X Nat) /\ rest \in Seq(Nat \X Nat)
    BY BatchTaken, HoldsSplit
  <2> HIDE DEF rest, size
  <2>3. posted' \in Seq(Calls)
    BY <2>1
  <2> QED BY <2>1, <2>2, <2>3
<1>9. SendPath!DrainCall \in Calls
  BY DEF SendPath!DrainCall, Calls
<1>10. CASE SendPath!DrainWrites
  BY <1>9, <1>10 DEF SendPath!DrainWrites, SendPath!Idle
<1>11. CASE SendPath!DrainWriteFails
  <2>1. queue' \in Seq(Nat \X Nat) /\ <<>> \in Seq(Nat \X Nat)
    BY <1>11 DEF SendPath!DrainWriteFails
  <2>2. main' \in [at : {"idle", "closing", "writing"}, batch : Seq(Nat \X Nat), more : BOOLEAN]
    BY <1>11, <2>1 DEF SendPath!DrainWriteFails, SendPath!Idle
  <2> QED BY <1>11, <2>1, <2>2 DEF SendPath!DrainWriteFails
<1>12. CASE SendPath!ResultWaits
  <2>1. posted # <<>> /\ posted' = Append(Tail(posted), Head(posted))
    BY <1>12 DEF SendPath!ResultWaits
  <2>2. posted' \in Seq(Calls)
    BY <2>1
  <2> QED BY <1>12, <2>2 DEF SendPath!ResultWaits
<1>13. CASE SendPath!ResultTold
  <2>1. /\ posted # <<>> /\ posted' = Tail(posted) /\ Head(posted) \in Calls
        /\ Head(posted).call = "result"
    BY <1>13 DEF SendPath!ResultTold
  <2>2. posted' \in Seq(Calls)
    BY <2>1
  <2>3. SendPath!Verdict(Head(posted).status) \in {"none", "Completed", "Stopped", "Failed"}
    BY <2>1 DEF SendPath!Verdict, Calls
  <2>4. told' \in [SendPath!Rounds -> {"none", "Completed", "Stopped", "Failed"}]
    BY <1>13, <2>3 DEF SendPath!ResultTold
  <2> QED BY <1>13, <2>2, <2>4 DEF SendPath!ResultTold
<1>14. CASE SendPath!WorkerRefused
  BY <1>14 DEF SendPath!WorkerRefused
<1>15. CASE SendPath!WorkerQueues
  <2>1. <<worker.round, worker.sent + 1>> \in Nat \X Nat
    OBVIOUS
  <2>2. queue' \in Seq(Nat \X Nat)
    BY <1>15, <2>1 DEF SendPath!WorkerQueues
  <2>3. worker' \in [at : {"idle", "sending", "posting"}, round : Nat, sent : Nat,
                     failed : BOOLEAN]
    <3> HIDE DEF SendTyping
    <3>1. worker \in [at : {"idle", "sending", "posting"}, round : Nat, sent : Nat,
                      failed : BOOLEAN]
      BY DEF SendTyping
    <3> DEFINE at == IF sendScheduled THEN worker.at ELSE "posting"
    <3>2. worker' = [worker EXCEPT !.sent = worker.sent + 1, !.at = at]
      BY <1>15 DEF SendPath!WorkerQueues
    <3>3. at \in {"idle", "sending", "posting"} /\ worker.sent + 1 \in Nat
      BY <3>1
    <3> HIDE DEF at
    <3> QED BY <3>1, <3>2, <3>3
  <2> QED BY <1>15, <2>2, <2>3 DEF SendPath!WorkerQueues
<1>16. CASE SendPath!WorkerPostsDrain
  <2>1. posted' \in Seq(Calls)
    BY <1>9, <1>16 DEF SendPath!WorkerPostsDrain
  <2>2. worker' \in [at : {"idle", "sending", "posting"}, round : Nat, sent : Nat,
                     failed : BOOLEAN]
    BY <1>16 DEF SendPath!WorkerPostsDrain
  <2> QED BY <1>16, <2>1, <2>2 DEF SendPath!WorkerPostsDrain
<1>17. CASE SendPath!WorkerEnds
  <2>1. SendPath!ResultCall(worker.round, IF worker.failed THEN "Failed" ELSE "Completed")
            \in Calls
    BY DEF SendPath!ResultCall, Calls
  <2>2. posted' \in Seq(Calls)
    BY <1>17, <2>1 DEF SendPath!WorkerEnds
  <2>3. worker' \in [at : {"idle", "sending", "posting"}, round : Nat, sent : Nat,
                     failed : BOOLEAN]
    BY <1>17 DEF SendPath!WorkerEnds
  <2> QED BY <1>17, <2>2, <2>3 DEF SendPath!WorkerEnds
<1> QED
  BY SendCases, <1>1, <1>2, <1>3, <1>5, <1>6, <1>7, <1>8, <1>10, <1>11, <1>12, <1>13,
     <1>14, <1>15, <1>16, <1>17
(* The worker and the main thread hand over the duty to drain the queue.    *)
LEMMA DutyStep ==
    ASSUME LinksAssumption, SendTyping, DutyHeld, SendPath!Next
    PROVE  DutyHeld'
<1> DEFINE due(calls) == Holds(calls, SendPath!DrainCall)
           Due == \/ due(posted) \/ worker.at = "posting"
                  \/ main.at = "writing" /\ main.more
<1>0. /\ DutyHeld <=> (queue # <<>> => sendScheduled) /\ (sendScheduled => Due)
      /\ DutyHeld' <=> (queue' # <<>> => sendScheduled') /\ (sendScheduled' => Due')
  BY DEF DutyHeld, SendPath!DrainIsDue, Holds
<1> USE <1>0
<1>1. posted \in Seq(Calls)
  BY DEF SendTyping
<1>2. \A c \in Calls : due(Append(posted, c)) <=> due(posted) \/ c = SendPath!DrainCall
  BY <1>1, HoldsAppend
<1>3. posted # <<>> =>
          /\ Tail(posted) \in Seq(Calls) /\ Head(posted) \in Calls
          /\ due(posted) <=> Head(posted) = SendPath!DrainCall \/ due(Tail(posted))
  BY <1>1, HoldsTail
<1>4. \A verdict : SendPath!ResultCall(worker.round, verdict) # SendPath!DrainCall
  BY DEF SendPath!ResultCall, SendPath!DrainCall
<1>5. ASSUME NEW verdict \in {"Completed", "Stopped", "Failed"}, SendPath!Halted(verdict),
             worker.at # "posting", due(posted)
      PROVE  due(posted)'
  <2>1. SendPath!ResultCall(worker.round, verdict) \in Calls
    BY DEF SendTyping, SendPath!ResultCall, Calls
  <2> HIDE DEF due
  <2>2. posted' = posted \/ posted' = Append(posted, SendPath!ResultCall(worker.round, verdict))
    BY <1>5 DEF SendPath!Halted
  <2> QED BY <1>2, <1>5, <2>1, <2>2
<1>6. CASE SendPath!Open \/ SendPath!ClientConnects
  BY <1>6 DEF SendPath!Open, SendPath!ClientConnects
<1>7. CASE SendPath!RoundStart
  <2>1. /\ UNCHANGED <<queue, sendScheduled, main>>
        /\ worker.at = "posting" => worker' = worker /\ posted' = posted
    BY <1>7 DEF SendPath!RoundStart, SendPath!Joinable
  <2>2. worker.at # "posting" /\ due(posted) => due(posted)'
    <3>1. CASE posted' = posted
      BY <3>1
    <3>2. CASE SendPath!Halted(IF worker.failed THEN "Failed" ELSE "Stopped")
      BY <1>5, <3>2
    <3> QED BY <1>7, <3>1, <3>2 DEF SendPath!RoundStart
  <2> QED BY <2>1, <2>2
<1>8. CASE SendPath!RoundStop
  BY <1>5, <1>8 DEF SendPath!RoundStop, SendPath!Joinable
<1>9. CASE SendPath!CloseQueue
  BY <1>9 DEF SendPath!CloseQueue
<1>10. CASE SendPath!CloseRuntime
  BY <1>5, <1>10 DEF SendPath!CloseRuntime, SendPath!Joinable
<1>11. CASE SendPath!DrainTakes
  <2> DEFINE rest == SubSeq(queue, SendPath!Least(BatchLimit, Len(queue)) + 1, Len(queue))
  <2>1. /\ main'.at = "writing" /\ main'.more = (rest # <<>>)
        /\ queue' = rest /\ sendScheduled' = (sendScheduled /\ rest # <<>>)
    BY <1>11 DEF SendPath!DrainTakes
  <2>2. sendScheduled \in BOOLEAN /\ (queue # <<>> => sendScheduled)
    BY DEF SendTyping
  <2>3. rest # <<>> => queue # <<>>
    BY DEF SendTyping
  <2> HIDE DEF rest
  <2> QED BY <2>1, <2>2, <2>3
<1>12. CASE SendPath!DrainWrites
  BY <1>2, <1>12 DEF SendPath!DrainWrites, Calls, SendPath!DrainCall
<1>13. CASE SendPath!DrainWriteFails
  BY <1>13 DEF SendPath!DrainWriteFails
<1>14. CASE SendPath!ResultWaits
  <2>1. /\ posted # <<>> /\ posted' = Append(Tail(posted), Head(posted))
        /\ Head(posted) # SendPath!DrainCall
        /\ UNCHANGED <<queue, sendScheduled, main, worker>>
    BY <1>14 DEF SendPath!ResultWaits, SendPath!DrainCall
  <2>2. due(posted) => due(posted)'
    BY <1>3, <2>1, HoldsAppend
  <2> QED BY <2>1, <2>2
<1>15. CASE SendPath!ResultTold
  <2>1. /\ posted # <<>> /\ posted' = Tail(posted) /\ Head(posted) # SendPath!DrainCall
        /\ UNCHANGED <<queue, sendScheduled, main, worker>>
    BY <1>15 DEF SendPath!ResultTold, SendPath!DrainCall
  <2> QED BY <1>3, <2>1
<1>16. CASE SendPath!WorkerRefused
  BY <1>16 DEF SendPath!WorkerRefused, SendTyping
<1>17. CASE SendPath!WorkerQueues
  BY <1>17 DEF SendPath!WorkerQueues, SendTyping
<1>18. CASE SendPath!WorkerPostsDrain
  BY <1>2, <1>18 DEF SendPath!WorkerPostsDrain, Calls, SendPath!DrainCall
<1>19. CASE SendPath!WorkerEnds
  <2>1. SendPath!ResultCall(worker.round, IF worker.failed THEN "Failed" ELSE "Completed")
            \in Calls
    BY DEF SendTyping, SendPath!ResultCall, Calls
  <2> QED BY <1>2, <1>19, <2>1 DEF SendPath!WorkerEnds
<1> QED
  BY SendCases, <1>6, <1>7, <1>8, <1>9, <1>10, <1>11, <1>12, <1>13, <1>14, <1>15,
     <1>16, <1>17, <1>18, <1>19

(* There is a client while the node runs only, and a worker's round outlives *)
(* its client only while the node is being closed.                           *)
LEMMA ClientStep ==
    ASSUME SendTyping, ClientHeld, SendPath!Next
    PROVE  ClientHeld'
<1> USE DEF ClientHeld, SendTyping, SendPath!Idle
<1>1. CASE SendPath!Open \/ SendPath!ClientConnects \/ SendPath!RoundStart
  BY <1>1 DEF SendPath!Open, SendPath!ClientConnects, SendPath!RoundStart, SendPath!Free,
              SendPath!Halted
<1>2. CASE SendPath!RoundStop
  BY <1>2 DEF SendPath!RoundStop, SendPath!Halted
<1>3. CASE SendPath!CloseQueue
  BY <1>3 DEF SendPath!CloseQueue
<1>4. CASE SendPath!CloseRuntime
  BY <1>4 DEF SendPath!CloseRuntime, SendPath!Halted
<1>5. CASE SendPath!DrainTakes
  <2>1. /\ main.at = "idle" /\ main'.at = "writing"
        /\ UNCHANGED <<running, worker, sendClient>>
    BY <1>5 DEF SendPath!DrainTakes
  <2> QED BY <2>1
<1>9. CASE SendPath!DrainWrites \/ SendPath!DrainWriteFails
  BY <1>9 DEF SendPath!DrainWrites, SendPath!DrainWriteFails
<1>6. CASE SendPath!ResultWaits \/ SendPath!ResultTold
  BY <1>6 DEF SendPath!ResultWaits, SendPath!ResultTold
<1>7. CASE SendPath!WorkerRefused \/ SendPath!WorkerQueues
  BY <1>7 DEF SendPath!WorkerRefused, SendPath!WorkerQueues
<1>8. CASE SendPath!WorkerPostsDrain \/ SendPath!WorkerEnds
  BY <1>8 DEF SendPath!WorkerPostsDrain, SendPath!WorkerEnds
<1> QED
  BY SendCases, <1>1, <1>2, <1>3, <1>4, <1>5, <1>6, <1>7, <1>8, <1>9
(* A datagram that is written, queued or in the batch of a drain.           *)
OnItsWay(x) == x \in written \/ Holds(queue, x) \/ Holds(main.batch, x)

(* No datagram is lost but when the node is closed or its socket fails.     *)
LEMMA DatagramsKept ==
    ASSUME LinksAssumption, SendTyping, ClientHeld, SendPath!Next,
           ~SendPath!CloseQueue, ~SendPath!DrainWriteFails
    PROVE  \A x : OnItsWay(x) => OnItsWay(x)'
<1> USE DEF OnItsWay, SendPath!Idle
<1>1. CASE SendPath!Open \/ SendPath!ClientConnects \/ SendPath!RoundStart
  BY <1>1 DEF SendPath!Open, SendPath!ClientConnects, SendPath!RoundStart
<1>2. CASE SendPath!RoundStop \/ SendPath!ResultWaits \/ SendPath!ResultTold
  BY <1>2 DEF SendPath!RoundStop, SendPath!ResultWaits, SendPath!ResultTold
<1>3. CASE SendPath!CloseRuntime
  BY <1>3, HoldsNone DEF SendPath!CloseRuntime, ClientHeld
<1>4. CASE SendPath!DrainTakes
  <2> DEFINE size == SendPath!Least(BatchLimit, Len(queue))
             front == SubSeq(queue, 1, size)
             rest == SubSeq(queue, size + 1, Len(queue))
  <2>1. main'.batch = front /\ queue' = rest /\ written' = written /\ main.batch = <<>>
    BY <1>4 DEF SendPath!DrainTakes, ClientHeld
  <2>2. \A x : Holds(queue, x) <=> Holds(front, x) \/ Holds(rest, x)
    BY BatchTaken, HoldsSplit DEF SendTyping
  <2> HIDE DEF front, rest
  <2> QED BY <2>1, <2>2, HoldsNone
<1>5. CASE SendPath!DrainWrites
  <2>1. /\ written' = written \cup {main.batch[i] : i \in DOMAIN main.batch}
        /\ queue' = queue
    BY <1>5 DEF SendPath!DrainWrites
  <2>2. \A x : Holds(main.batch, x) => x \in written'
    BY <2>1 DEF Holds
  <2> QED BY <2>1, <2>2
<1>6. CASE SendPath!WorkerRefused \/ SendPath!WorkerPostsDrain \/ SendPath!WorkerEnds
  BY <1>6 DEF SendPath!WorkerRefused, SendPath!WorkerPostsDrain, SendPath!WorkerEnds
<1>7. CASE SendPath!WorkerQueues
  <2>1. /\ queue' = Append(queue, <<worker.round, worker.sent + 1>>)
        /\ written' = written /\ main' = main
    BY <1>7 DEF SendPath!WorkerQueues
  <2>2. queue \in Seq(Nat \X Nat) /\ <<worker.round, worker.sent + 1>> \in Nat \X Nat
    BY DEF SendTyping
  <2>3. \A x : Holds(queue, x) => Holds(Append(queue, <<worker.round, worker.sent + 1>>), x)
    BY <2>2, HoldsAppend
  <2> QED BY <2>1, <2>3
<1> QED
  BY SendCases, <1>1, <1>2, <1>3, <1>4, <1>5, <1>6, <1>7

(* A completed result that is posted was posted before, or the worker ends  *)
(* a round it has sent.                                                     *)
LEMMA ResultsPosted ==
    ASSUME SendTyping, SendPath!Next, NEW c \in Calls, Holds(posted', c),
           c.status = "Completed", ~Holds(posted, c)
    PROVE  /\ SendPath!WorkerEnds /\ worker.sent = Packets
           /\ c.round = worker.round
<1>1. posted \in Seq(Calls)
  BY DEF SendTyping
<1>2. ASSUME NEW verdict \in {"none", "Completed", "Stopped", "Failed"}
      PROVE  SendPath!ResultCall(worker.round, verdict) \in Calls
  BY DEF SendTyping, SendPath!ResultCall, Calls
<1>3. ASSUME SendPath!Halted(IF worker.failed THEN "Failed" ELSE "Stopped")
      PROVE  FALSE
  <2> DEFINE call == SendPath!ResultCall(worker.round,
                                         IF worker.failed THEN "Failed" ELSE "Stopped")
  <2>1. posted' = posted \/ posted' = Append(posted, call)
    BY <1>3 DEF SendPath!Halted
  <2>2. call \in Calls /\ call.status # "Completed"
    BY <1>2 DEF SendPath!ResultCall
  <2> HIDE DEF call
  <2>3. \A x : Holds(Append(posted, call), x) <=> Holds(posted, x) \/ x = call
    BY <1>1, <2>2, HoldsAppend
  <2> QED BY <2>1, <2>2, <2>3
<1>4. CASE SendPath!RoundStart \/ SendPath!RoundStop \/ SendPath!CloseRuntime
  BY <1>3, <1>4 DEF SendPath!RoundStart, SendPath!RoundStop, SendPath!CloseRuntime
<1>5. ASSUME posted # <<>>, posted' = Tail(posted)
      PROVE  FALSE
  BY <1>1, <1>5, HoldsTail
<1>6. CASE SendPath!DrainTakes \/ SendPath!ResultTold
  BY <1>5, <1>6 DEF SendPath!DrainTakes, SendPath!ResultTold
<1>7. CASE SendPath!ResultWaits
  <2>1. posted # <<>> /\ posted' = Append(Tail(posted), Head(posted))
    BY <1>7 DEF SendPath!ResultWaits
  <2>2. Tail(posted) \in Seq(Calls) /\ Head(posted) \in Calls
    BY <1>1, <2>1
  <2> QED BY <1>1, <2>1, <2>2, HoldsTail, HoldsAppend
<1>8. ASSUME posted' = Append(posted, SendPath!DrainCall)
      PROVE  FALSE
  <2>1. SendPath!DrainCall \in Calls /\ SendPath!DrainCall.status # "Completed"
    BY DEF SendPath!DrainCall, Calls
  <2> QED BY <1>1, <1>8, <2>1, HoldsAppend
<1>9. CASE SendPath!DrainWrites
  BY <1>8, <1>9 DEF SendPath!DrainWrites
<1>10. CASE SendPath!WorkerPostsDrain
  BY <1>8, <1>10 DEF SendPath!WorkerPostsDrain
<1>11. CASE SendPath!WorkerEnds
  <2> DEFINE verdict == IF worker.failed THEN "Failed" ELSE "Completed"
             call == SendPath!ResultCall(worker.round, verdict)
  <2>1. /\ posted' = Append(posted, call)
        /\ worker.failed \/ worker.sent = Packets
    BY <1>11 DEF SendPath!WorkerEnds
  <2>2. call \in Calls /\ call.status = verdict /\ call.round = worker.round
    BY <1>2 DEF SendPath!ResultCall
  <2>3. c = call
    <3> HIDE DEF call
    <3> QED BY <1>1, <2>1, <2>2, HoldsAppend
  <2> QED BY <1>11, <2>1, <2>2, <2>3
<1>12. CASE SendPath!Open \/ SendPath!ClientConnects \/ SendPath!CloseQueue
  BY <1>12 DEF SendPath!Open, SendPath!ClientConnects, SendPath!CloseQueue
<1>13. CASE SendPath!DrainWriteFails \/ SendPath!WorkerRefused \/ SendPath!WorkerQueues
  BY <1>13 DEF SendPath!DrainWriteFails, SendPath!WorkerRefused, SendPath!WorkerQueues
<1> QED
  BY SendCases, <1>4, <1>6, <1>7, <1>9, <1>10, <1>11, <1>12, <1>13
(* What a client hears of as completed has been written.                    *)
LEMMA AccountStep ==
    ASSUME LinksAssumption, SendTyping, ClientHeld, DutyHeld, RoundsAccounted,
           SendPath!Next, SendTyping'
    PROVE  RoundsAccounted'
<1> DEFINE Sent(r, n) == \A i \in 1 .. n : OnItsWay(<<r, i>>)
<1> DEFINE ThenOnItsWay(x) == x \in written' \/ Holds(queue', x) \/ Holds(main'.batch, x)
           ThenSent(r, n) == \A i \in 1 .. n : ThenOnItsWay(<<r, i>>)
           ThenFaultOf(r) == fault' \/ r \in wiped'
<1>1. /\ worker.at # "idle" /\ sendClient
            => FaultOf(worker.round) \/ Sent(worker.round, worker.sent)
      /\ \A c \in Calls :
            Holds(posted, c) /\ c.status = "Completed" /\ sendClient
                => FaultOf(c.round) \/ Sent(c.round, Packets)
  BY DEF RoundsAccounted, Accounted, OnItsWay
<1>2. written \subseteq written'
  BY SendCases DEF SendPath!Open, SendPath!ClientConnects, SendPath!RoundStart,
      SendPath!RoundStop, SendPath!CloseQueue, SendPath!CloseRuntime, SendPath!DrainTakes,
      SendPath!DrainWrites, SendPath!DrainWriteFails, SendPath!ResultWaits,
      SendPath!ResultTold, SendPath!WorkerRefused, SendPath!WorkerQueues,
      SendPath!WorkerPostsDrain, SendPath!WorkerEnds
(* A client that is there now was there, and what it may not rely on stays   *)
(* noted, or the start of a round wipes it.                                  *)
<1>3. ASSUME sendClient', posted' # <<>> \/ worker'.at # "idle"
      PROVE  /\ sendClient
             /\ \A r : FaultOf(r) /\ (SendPath!RoundStart => r \in SendPath!Unfinished)
                           => ThenFaultOf(r)
  <2>1. CASE SendPath!Open
    BY <1>3, <2>1 DEF SendPath!Open, ClientHeld
  <2>2. CASE SendPath!ClientConnects
    BY <1>3, <2>2 DEF SendPath!ClientConnects, ClientHeld, SendPath!Free
  <2>3. CASE SendPath!CloseQueue
    BY <1>3, <2>3 DEF SendPath!CloseQueue
  <2>4. CASE SendPath!RoundStop \/ SendPath!CloseRuntime \/ SendPath!DrainTakes
             \/ SendPath!DrainWrites \/ SendPath!DrainWriteFails
    <3>1. /\ sendClient' = sendClient /\ wiped' = wiped
          /\ fault' = fault \/ fault' = TRUE
      BY <2>4 DEF SendPath!RoundStop, SendPath!CloseRuntime, SendPath!DrainTakes,
                  SendPath!DrainWrites, SendPath!DrainWriteFails
    <3> QED BY <1>3, <3>1 DEF FaultOf
  <2>5. CASE SendPath!ResultWaits \/ SendPath!ResultTold \/ SendPath!WorkerRefused
             \/ SendPath!WorkerQueues \/ SendPath!WorkerPostsDrain \/ SendPath!WorkerEnds
    <3>1. /\ sendClient' = sendClient /\ wiped' = wiped
          /\ fault' = fault \/ fault' = (fault \/ Len(queue) >= QueueLimit)
      BY <2>5 DEF SendPath!ResultWaits, SendPath!ResultTold, SendPath!WorkerRefused,
                  SendPath!WorkerQueues, SendPath!WorkerPostsDrain, SendPath!WorkerEnds
    <3>2. fault \in BOOLEAN
      BY DEF SendTyping
    <3> QED BY <1>3, <3>1, <3>2 DEF FaultOf
  <2>6. CASE SendPath!RoundStart
    <3>1. /\ sendClient' = sendClient /\ fault' = (fault /\ queue # <<>>)
          /\ wiped' = wiped \cup (IF fault /\ queue = <<>> THEN SendPath!Unfinished ELSE {})
      BY <2>6 DEF SendPath!RoundStart
    <3> QED BY <1>3, <2>6, <3>1 DEF FaultOf
  <2> QED BY SendCases, <1>3, <2>1, <2>2, <2>3, <2>4, <2>5, <2>6
<1>4. (SendPath!DrainWriteFails => fault') /\ (SendPath!CloseQueue => ~sendClient')
  BY DEF SendPath!DrainWriteFails, SendPath!CloseQueue
<1>5. ASSUME NEW r, NEW n, sendClient', FaultOf(r) \/ Sent(r, n),
             SendPath!RoundStart => r \in SendPath!Unfinished,
             posted' # <<>> \/ worker'.at # "idle"
      PROVE  ThenFaultOf(r) \/ ThenSent(r, n)
  <2>1. SendPath!DrainWriteFails \/ \A x : OnItsWay(x) => ThenOnItsWay(x)
    BY <1>4, <1>5, DatagramsKept DEF OnItsWay
  <2>2. CASE FaultOf(r)
    BY <1>3, <1>5, <2>2
  <2>3. CASE SendPath!DrainWriteFails
    BY <1>4, <2>3 DEF FaultOf
  <2> QED BY <1>5, <2>1, <2>2, <2>3
(* A round that goes on or has its result posted is not finished.            *)
<1>6. /\ worker.at # "idle" => worker.round \in SendPath!Unfinished
      /\ \A c : Holds(posted, c) => c.round \in SendPath!Unfinished
  BY DEF SendPath!Unfinished, Holds
<1>7. ASSUME worker'.at # "idle", sendClient'
      PROVE  ThenFaultOf(worker'.round) \/ ThenSent(worker'.round, worker'.sent)
  <2>1. CASE worker'.sent = 0
    <3>1. 1 .. worker'.sent = {}
      BY <2>1
    <3> QED BY <3>1
  <2>2. CASE SendPath!WorkerQueues
    <3>1. /\ ~fault /\ worker.at # "idle"
          /\ worker'.round = worker.round /\ worker'.sent = worker.sent + 1
          /\ queue' = Append(queue, <<worker.round, worker.sent + 1>>)
      BY <2>2 DEF SendPath!WorkerQueues, SendPath!Refused, SendTyping
    <3>3. ThenFaultOf(worker.round) \/ ThenSent(worker.round, worker.sent)
      BY <1>1, <1>3, <1>5, <1>6, <1>7, <3>1
    <3>4. queue \in Seq(Nat \X Nat) /\ <<worker.round, worker.sent + 1>> \in Nat \X Nat
      BY DEF SendTyping
    <3>5. ThenOnItsWay(<<worker.round, worker.sent + 1>>)
      BY <3>1, <3>4, HoldsAppend
    <3>6. \A i \in 1 .. worker.sent + 1 : i \in 1 .. worker.sent \/ i = worker.sent + 1
      <4>1. worker.sent \in Nat
        BY DEF SendTyping
      <4> QED BY <4>1
    <3> HIDE DEF ThenOnItsWay
    <3>7. ThenFaultOf(worker.round) \/ ThenSent(worker.round, worker.sent + 1)
      BY <3>3, <3>5, <3>6
    <3> QED BY <3>1, <3>7
  <2>3. CASE worker'.sent # 0 /\ ~SendPath!WorkerQueues
    <3>1. worker.at # "idle" /\ worker'.round = worker.round /\ worker'.sent = worker.sent
      <4>1. CASE SendPath!RoundStart
        BY <1>7, <2>3, <4>1 DEF SendPath!RoundStart, SendPath!Halted, SendTyping
      <4> QED
        BY <1>7, <2>3, <4>1, SendCases DEF SendTyping,
         SendPath!Open, SendPath!ClientConnects, SendPath!RoundStop, SendPath!Halted,
         SendPath!CloseQueue, SendPath!CloseRuntime, SendPath!DrainTakes,
         SendPath!DrainWrites, SendPath!DrainWriteFails, SendPath!ResultWaits,
         SendPath!ResultTold, SendPath!WorkerRefused, SendPath!WorkerPostsDrain,
         SendPath!WorkerEnds
    <3> QED BY <1>1, <1>3, <1>5, <1>6, <1>7, <3>1
  <2> QED BY <2>1, <2>2, <2>3
<1>8. ASSUME NEW c \in Calls, Holds(posted', c), c.status = "Completed", sendClient'
      PROVE  ThenFaultOf(c.round) \/ ThenSent(c.round, Packets)
  <2>1. posted' # <<>>
    BY <1>8, HoldsNone
  <2>2. sendClient
    BY <1>3, <1>8, <2>1
  <2>3. CASE Holds(posted, c)
    BY <1>1, <1>5, <1>6, <1>8, <2>1, <2>2, <2>3
  <2>4. CASE ~Holds(posted, c)
    <3>1. /\ SendPath!WorkerEnds /\ worker.sent = Packets /\ c.round = worker.round
          /\ worker.at # "idle"
      BY <1>8, <2>4, ResultsPosted DEF SendPath!WorkerEnds
    <3> QED BY <1>1, <1>5, <1>6, <1>8, <2>1, <2>2, <3>1
  <2> QED BY <2>3, <2>4
<1>9. ASSUME NEW r \in SendPath!Rounds \ wiped', told'[r] = "Completed",
             told[r] # "Completed"
      PROVE  {r} \X (1 .. Packets) \subseteq written
  <2>1. told' # told
    BY <1>9
  <2>2. SendPath!ResultTold
    BY <2>1, SendCases DEF SendPath!Open, SendPath!ClientConnects, SendPath!RoundStart,
      SendPath!RoundStop, SendPath!CloseQueue, SendPath!CloseRuntime, SendPath!DrainTakes,
      SendPath!DrainWrites, SendPath!DrainWriteFails, SendPath!ResultWaits,
      SendPath!WorkerRefused, SendPath!WorkerQueues,
      SendPath!WorkerPostsDrain, SendPath!WorkerEnds
  <2> DEFINE c == Head(posted)
  <2>3. /\ posted # <<>> /\ main.at = "idle" /\ sendClient /\ ~SendPath!Awaited(c.status)
        /\ wiped' = wiped
        /\ told' = [told EXCEPT ![c.round] = SendPath!Verdict(c.status)]
    BY <2>1, <2>2 DEF SendPath!ResultTold
  <2>4. r = c.round /\ SendPath!Verdict(c.status) = "Completed"
    BY <1>9, <2>3 DEF SendTyping
  <2>5. c.status = "Completed" /\ ~fault /\ queue = <<>>
    BY <2>3, <2>4 DEF SendPath!Verdict, SendPath!Awaited
  <2>6. c \in Calls /\ Holds(posted, c)
    BY <2>3, HoldsTail DEF SendTyping
  <2> HIDE DEF c
  <2>7. Sent(r, Packets)
    BY <1>1, <1>9, <2>3, <2>4, <2>5, <2>6 DEF FaultOf
  <2>8. main.batch = <<>>
    BY <2>3 DEF ClientHeld
  <2> QED BY <2>5, <2>7, <2>8, HoldsNone DEF OnItsWay
<1>10. wiped \subseteq wiped'
  BY SendCases DEF SendPath!Open, SendPath!ClientConnects, SendPath!RoundStart,
      SendPath!RoundStop, SendPath!CloseQueue, SendPath!CloseRuntime, SendPath!DrainTakes,
      SendPath!DrainWrites, SendPath!DrainWriteFails, SendPath!ResultWaits,
      SendPath!ResultTold, SendPath!WorkerRefused, SendPath!WorkerQueues,
      SendPath!WorkerPostsDrain, SendPath!WorkerEnds
<1>11. \A r \in SendPath!Rounds \ wiped' :
          told'[r] = "Completed" => {r} \X (1 .. Packets) \subseteq written'
  BY <1>2, <1>9, <1>10 DEF RoundsAccounted
<1> QED BY <1>7, <1>8, <1>11 DEF RoundsAccounted, Accounted, FaultOf

(* Every step of the send path keeps its invariant.                        *)
LEMMA SendStep ==
    ASSUME LinksAssumption, SendInv, SendPath!Next
    PROVE  SendInv'
<1>1. SendTyping'
  BY SendTypingStep DEF SendInv
<1> QED BY <1>1, DutyStep, ClientStep, AccountStep DEF SendInv
-----------------------------------------------------------------------------
(***************************************************************************)
(* The upload of a file.                                                   *)
(***************************************************************************)
LEMMA UploadSizes ==
    ASSUME LinksAssumption
    PROVE  /\ MaxConnections \in Nat /\ Chunks \in Nat \ {0}
           /\ EndReserve \in Nat \ {0} /\ ChunkSize \in Nat \ {0}
           /\ BacklogLimit \in Nat /\ BacklogLimit >= ChunkSize + EndReserve
BY DEF LinksAssumption, Upload!SizesAssumption

(* FileTransfer counts as this module does.                                 *)
LEMMA CountIsCardinality ==
    \A s, kinds :
        Upload!Count(s, kinds) = Cardinality({i \in DOMAIN s : s[i].frame \in kinds})
<1>1. \A S : Upload!Cardinality(S) = Cardinality(S)
  BY DEF Upload!Cardinality, Cardinality
<1> QED BY <1>1 DEF Upload!Count

(* Frames are counted by whole numbers, and fewer kinds by fewer.           *)
LEMMA CountType ==
    ASSUME NEW s \in Seq(Frames), NEW kinds
    PROVE  /\ IsFiniteSet({i \in DOMAIN s : s[i].frame \in kinds})
           /\ Upload!Count(s, kinds) \in Nat
<1>1. Len(s) \in Nat /\ DOMAIN s = 1 .. Len(s)
  OBVIOUS
<1>2. IsFiniteSet(DOMAIN s)
  BY <1>1, FS_Interval
<1> DEFINE T == {i \in DOMAIN s : s[i].frame \in kinds}
<1>3. T \in SUBSET DOMAIN s
  OBVIOUS
<1>4. Upload!Count(s, kinds) = Cardinality(T)
  BY CountIsCardinality
<1> HIDE DEF T
<1>5. IsFiniteSet(T) /\ Cardinality(T) \in Nat
  BY <1>2, <1>3, FS_Subset, FS_CardinalityType
<1> QED BY <1>4, <1>5 DEF T

(* Fewer kinds of frames are fewer frames.                                 *)
LEMMA CountFewer ==
    ASSUME NEW s \in Seq(Frames), NEW kinds, NEW some \in SUBSET kinds
    PROVE  Upload!Count(s, some) <= Upload!Count(s, kinds)
<1> DEFINE T == {i \in DOMAIN s : s[i].frame \in some}
           U == {i \in DOMAIN s : s[i].frame \in kinds}
<1>1. T \in SUBSET U
  OBVIOUS
<1>2. IsFiniteSet(U)
  BY CountType
<1>3. Upload!Count(s, some) = Cardinality(T) /\ Upload!Count(s, kinds) = Cardinality(U)
  BY CountIsCardinality
<1> HIDE DEF T, U
<1> QED BY <1>1, <1>2, <1>3, FS_Subset

(* One more frame counts once, when it is of a kind that is counted.        *)
LEMMA CountAppend ==
    ASSUME NEW s \in Seq(Frames), NEW f \in Frames, NEW kinds
    PROVE  Upload!Count(Append(s, f), kinds)
               = Upload!Count(s, kinds) + IF f.frame \in kinds THEN 1 ELSE 0
<1> DEFINE T == {i \in DOMAIN s : s[i].frame \in kinds}
           U == {i \in DOMAIN Append(s, f) : Append(s, f)[i].frame \in kinds}
<1>1. /\ Len(s) \in Nat /\ DOMAIN s = 1 .. Len(s)
      /\ DOMAIN Append(s, f) = 1 .. Len(s) + 1
      /\ \A i \in 1 .. Len(s) : Append(s, f)[i] = s[i]
      /\ Append(s, f)[Len(s) + 1] = f
  OBVIOUS
<1>2. IsFiniteSet(T) /\ Upload!Count(s, kinds) \in Nat
  BY CountType
<1>5. /\ Cardinality(T) = Upload!Count(s, kinds)
      /\ Cardinality(U) = Upload!Count(Append(s, f), kinds)
  BY CountIsCardinality
<1>3. CASE f.frame \in kinds
  <2>1. U = T \cup {Len(s) + 1} /\ Len(s) + 1 \notin T
    BY <1>1, <1>3
  <2> HIDE DEF T, U
  <2> QED BY <1>2, <1>3, <1>5, <2>1, FS_AddElement
<1>4. CASE f.frame \notin kinds
  <2>1. U = T
    BY <1>1, <1>4
  <2> HIDE DEF T, U
  <2> QED BY <1>2, <1>4, <1>5, <2>1
<1> QED BY <1>3, <1>4

(* A frame that has left is not counted any more.                           *)
LEMMA CountTail ==
    ASSUME NEW s \in Seq(Frames), s # <<>>, NEW kinds
    PROVE  Upload!Count(Tail(s), kinds) <= Upload!Count(s, kinds)
<1> DEFINE T == {i \in DOMAIN s : s[i].frame \in kinds}
           U == {i \in DOMAIN Tail(s) : Tail(s)[i].frame \in kinds}
           next == [i \in U |-> i + 1]
<1>1. /\ Len(s) \in Nat \ {0} /\ DOMAIN s = 1 .. Len(s)
      /\ Tail(s) \in Seq(Frames) /\ DOMAIN Tail(s) = 1 .. Len(s) - 1
      /\ \A i \in 1 .. Len(s) - 1 : Tail(s)[i] = s[i + 1]
  OBVIOUS
<1>2. \A i \in U : i \in Nat /\ i + 1 \in T
  BY <1>1
<1>3. IsFiniteSet(T)
  BY CountType
<1>5. /\ Cardinality(T) = Upload!Count(s, kinds)
      /\ Cardinality(U) = Upload!Count(Tail(s), kinds)
  BY CountIsCardinality
<1> HIDE DEF T, U
<1>4. next \in Injection(U, T)
  BY <1>2 DEF Injection, IsInjective
<1> HIDE DEF next
<1> QED BY <1>3, <1>4, <1>5, FS_Injection

(* Chunks behind a buffer are counted as chunks only.                       *)
LEMMA CountChunks ==
    ASSUME NEW s \in Seq(Frames), NEW chunks \in Seq(Frames),
           \A i \in 1 .. Len(chunks) : chunks[i].frame = "chunk"
    PROVE  /\ s \o chunks \in Seq(Frames)
           /\ \A kinds : Upload!Count(s \o chunks, kinds)
                  = Upload!Count(s, kinds) + IF "chunk" \in kinds THEN Len(chunks) ELSE 0
<1> DEFINE n == Len(chunks)
           filled == s \o chunks
<1>2. n \in Nat /\ \A i \in 1 .. n : chunks[i].frame = "chunk"
  OBVIOUS
<1>3. /\ Len(s) \in Nat /\ DOMAIN s = 1 .. Len(s)
      /\ filled \in Seq(Frames) /\ DOMAIN filled = 1 .. Len(s) + n
      /\ \A i \in 1 .. Len(s) : filled[i] = s[i]
      /\ \A i \in Len(s) + 1 .. Len(s) + n : filled[i] = chunks[i - Len(s)]
  BY <1>2
<1>4. \A i \in Len(s) + 1 .. Len(s) + n : filled[i].frame = "chunk"
  BY <1>2, <1>3
<1> HIDE DEF filled, n
<1>5. ASSUME NEW kinds
      PROVE  Upload!Count(filled, kinds)
                 = Upload!Count(s, kinds) + IF "chunk" \in kinds THEN n ELSE 0
  <2> DEFINE T == {i \in DOMAIN s : s[i].frame \in kinds}
             U == {i \in DOMAIN filled : filled[i].frame \in kinds}
             V == Len(s) + 1 .. Len(s) + n
  <2>1. IsFiniteSet(T) /\ Upload!Count(s, kinds) \in Nat
    BY CountType
  <2>4. /\ Cardinality(T) = Upload!Count(s, kinds)
        /\ Cardinality(U) = Upload!Count(filled, kinds)
    BY CountIsCardinality
  <2>2. CASE "chunk" \in kinds
    <3>1. U = T \cup V /\ T \cap V = {}
      <4>1. DOMAIN filled = (DOMAIN s) \cup V /\ (DOMAIN s) \cap V = {}
        BY <1>2, <1>3
      <4>2. \A i \in DOMAIN s : filled[i] = s[i]
        BY <1>2, <1>3
      <4>3. \A i \in V : filled[i].frame \in kinds
        BY <1>4, <2>2
      <4> HIDE DEF V
      <4> QED BY <4>1, <4>2, <4>3
    <3>2. IsFiniteSet(V) /\ Cardinality(V) = n
      BY <1>2, <1>3, FS_Interval
    <3> HIDE DEF T, U, V
    <3>3. Cardinality(T \cup V) = Cardinality(T) + Cardinality(V) - Cardinality(T \cap V)
      BY <2>1, <3>2, FS_Union
    <3>4. Cardinality(T \cap V) = 0
      BY <3>1, FS_EmptySet
    <3> QED BY <1>2, <2>1, <2>2, <2>4, <3>1, <3>2, <3>3, <3>4
  <2>3. CASE "chunk" \notin kinds
    <3>1. U = T
      BY <1>2, <1>3, <1>4, <2>3
    <3> HIDE DEF T, U
    <3> QED BY <2>1, <2>3, <2>4, <3>1
  <2> QED BY <2>2, <2>3
<1> QED BY <1>3, <1>5 DEF filled, n

(* The pump stops at the first chunk that does not fit.                     *)
LEMMA FittingStops ==
    ASSUME LinksAssumption, NEW bytes \in Nat, NEW left \in Nat
    PROVE  LET n == Upload!Fitting(bytes, left)
           IN /\ n \in 0 .. left
              /\ n > 0 => bytes + n * ChunkSize <= BacklogLimit
<1> DEFINE room(m) == Upload!RoomForChunk(bytes + m * ChunkSize)
           Stops == {n \in Nat : n = left \/ ~room(n)}
<1>1. \E n \in Stops : \A m \in Stops : n <= m
  <2>1. IsWellFoundedOn({ss \in Nat \X Nat : ss[1] < ss[2]}, Nat)
    BY NatLessThanWellFounded DEF OpToRel
  <2>2. Stops \in SUBSET Nat /\ left \in Stops
    OBVIOUS
  <2> HIDE DEF Stops
  <2>3. \E x \in Stops :
           \A y \in Stops : <<y, x>> \notin {ss \in Nat \X Nat : ss[1] < ss[2]}
    BY <2>1, <2>2, WFMin
  <2>4. \A x, y \in Nat : <<y, x>> \notin {ss \in Nat \X Nat : ss[1] < ss[2]} => x <= y
    OBVIOUS
  <2> QED BY <2>2, <2>3, <2>4
<1>2. PICK stop \in Stops : \A m \in Stops : stop <= m
  BY <1>1
<1>3. /\ stop \in 0 .. left
      /\ \A m \in 0 .. left : m < stop => room(m)
      /\ stop = left \/ ~room(stop)
  <2>1. left \in Stops /\ stop \in Nat
    OBVIOUS
  <2>2. \A m \in Nat : m < stop => m \notin Stops
    BY <1>2
  <2> QED BY <1>2, <2>1, <2>2
<1> DEFINE n == Upload!Fitting(bytes, left)
<1>4. /\ n \in 0 .. left
      /\ \A m \in 0 .. left : m < n => room(m)
  BY <1>3 DEF Upload!Fitting
<1> HIDE DEF n
<1>5. ASSUME n > 0
      PROVE  bytes + n * ChunkSize <= BacklogLimit
  <2>1. n - 1 \in 0 .. left /\ n - 1 < n
    BY <1>4, <1>5
  <2>2. Upload!RoomForChunk(bytes + (n - 1) * ChunkSize)
    BY <1>4, <2>1
  <2>3. /\ n - 1 \in Nat /\ (n - 1) * ChunkSize \in Nat
        /\ n * ChunkSize = (n - 1) * ChunkSize + ChunkSize
    <3>1. n - 1 \in Nat /\ n \in Nat /\ ChunkSize \in Nat
      BY <1>4, <2>1, UploadSizes
    <3> QED BY <3>1
  <2> DEFINE before == (n - 1) * ChunkSize
  <2>4. bytes + before = 0 \/ bytes + before + ChunkSize <= BacklogLimit
    BY <2>2 DEF Upload!RoomForChunk
  <2> HIDE DEF before
  <2>5. before \in Nat /\ n * ChunkSize = before + ChunkSize
    BY <2>3 DEF before
  <2> QED BY <2>4, <2>5, UploadSizes
<1> QED BY <1>4, <1>5 DEF n
(* All bytes of a buffer are at least those of files.                       *)
LEMMA BacklogInBytes ==
    ASSUME LinksAssumption, NEW s \in Seq(Frames)
    PROVE  Backlog(s) \in Nat /\ Upload!Bytes(s) \in Nat /\ Backlog(s) <= Upload!Bytes(s)
<1> DEFINE chunks == Upload!Count(s, {"chunk"})
           ends == Upload!Count(s, {"end"})
           others == Upload!Count(s, {"hello", "begin", "end"})
<1>1. chunks \in Nat /\ ends \in Nat /\ others \in Nat
  BY CountType
<1>2. ends <= others
  <2>1. {"end"} \in SUBSET {"hello", "begin", "end"}
    OBVIOUS
  <2> QED BY <2>1, CountFewer
<1>3. Backlog(s) = ChunkSize * chunks + ends /\ Upload!Bytes(s) = ChunkSize * chunks + others
  BY DEF Backlog, Upload!Bytes
<1> HIDE DEF chunks, ends, others
<1>4. ChunkSize * chunks \in Nat
  BY <1>1, UploadSizes
<1> QED BY <1>1, <1>2, <1>3, <1>4

(* Less in the buffer is less of files.                                     *)
LEMMA BacklogTail ==
    ASSUME LinksAssumption, NEW s \in Seq(Frames), s # <<>>
    PROVE  Backlog(Tail(s)) <= Backlog(s)
<1> DEFINE c == Upload!Count(s, {"chunk"})
           d == Upload!Count(Tail(s), {"chunk"})
           e == Upload!Count(s, {"end"})
           f == Upload!Count(Tail(s), {"end"})
<1>1. Tail(s) \in Seq(Frames)
  OBVIOUS
<1>2. c \in Nat /\ d \in Nat /\ e \in Nat /\ f \in Nat
  BY <1>1, CountType
<1>3. d <= c /\ f <= e
  BY CountTail
<1>4. Backlog(s) = ChunkSize * c + e /\ Backlog(Tail(s)) = ChunkSize * d + f
  BY DEF Backlog
<1> HIDE DEF c, d, e, f
<1>5. ChunkSize * d <= ChunkSize * c
  <2>1. ChunkSize \in Nat
    BY UploadSizes
  <2> QED BY <1>2, <1>3, <2>1
<1>6. ChunkSize * c \in Nat /\ ChunkSize * d \in Nat
  BY <1>2, UploadSizes
<1> QED BY <1>2, <1>3, <1>4, <1>5, <1>6

(* A buffer stays within the limit when a frame leaves it.                  *)
LEMMA BufferTail ==
    ASSUME LinksAssumption, NEW b \in Buffers, b # <<>>
    PROVE  Tail(b) \in Buffers
<1>1. b \in Seq(Frames) /\ Tail(b) \in Seq(Frames) /\ Backlog(b) <= BacklogLimit
  BY DEF Buffers
<1>2. Backlog(Tail(b)) <= Backlog(b)
  BY <1>1, BacklogTail
<1>3. Backlog(Tail(b)) \in Nat /\ Backlog(b) \in Nat
  BY <1>1, BacklogInBytes
<1> QED BY <1>1, <1>2, <1>3, UploadSizes DEF Buffers

(* A control frame in front of an upload is no part of a file.              *)
LEMMA BacklogBegin ==
    ASSUME LinksAssumption, NEW s \in Seq(Frames), NEW f \in Frames,
           f.frame \in {"hello", "begin"}
    PROVE  Backlog(Append(s, f)) = Backlog(s)
<1>1. /\ Upload!Count(Append(s, f), {"chunk"}) = Upload!Count(s, {"chunk"})
      /\ Upload!Count(Append(s, f), {"end"}) = Upload!Count(s, {"end"})
  <2>1. f.frame \notin {"chunk"} /\ f.frame \notin {"end"}
    OBVIOUS
  <2>2. \A kinds : f.frame \notin kinds =>
            Upload!Count(Append(s, f), kinds) = Upload!Count(s, kinds) + 0
    BY CountAppend
  <2>3. \A kinds : Upload!Count(s, kinds) \in Nat
    BY CountType
  <2> QED BY <2>1, <2>2, <2>3
<1> QED BY <1>1 DEF Backlog

(* An empty buffer is within the limit.                                    *)
LEMMA BacklogNone ==
    ASSUME LinksAssumption
    PROVE  Backlog(<<>>) = 0
<1>1. \A kinds : Upload!Count(<<>>, kinds) = 0
  <2> SUFFICES ASSUME NEW kinds PROVE Upload!Count(<<>>, kinds) = 0
    OBVIOUS
  <2>1. {i \in DOMAIN <<>> : <<>>[i].frame \in kinds} = {}
    OBVIOUS
  <2> QED BY <2>1, CountIsCardinality, FS_EmptySet
<1> QED BY <1>1, UploadSizes DEF Backlog

(* Whatever the pump adds, the frames of files stay within the limit.       *)
LEMMA PumpWithinLimit ==
    ASSUME LinksAssumption, NEW b \in Seq(Frames), NEW u \in Uploads,
           Backlog(b) <= BacklogLimit
    PROVE  LET p == Upload!Pumped(b, u)
           IN /\ p.buffer \in Seq(Frames) /\ p.upload \in Uploads
              /\ Backlog(p.buffer) <= BacklogLimit
<1>1. CASE u.req = 0
  <2>1. Upload!Pumped(b, u) = [buffer |-> b, upload |-> u]
    BY <1>1 DEF Upload!Pumped, Upload!NoRequest
  <2> QED BY <2>1
<1>2. CASE u.req # 0
  <2> DEFINE bytes == Upload!Bytes(b)
             left == Chunks + 1 - u.next
             n == Upload!Fitting(bytes, left)
             chunks == [i \in 1 .. n |-> Upload!Chunk(u.req, u.next + i - 1)]
             filled == b \o chunks
             done == Append(filled, Upload!End(u.req))
  <2>1. /\ u.req \in Nat /\ u.next \in 1 .. Chunks + 1 /\ left \in Nat
        /\ u.next \in Nat \ {0}
    BY UploadSizes DEF Uploads
  <2>2. bytes \in Nat /\ Backlog(b) \in Nat /\ Backlog(b) <= bytes
    BY BacklogInBytes
  <2>3. n \in 0 .. left /\ (n > 0 => bytes + n * ChunkSize <= BacklogLimit)
    BY <2>1, <2>2, FittingStops
  <2>4. n \in Nat
    BY <2>3
  <2>5. Upload!Pumped(b, u) =
            IF u.next + n <= Chunks \/ Upload!Bytes(filled) > BacklogLimit - EndReserve
            THEN [buffer |-> filled, upload |-> [u EXCEPT !.next = @ + n]]
            ELSE [buffer |-> done, upload |-> Upload!NoUpload]
    BY <1>2 DEF Upload!Pumped, Upload!NoRequest
  <2> HIDE DEF n
  <2>12. chunks \in Seq(Frames) /\ Len(chunks) = n /\ \A i \in 1 .. n : chunks[i].frame = "chunk"
    <3>1. \A i \in 1 .. n : /\ Upload!Chunk(u.req, u.next + i - 1) \in Frames
                            /\ Upload!Chunk(u.req, u.next + i - 1).frame = "chunk"
      BY <2>1, <2>4 DEF Upload!Chunk, Frames
    <3>2. chunks \in [1 .. n -> Frames] /\ \A i \in 1 .. n : chunks[i].frame = "chunk"
      BY <3>1
    <3> HIDE DEF chunks
    <3> QED BY <2>4, <3>2
  <2> HIDE DEF chunks
  <2>6. /\ filled \in Seq(Frames)
        /\ \A kinds : Upload!Count(filled, kinds)
               = Upload!Count(b, kinds) + IF "chunk" \in kinds THEN n ELSE 0
    BY <2>12, CountChunks
  <2> HIDE DEF filled
  <2>7. Backlog(filled) = Backlog(b) + n * ChunkSize
    <3> DEFINE c == Upload!Count(b, {"chunk"})
               e == Upload!Count(b, {"end"})
    <3>1. c \in Nat /\ e \in Nat
      BY CountType
    <3>2. Upload!Count(filled, {"chunk"}) = c + n /\ Upload!Count(filled, {"end"}) = e
      <4>1. "chunk" \in {"chunk"} /\ "chunk" \notin {"end"}
        OBVIOUS
      <4> QED BY <2>6, <3>1, <4>1
    <3>3. Backlog(b) = ChunkSize * c + e /\ Backlog(filled) = ChunkSize * (c + n) + e
      BY <3>2 DEF Backlog
    <3> HIDE DEF c, e
    <3>4. ChunkSize * (c + n) = ChunkSize * c + n * ChunkSize
      BY <2>4, <3>1, UploadSizes
    <3>5. ChunkSize * c \in Nat /\ n * ChunkSize \in Nat
      BY <2>4, <3>1, UploadSizes
    <3> QED BY <3>1, <3>3, <3>4, <3>5
  <2>8. Backlog(filled) <= BacklogLimit
    <3>1. CASE n = 0
      <4>1. n * ChunkSize = 0
        BY <3>1, UploadSizes
      <4> QED BY <2>2, <2>7, <4>1
    <3>2. CASE n > 0
      <4> DEFINE added == n * ChunkSize
      <4>1. added \in Nat
        BY <2>4, UploadSizes
      <4>2. bytes + added <= BacklogLimit
        BY <2>3, <3>2
      <4>3. Backlog(filled) = Backlog(b) + added
        BY <2>7
      <4>4. BacklogLimit \in Nat
        BY UploadSizes
      <4> HIDE DEF added, bytes
      <4> QED BY <2>2, <4>1, <4>2, <4>3, <4>4
    <3> QED BY <2>4, <3>1, <3>2
  <2>9. [u EXCEPT !.next = @ + n] \in Uploads
    <3>1. u.next + n \in 1 .. Chunks + 1
      <4>1. n \in 0 .. Chunks + 1 - u.next
        BY <2>3
      <4>2. Chunks \in Nat /\ u.next \in Nat \ {0}
        BY <2>1, UploadSizes
      <4> HIDE DEF left, bytes
      <4> QED BY <4>1, <4>2
    <3>2. u \in [req : Nat, next : 1 .. Chunks + 1]
      BY DEF Uploads
    <3>3. [u EXCEPT !.next = @ + n] = [u EXCEPT !.next = u.next + n]
      OBVIOUS
    <3> QED BY <3>1, <3>2, <3>3 DEF Uploads
  <2>10. CASE u.next + n <= Chunks \/ Upload!Bytes(filled) > BacklogLimit - EndReserve
    BY <2>5, <2>6, <2>8, <2>9, <2>10
  <2>11. CASE ~(u.next + n <= Chunks \/ Upload!Bytes(filled) > BacklogLimit - EndReserve)
    <3>1. Upload!Pumped(b, u) = [buffer |-> done, upload |-> Upload!NoUpload]
      BY <2>5, <2>11
    <3>2. Upload!End(u.req) \in Frames /\ Upload!End(u.req).frame = "end"
      BY <2>1, UploadSizes DEF Upload!End, Frames
    <3>3. Upload!NoUpload \in Uploads
      BY UploadSizes DEF Upload!NoUpload, Upload!NoRequest, Uploads
    <3>4. done \in Seq(Frames)
      BY <2>6, <3>2
    <3>5. Backlog(done) = Backlog(filled) + 1
      <4> DEFINE c == Upload!Count(filled, {"chunk"})
                 e == Upload!Count(filled, {"end"})
      <4>1. c \in Nat /\ e \in Nat
        BY <2>6, CountType
      <4>2. Upload!Count(done, {"chunk"}) = c /\ Upload!Count(done, {"end"}) = e + 1
        <5>1. Upload!End(u.req).frame \notin {"chunk"} /\ Upload!End(u.req).frame \in {"end"}
          BY <3>2
        <5> QED BY <2>6, <3>2, <4>1, <5>1, CountAppend
      <4>3. Backlog(filled) = ChunkSize * c + e /\ Backlog(done) = ChunkSize * c + (e + 1)
        BY <4>2 DEF Backlog
      <4> HIDE DEF c, e
      <4>4. ChunkSize * c \in Nat
        BY <4>1, UploadSizes
      <4> QED BY <4>1, <4>3, <4>4
    <3>6. /\ Upload!Bytes(filled) \in Nat /\ Backlog(filled) \in Nat
          /\ Backlog(filled) <= Upload!Bytes(filled)
      BY <2>6, BacklogInBytes
    <3>7. Upload!Bytes(filled) <= BacklogLimit - EndReserve
      BY <2>11, <3>6, UploadSizes
    <3>8. Backlog(done) <= BacklogLimit
      BY <3>5, <3>6, <3>7, UploadSizes
    <3> HIDE DEF done
    <3> QED BY <3>1, <3>3, <3>4, <3>8
  <2> QED BY <2>10, <2>11
<1> QED BY <1>1, <1>2
(* The actions of an upload, one by one.                                    *)
LEMMA UploadCases ==
    ASSUME Upload!Next
    PROVE  \/ Upload!Connect \/ Upload!Established \/ Upload!ConnectFails
           \/ Upload!LinkLost \/ Upload!DisconnectAll \/ Upload!QueueFileUpload
           \/ Upload!BytesWritten \/ Upload!ManagerReads
           \/ Upload!NodeStops \/ Upload!NodeStarts
           \/ \E k \in Upload!Links :
                 \/ Upload!NodeReads(k) \/ Upload!ThreadApplies(k) \/ Upload!ThreadAnswers(k)
                 \/ Upload!ClientLeaves(k) \/ Upload!SocketDeleted(k)
BY DEF Upload!Next, Upload!ManagerNext, Upload!NodeNext

(* The initial values of upload, session, client and thread.               *)
LEMMA NothingOpen ==
    ASSUME LinksAssumption
    PROVE  /\ Upload!NoUpload \in Uploads
           /\ Upload!NoSession \in Sessions /\ ~Upload!NoSession.active
           /\ Upload!NewClient \in ClientStates /\ ~Upload!NewClient.session.active
           /\ Upload!NoThread \in Threads /\ Upload!NoThread.at = "none"
<1>1. <<>> \in Seq(Nat \X Nat)
  OBVIOUS
<1>2. Upload!NoUpload \in Uploads
  BY UploadSizes DEF Upload!NoUpload, Upload!NoRequest, Uploads
<1>3. Upload!NoSession \in Sessions /\ ~Upload!NoSession.active
  BY <1>1 DEF Upload!NoSession, Upload!NoRequest, Sessions
<1>4. Upload!NewClient \in ClientStates /\ Upload!NewClient.session = Upload!NoSession
  BY <1>3 DEF Upload!NewClient, ClientStates
<1>5. Upload!NoThread \in Threads /\ Upload!NoThread.at = "none"
  BY <1>1 DEF Upload!NoThread, Upload!NoRequest, Threads
<1> QED BY <1>2, <1>3, <1>4, <1>5
(* Before the first connection no link carries anything.                   *)
LEMMA UploadInitially ==
    ASSUME LinksAssumption, Upload!Init
    PROVE  UploadInv
<1> USE DEF Upload!Init
<1>1. ManagerTyping
  BY NothingOpen DEF ManagerTyping, Upload!NoLink
<1>2. LinksInOrder
  <2>1. <<>> \in Seq(Frames) /\ <<>> \in Buffers
    BY BacklogNone, UploadSizes DEF Buffers
  <2> QED BY <2>1 DEF LinksInOrder
<1>3. NodeInOrder
  BY NothingOpen DEF NodeInOrder, Clients, Preparations
<1>4. Upload!AcceptedUploadIsWhole
  BY DEF Upload!AcceptedUploadIsWhole
<1> QED BY <1>1, <1>2, <1>3, <1>4 DEF UploadInv

(* The Manager's side: a connection is made, used and given up.             *)
LEMMA ManagerTypingStep ==
    ASSUME LinksAssumption, UploadInv, Upload!Next
    PROVE  ManagerTyping'
<1> USE DEF ManagerTyping
<1>1. ManagerTyping
  BY DEF UploadInv
<1>2. ASSUME Upload!EndpointReset
      PROVE  ManagerTyping'
  BY <1>1, <1>2, NothingOpen DEF Upload!EndpointReset, Upload!NoLink
<1>3. ASSUME UNCHANGED Upload!managerVars
      PROVE  ManagerTyping'
  BY <1>1, <1>3 DEF Upload!managerVars
<1>4. CASE Upload!Connect
  BY <1>1, <1>4, UploadSizes DEF Upload!Connect, Upload!Links
<1>5. CASE Upload!Established
  BY <1>1, <1>5 DEF Upload!Established
<1>6. CASE Upload!ConnectFails \/ Upload!LinkLost
  BY <1>2, <1>6 DEF Upload!ConnectFails, Upload!LinkLost
<1>7. CASE Upload!DisconnectAll
  BY <1>1, <1>7 DEF Upload!DisconnectAll, Upload!NoLink
<1>8. CASE Upload!QueueFileUpload
  <2>1. upload' \in Uploads
    <3>1. CASE state # "Connected" \/ upload.req # 0
      BY <1>1, <1>8, <3>1 DEF Upload!QueueFileUpload, Upload!NoRequest
    <3>2. CASE ~(state # "Connected" \/ upload.req # 0)
      <4> DEFINE r == uploadsAsked + 1
                 b == Append(buffer[socket], Upload!Begin(r))
                 u == [req |-> r, next |-> 1]
      <4>1. upload' = Upload!Pumped(b, u).upload
        BY <1>8, <3>2 DEF Upload!QueueFileUpload, Upload!NoRequest
      <4>2. u \in Uploads
        BY <1>1, UploadSizes DEF Uploads
      <4>3. b \in Seq(Frames) /\ Backlog(b) <= BacklogLimit
        <5>1. Upload!Begin(r) \in Frames /\ Upload!Begin(r).frame = "begin"
          BY <1>1 DEF Upload!Begin, Frames
        <5>2. buffer[socket] \in Buffers
          BY <1>1, <3>2 DEF UploadInv, LinksInOrder
        <5> QED BY <5>1, <5>2, BacklogBegin DEF Buffers
      <4> HIDE DEF b, u
      <4> QED BY <4>1, <4>2, <4>3, PumpWithinLimit
    <3> QED BY <3>1, <3>2
  <2> QED BY <1>1, <1>8, <2>1 DEF Upload!QueueFileUpload
<1>9. CASE Upload!BytesWritten
  <2> DEFINE b == Tail(buffer[socket])
  <2>1. upload' = Upload!Pumped(b, upload).upload
    BY <1>9 DEF Upload!BytesWritten
  <2>2. b \in Seq(Frames) /\ Backlog(b) <= BacklogLimit
    <3>1. buffer[socket] \in Buffers /\ buffer[socket] # <<>>
      BY <1>1, <1>9 DEF UploadInv, LinksInOrder, Upload!BytesWritten
    <3> QED BY <3>1, BufferTail DEF Buffers
  <2> HIDE DEF b
  <2>3. upload' \in Uploads
    BY <1>1, <2>1, <2>2, PumpWithinLimit
  <2> QED BY <1>1, <1>9, <2>3 DEF Upload!BytesWritten
<1>10. CASE Upload!ManagerReads
  BY <1>1, <1>10 DEF Upload!ManagerReads
<1>11. CASE Upload!NodeStops
  BY <1>2, <1>3, <1>11 DEF Upload!NodeStops
<1>12. CASE Upload!NodeStarts
  BY <1>3, <1>12 DEF Upload!NodeStarts
<1>13. ASSUME NEW k \in Upload!Links, Upload!ClientLeaves(k)
       PROVE  ManagerTyping'
  BY <1>2, <1>3, <1>13 DEF Upload!ClientLeaves
<1>14. ASSUME NEW k \in Upload!Links,
              \/ Upload!NodeReads(k) \/ Upload!ThreadApplies(k) \/ Upload!ThreadAnswers(k)
              \/ Upload!SocketDeleted(k)
       PROVE  ManagerTyping'
  BY <1>3, <1>14 DEF Upload!NodeReads, Upload!ThreadApplies, Upload!ThreadAnswers,
                     Upload!SocketDeleted
<1> QED
  BY UploadCases, <1>4, <1>5, <1>6, <1>7, <1>8, <1>9, <1>10, <1>11, <1>12, <1>13, <1>14
(* The connections: what is written and under way is frames, and what is    *)
(* written stays within the limit.                                          *)
LEMMA LinksInOrderStep ==
    ASSUME LinksAssumption, UploadInv, Upload!Next
    PROVE  LinksInOrder'
<1> USE DEF LinksInOrder
<1>1. LinksInOrder /\ ManagerTyping
  BY DEF UploadInv
<1>2. /\ <<>> \in Seq(Frames) /\ <<>> \in Buffers
      /\ <<Upload!Hello>> \in Buffers
  <2>1. Upload!Hello \in Frames /\ Upload!Hello.frame = "hello" /\ <<>> \in Seq(Frames)
    BY DEF Upload!Hello, Upload!NoRequest, Frames
  <2>2. Append(<<>>, Upload!Hello) \in Seq(Frames)
        /\ Append(<<>>, Upload!Hello) = <<Upload!Hello>>
    BY <2>1
  <2>3. Backlog(Append(<<>>, Upload!Hello)) = 0 /\ Backlog(<<>>) = 0
    BY <2>1, BacklogBegin, BacklogNone
  <2> QED BY <2>1, <2>2, <2>3, UploadSizes DEF Buffers
<1>3. ASSUME UNCHANGED <<buffer, wire>>
      PROVE  LinksInOrder'
  BY <1>1, <1>3
<1>4. ASSUME NEW k \in Upload!Links, NEW b \in Buffers,
             buffer' = [buffer EXCEPT ![k] = b], wire' \in [Upload!Links -> Seq(Frames)]
      PROVE  LinksInOrder'
  BY <1>1, <1>4
<1>5. state # "Disconnected" => socket \in Upload!Links
  BY <1>1 DEF ManagerTyping
<1>6. CASE Upload!Connect \/ Upload!ConnectFails \/ Upload!ManagerReads \/ Upload!NodeStarts
  BY <1>3, <1>6 DEF Upload!Connect, Upload!ConnectFails, Upload!ManagerReads,
                    Upload!NodeStarts, Upload!linkVars
<1>7. CASE Upload!Established
  BY <1>1, <1>2, <1>4, <1>5, <1>7 DEF Upload!Established
<1>8. CASE Upload!LinkLost
  BY <1>1, <1>2, <1>4, <1>5, <1>8 DEF Upload!LinkLost
<1>9. CASE Upload!DisconnectAll
  BY <1>1, <1>2, <1>4, <1>5, <1>9 DEF Upload!DisconnectAll
<1>10. CASE Upload!QueueFileUpload
  <2>1. CASE state # "Connected" \/ upload.req # 0
    BY <1>3, <1>10, <2>1 DEF Upload!QueueFileUpload, Upload!NoRequest
  <2>2. CASE ~(state # "Connected" \/ upload.req # 0)
    <3> DEFINE r == uploadsAsked + 1
               b == Append(buffer[socket], Upload!Begin(r))
               u == [req |-> r, next |-> 1]
               p == Upload!Pumped(b, u)
    <3>1. buffer' = [buffer EXCEPT ![socket] = p.buffer] /\ wire' = wire
      BY <1>10, <2>2 DEF Upload!QueueFileUpload, Upload!NoRequest
    <3>2. u \in Uploads
      BY <1>1, UploadSizes DEF Uploads, ManagerTyping
    <3>3. b \in Seq(Frames) /\ Backlog(b) <= BacklogLimit
      <4>1. Upload!Begin(r) \in Frames /\ Upload!Begin(r).frame = "begin"
        BY <1>1 DEF Upload!Begin, Frames, ManagerTyping
      <4>2. buffer[socket] \in Buffers
        BY <1>1, <1>5, <2>2
      <4> QED BY <4>1, <4>2, BacklogBegin DEF Buffers
    <3> HIDE DEF b, u
    <3>4. p.buffer \in Buffers
      BY <3>2, <3>3, PumpWithinLimit DEF Buffers
    <3> HIDE DEF p
    <3> QED BY <1>1, <1>4, <1>5, <2>2, <3>1, <3>4
  <2> QED BY <2>1, <2>2
<1>11. CASE Upload!BytesWritten
  <2> DEFINE b == Tail(buffer[socket])
             p == Upload!Pumped(b, upload)
  <2>1. /\ state = "Connected" /\ buffer[socket] # <<>>
        /\ wire' = [wire EXCEPT ![socket] = Append(wire[socket], Head(buffer[socket]))]
        /\ buffer' = [buffer EXCEPT ![socket] = p.buffer]
    BY <1>11 DEF Upload!BytesWritten
  <2>2. buffer[socket] \in Buffers /\ socket \in Upload!Links
    BY <1>1, <1>5, <2>1
  <2>3. b \in Buffers /\ upload \in Uploads
    BY <1>1, <2>1, <2>2, BufferTail DEF ManagerTyping
  <2>4. Head(buffer[socket]) \in Frames
    BY <2>1, <2>2 DEF Buffers
  <2> HIDE DEF b
  <2>5. p.buffer \in Buffers
    BY <2>3, PumpWithinLimit DEF Buffers
  <2> HIDE DEF p
  <2>6. wire' \in [Upload!Links -> Seq(Frames)]
    BY <1>1, <2>1, <2>2, <2>4
  <2> QED BY <1>4, <2>1, <2>2, <2>5, <2>6
<1>12. CASE Upload!NodeStops
  BY <1>2, <1>12 DEF Upload!NodeStops
<1>13. ASSUME NEW k \in Upload!Links, Upload!NodeReads(k)
       PROVE  LinksInOrder'
  <2>1. /\ wire[k] # <<>> /\ wire' = [wire EXCEPT ![k] = Tail(wire[k])] /\ buffer' = buffer
    BY <1>13 DEF Upload!NodeReads
  <2>2. Tail(wire[k]) \in Seq(Frames)
    BY <1>1, <2>1
  <2> QED BY <1>1, <2>1, <2>2
<1>14. ASSUME NEW k \in Upload!Links,
              Upload!ThreadApplies(k) \/ Upload!ThreadAnswers(k) \/ Upload!SocketDeleted(k)
       PROVE  LinksInOrder'
  BY <1>3, <1>14 DEF Upload!ThreadApplies, Upload!ThreadAnswers, Upload!SocketDeleted,
                     Upload!linkVars
<1>15. ASSUME NEW k \in Upload!Links, Upload!ClientLeaves(k)
       PROVE  LinksInOrder'
  BY <1>1, <1>2, <1>4, <1>15 DEF Upload!ClientLeaves
<1> QED
  BY UploadCases, <1>6, <1>7, <1>8, <1>9, <1>10, <1>11, <1>12, <1>13, <1>14, <1>15
(* The first chunk starts a file, the next one in order continues it.       *)
LEMMA ChunksAppend ==
    ASSUME NEW r \in Nat, NEW n \in Nat
    PROVE  /\ FirstChunks(r, n) \in Seq(Nat \X Nat) /\ Len(FirstChunks(r, n)) = n
           /\ Append(FirstChunks(r, n), <<r, n + 1>>) = FirstChunks(r, n + 1)
           /\ FirstChunks(r, 0) = <<>>
<1>1. /\ FirstChunks(r, n) \in Seq(Nat \X Nat) /\ Len(FirstChunks(r, n)) = n
      /\ FirstChunks(r, n + 1) \in Seq(Nat \X Nat) /\ Len(FirstChunks(r, n + 1)) = n + 1
      /\ \A i \in 1 .. n : FirstChunks(r, n)[i] = <<r, i>>
      /\ \A i \in 1 .. n + 1 : FirstChunks(r, n + 1)[i] = <<r, i>>
  BY DEF FirstChunks
<1>2. Append(FirstChunks(r, n), <<r, n + 1>>) = FirstChunks(r, n + 1)
  <2> DEFINE P == Nat \X Nat
             e == <<r, n + 1>>
             s == FirstChunks(r, n)
             t == FirstChunks(r, n + 1)
  <2>1. e \in P
    OBVIOUS
  <2>2. s \in Seq(P) /\ Len(s) = n /\ t \in Seq(P) /\ Len(t) = n + 1
    BY <1>1
  <2>3. t[n + 1] = e /\ \A i \in 1 .. n : t[i] = s[i]
    <3>1. n + 1 \in 1 .. n + 1 /\ \A i \in 1 .. n : i \in 1 .. n + 1
      OBVIOUS
    <3> QED BY <3>1 DEF FirstChunks
  <2> HIDE DEF P, e, s, t
  <2>4. /\ Append(s, e) \in Seq(P) /\ Len(Append(s, e)) = n + 1
        /\ Append(s, e)[n + 1] = e /\ \A i \in 1 .. n : Append(s, e)[i] = s[i]
    BY <2>1, <2>2
  <2>5. \A i \in 1 .. n + 1 : i \in 1 .. n \/ i = n + 1
    OBVIOUS
  <2>6. \A i \in 1 .. n + 1 : Append(s, e)[i] = t[i]
    BY <2>3, <2>4, <2>5
  <2>7. Append(s, e) = t
    BY <2>2, <2>4, <2>6, SeqEqual
  <2> QED BY <2>7 DEF e, s, t
<1>3. FirstChunks(r, 0) = <<>>
  <2>1. FirstChunks(r, 0) \in Seq(Nat \X Nat) /\ Len(FirstChunks(r, 0)) = 0
    BY DEF FirstChunks
  <2> QED BY <2>1
<1> QED BY <1>1, <1>2, <1>3

(* A session that is begun, continued or given up is still in order.        *)
LEMMA SessionSteps ==
    ASSUME NEW s \in Sessions, NEW f \in Frames,
           s.active => s.data = FirstChunks(s.req, s.next - 1)
    PROVE  /\ Upload!Began(s, f) \in Sessions
           /\ Upload!Began(s, f).data = FirstChunks(Upload!Began(s, f).req,
                                                   Upload!Began(s, f).next - 1)
           /\ Upload!InOrder(s, f) =>
                 /\ Upload!Appended(s, f) \in Sessions
                 /\ Upload!Appended(s, f).data = FirstChunks(Upload!Appended(s, f).req,
                                                            Upload!Appended(s, f).next - 1)
           /\ Upload!Whole(s, f) => s.data = FirstChunks(f.req, Chunks)
<1>1. f.req \in Nat /\ f.index \in Nat
  BY DEF Frames
<1>2. s.req \in Nat /\ s.next \in Nat \ {0} /\ s.data \in Seq(Nat \X Nat)
  BY DEF Sessions
<1>3. /\ Upload!Began(s, f) \in Sessions
      /\ Upload!Began(s, f).data = <<>> /\ Upload!Began(s, f).req = f.req
      /\ Upload!Began(s, f).next - 1 = 0
  <2>1. <<>> \in Seq(Nat \X Nat)
    OBVIOUS
  <2> QED BY <1>1, <2>1 DEF Upload!Began, Sessions
<1>4. ASSUME Upload!InOrder(s, f)
      PROVE  /\ Upload!Appended(s, f) \in Sessions
             /\ Upload!Appended(s, f).data = FirstChunks(Upload!Appended(s, f).req,
                                                        Upload!Appended(s, f).next - 1)
  <2>1. s.active /\ f.req = s.req /\ f.index = s.next
    BY <1>4 DEF Upload!InOrder
  <2> DEFINE d == Append(s.data, <<f.req, f.index>>)
  <2>2. Upload!Appended(s, f) = [s EXCEPT !.next = s.next + 1, !.data = d]
    BY DEF Upload!Appended
  <2>3. d = FirstChunks(s.req, s.next)
    <3>1. s.next - 1 \in Nat /\ (s.next - 1) + 1 = s.next
      BY <1>2
    <3>2. Append(FirstChunks(s.req, s.next - 1), <<s.req, (s.next - 1) + 1>>)
              = FirstChunks(s.req, (s.next - 1) + 1)
      BY <1>2, <3>1, ChunksAppend
    <3> QED BY <2>1, <3>1, <3>2
  <2>4. d \in Seq(Nat \X Nat)
    BY <1>1, <1>2
  <2> HIDE DEF d
  <2>5. /\ Upload!Appended(s, f) \in Sessions
        /\ Upload!Appended(s, f).data = d /\ Upload!Appended(s, f).req = s.req
        /\ Upload!Appended(s, f).next - 1 = s.next
    <3>1. /\ s \in [active : BOOLEAN, req : Nat, next : Nat \ {0}, data : Seq(Nat \X Nat)]
          /\ s.next + 1 \in Nat \ {0} /\ (s.next + 1) - 1 = s.next
      BY <1>2 DEF Sessions
    <3> DEFINE D == Seq(Nat \X Nat)
               n == s.next + 1
    <3> HIDE DEF D, n
    <3>2. /\ s \in [active : BOOLEAN, req : Nat, next : Nat \ {0}, data : D]
          /\ d \in D /\ n \in Nat \ {0} /\ n - 1 = s.next
          /\ Upload!Appended(s, f) = [s EXCEPT !.next = n, !.data = d]
      BY <2>2, <2>4, <3>1 DEF D, n
    <3>3. /\ Upload!Appended(s, f) \in [active : BOOLEAN, req : Nat, next : Nat \ {0}, data : D]
          /\ Upload!Appended(s, f).data = d /\ Upload!Appended(s, f).req = s.req
          /\ Upload!Appended(s, f).next = n
      BY <3>2
    <3> QED BY <3>2, <3>3 DEF Sessions, D
  <2> QED BY <2>3, <2>5
<1>5. ASSUME Upload!Whole(s, f)
      PROVE  s.data = FirstChunks(f.req, Chunks)
  <2>1. s.active /\ f.req = s.req /\ Len(s.data) = Chunks
    BY <1>5 DEF Upload!Whole
  <2>2. s.data = FirstChunks(s.req, s.next - 1) /\ s.next - 1 \in Nat
    BY <1>2, <2>1
  <2>3. Len(FirstChunks(s.req, s.next - 1)) = s.next - 1
    BY <1>2, <2>2, ChunksAppend
  <2> QED BY <2>1, <2>2, <2>3
<1> QED BY <1>1, <1>3, <1>4, <1>5, ChunksAppend

(* Clients and threads of the node stay in order.                           *)
LEMMA NodeStep ==
    ASSUME LinksAssumption, UploadInv, Upload!Next
    PROVE  NodeInOrder'
<1>1. LinksInOrder /\ ManagerTyping /\ NodeInOrder
  BY DEF UploadInv
<1>2. /\ client \in [Upload!Links -> Clients] /\ thread \in [Upload!Links -> Preparations]
  BY <1>1 DEF NodeInOrder
<1>3. ASSUME client' \in [Upload!Links -> Clients],
             thread' \in [Upload!Links -> Preparations]
      PROVE  NodeInOrder'
  BY <1>3 DEF NodeInOrder
<1>4. ASSUME NEW c \in Clients, NEW place \in {"none", "connected", "leaving", "removed"},
             NEW b \in BOOLEAN
      PROVE  /\ [c EXCEPT !.at = place] \in Clients /\ [c EXCEPT !.hello = b] \in Clients
             /\ [c EXCEPT !.preparing = b] \in Clients
  BY DEF Clients, ClientStates
<1>5. ASSUME NEW c \in Clients, NEW s \in Sessions, NEW b \in BOOLEAN,
             s.active => s.data = FirstChunks(s.req, s.next - 1)
      PROVE  /\ [c EXCEPT !.session = s] \in Clients
             /\ [c EXCEPT !.session = s, !.preparing = b] \in Clients
  BY <1>5 DEF Clients, ClientStates
<1>6. CASE UNCHANGED <<client, thread>>
  BY <1>2, <1>3, <1>6
<1>7. CASE Upload!Connect \/ Upload!ConnectFails \/ Upload!LinkLost \/ Upload!DisconnectAll
           \/ Upload!QueueFileUpload \/ Upload!BytesWritten \/ Upload!ManagerReads
           \/ Upload!NodeStarts
  BY <1>6, <1>7 DEF Upload!Connect, Upload!ConnectFails, Upload!LinkLost,
       Upload!DisconnectAll, Upload!QueueFileUpload, Upload!BytesWritten,
       Upload!ManagerReads, Upload!NodeStarts, Upload!nodeVars
<1>8. CASE Upload!Established
  <2>1. /\ socket \in Upload!Links /\ thread' = thread
        /\ client' = [client EXCEPT ![socket] = [client[socket] EXCEPT !.at = "connected"]]
    BY <1>1, <1>8 DEF Upload!Established, ManagerTyping
  <2> QED BY <1>2, <1>3, <1>4, <2>1
<1>9. CASE Upload!NodeStops
  <2>1. /\ thread' = thread
        /\ client' = [k \in Upload!Links |->
                          IF client[k].at \in {"connected", "leaving"}
                          THEN [client[k] EXCEPT !.at = "removed"] ELSE client[k]]
    BY <1>9 DEF Upload!NodeStops
  <2> QED BY <1>2, <1>3, <1>4, <2>1
<1>10. ASSUME NEW k \in Upload!Links, Upload!NodeReads(k)
       PROVE  NodeInOrder'
  <2> DEFINE f == Head(wire[k])
             c == client[k]
  <2>1. f \in Frames
    BY <1>1, <1>10 DEF LinksInOrder, Upload!NodeReads
  <2>2. /\ c \in Clients /\ c.session \in Sessions
        /\ c.session.active => c.session.data = FirstChunks(c.session.req, c.session.next - 1)
    BY <1>2 DEF Clients, ClientStates
  <2>3. \/ Upload!OnHello(k, f) \/ Upload!OnBegin(k, f) \/ Upload!OnChunk(k, f)
        \/ Upload!OnEnd(k, f)
    BY <1>10 DEF Upload!NodeReads
  <2>4. ASSUME NEW d \in Clients, client' = [client EXCEPT ![k] = d], thread' = thread
        PROVE  NodeInOrder'
    BY <1>2, <1>3, <2>4
  <2> HIDE DEF f, c
  <2>5. CASE Upload!OnHello(k, f)
    <3>1. /\ thread' = thread
          /\ \/ client' = [client EXCEPT ![k] = [c EXCEPT !.hello = TRUE]]
             \/ client' = [client EXCEPT ![k] = [c EXCEPT !.at = "leaving"]]
      BY <2>5 DEF Upload!OnHello, c
    <3> QED BY <1>4, <2>2, <2>4, <3>1
  <2>6. CASE Upload!OnBegin(k, f)
    <3>1. /\ thread' = thread
          /\ \/ client' = [client EXCEPT ![k] = [c EXCEPT !.session = Upload!NoSession]]
             \/ client' = [client EXCEPT ![k] =
                               [c EXCEPT !.session = Upload!Began(c.session, f)]]
      BY <2>6 DEF Upload!OnBegin, c
    <3> QED BY <1>5, <2>1, <2>2, <2>4, <3>1, NothingOpen, SessionSteps
  <2>7. CASE Upload!OnChunk(k, f)
    <3>1. \/ UNCHANGED <<client, thread>>
          \/ /\ thread' = thread /\ Upload!InOrder(c.session, f)
             /\ client' = [client EXCEPT ![k] =
                               [c EXCEPT !.session = Upload!Appended(c.session, f)]]
          \/ /\ thread' = thread
             /\ client' = [client EXCEPT ![k] = [c EXCEPT !.session = Upload!NoSession]]
      BY <2>7 DEF Upload!OnChunk, c
    <3> QED BY <1>5, <1>6, <2>1, <2>2, <2>4, <3>1, NothingOpen, SessionSteps
  <2>8. CASE Upload!OnEnd(k, f)
    <3> DEFINE t == [at |-> "running", req |-> f.req, data |-> c.session.data, ok |-> FALSE]
    <3>1. \/ UNCHANGED <<client, thread>>
          \/ /\ Upload!Whole(c.session, f) /\ thread' = [thread EXCEPT ![k] = t]
             /\ client' = [client EXCEPT ![k] =
                    [c EXCEPT !.session = Upload!NoSession, !.preparing = TRUE]]
          \/ /\ thread' = thread
             /\ client' = [client EXCEPT ![k] = [c EXCEPT !.session = Upload!NoSession]]
      BY <2>8 DEF Upload!OnEnd, c
    <3>2. Upload!Whole(c.session, f) => t \in Preparations
      BY <2>1, <2>2, SessionSteps DEF Preparations, Threads, Sessions, Frames
    <3> HIDE DEF t
    <3>3. ASSUME t \in Preparations, thread' = [thread EXCEPT ![k] = t],
                 client' = [client EXCEPT ![k] =
                     [c EXCEPT !.session = Upload!NoSession, !.preparing = TRUE]]
          PROVE  NodeInOrder'
      <4>1. [c EXCEPT !.session = Upload!NoSession, !.preparing = TRUE] \in Clients
        BY <1>5, <2>2, NothingOpen
      <4> QED BY <1>2, <1>3, <3>3, <4>1
    <3> QED BY <1>5, <1>6, <2>2, <2>4, <3>1, <3>2, <3>3, NothingOpen
  <2> QED BY <2>3, <2>5, <2>6, <2>7, <2>8
<1>11. ASSUME NEW k \in Upload!Links, Upload!ThreadApplies(k)
       PROVE  NodeInOrder'
  <2>1. PICK ok \in BOOLEAN :
            thread' = [thread EXCEPT ![k] = [thread[k] EXCEPT !.at = "posted", !.ok = ok]]
    BY <1>11 DEF Upload!ThreadApplies
  <2>2. [thread[k] EXCEPT !.at = "posted", !.ok = ok] \in Preparations
    <3>1. thread[k] \in Threads
      BY <1>2 DEF Preparations
    <3>2. /\ [thread[k] EXCEPT !.at = "posted", !.ok = ok] \in Threads
          /\ [thread[k] EXCEPT !.at = "posted", !.ok = ok].at = "posted"
      BY <3>1 DEF Threads
    <3> QED BY <3>2 DEF Preparations
  <2>3. client' = client
    BY <1>11 DEF Upload!ThreadApplies
  <2> QED BY <1>2, <1>3, <2>1, <2>2, <2>3
<1>12. ASSUME NEW k \in Upload!Links, Upload!ThreadAnswers(k)
       PROVE  NodeInOrder'
  <2>1. /\ thread' = [thread EXCEPT ![k] = Upload!NoThread]
        /\ \/ client' = client
           \/ client' = [client EXCEPT ![k] = [client[k] EXCEPT !.preparing = FALSE]]
    BY <1>12 DEF Upload!ThreadAnswers
  <2>2. Upload!NoThread \in Preparations
    <3>1. Upload!NoThread \in Threads /\ Upload!NoThread.at = "none"
      BY NothingOpen
    <3>2. Upload!NoThread.at # "running"
      BY <3>1
    <3> QED BY <3>1, <3>2 DEF Preparations
  <2>3. thread' \in [Upload!Links -> Preparations]
    BY <1>2, <2>1, <2>2
  <2>4. client' \in [Upload!Links -> Clients]
    <3>1. [client[k] EXCEPT !.preparing = FALSE] \in Clients
      BY <1>2, <1>4
    <3> QED BY <1>2, <2>1, <3>1
  <2> QED BY <1>3, <2>3, <2>4
<1>13. ASSUME NEW k \in Upload!Links, Upload!ClientLeaves(k)
       PROVE  NodeInOrder'
  <2>1. /\ thread' = thread
        /\ client' = [client EXCEPT ![k] = [client[k] EXCEPT !.at = "removed"]]
    BY <1>13 DEF Upload!ClientLeaves
  <2> QED BY <1>2, <1>3, <1>4, <2>1
<1>14. ASSUME NEW k \in Upload!Links, Upload!SocketDeleted(k)
       PROVE  NodeInOrder'
  <2>1. thread' = thread /\ client' = [client EXCEPT ![k] = Upload!NewClient]
    BY <1>14 DEF Upload!SocketDeleted
  <2>2. Upload!NewClient \in Clients
    BY NothingOpen DEF Clients
  <2> QED BY <1>2, <1>3, <2>1, <2>2
<1> QED
  BY UploadCases, <1>7, <1>8, <1>9, <1>10, <1>11, <1>12, <1>13, <1>14

(* What a preparation thread hands over is the whole file of one upload.    *)
LEMMA AcceptedStep ==
    ASSUME UploadInv, Upload!Next
    PROVE  Upload!AcceptedUploadIsWhole'
<1>1. Upload!AcceptedUploadIsWhole /\ thread \in [Upload!Links -> Preparations]
  BY DEF UploadInv, NodeInOrder
<1>2. CASE UNCHANGED taken
  BY <1>1, <1>2 DEF Upload!AcceptedUploadIsWhole
<1>3. ASSUME NEW k \in Upload!Links, Upload!ThreadApplies(k)
      PROVE  Upload!AcceptedUploadIsWhole'
  <2>1. /\ thread[k].at = "running"
        /\ taken' = taken \cup {<<thread[k].req, thread[k].data>>}
    BY <1>3 DEF Upload!ThreadApplies
  <2>2. thread[k].data = FirstChunks(thread[k].req, Chunks)
    BY <1>1, <2>1 DEF Preparations
  <2>3. \A t \in taken : t[2] = FirstChunks(t[1], Chunks)
    BY <1>1 DEF Upload!AcceptedUploadIsWhole, FirstChunks
  <2>4. \A t \in taken' : t[2] = FirstChunks(t[1], Chunks)
    BY <2>1, <2>2, <2>3
  <2> QED BY <2>4 DEF Upload!AcceptedUploadIsWhole, FirstChunks
<1>4. ASSUME NEW k \in Upload!Links,
             \/ Upload!NodeReads(k) \/ Upload!ThreadAnswers(k)
             \/ Upload!ClientLeaves(k) \/ Upload!SocketDeleted(k)
      PROVE  UNCHANGED taken
  BY <1>4 DEF Upload!NodeReads, Upload!ThreadAnswers, Upload!ClientLeaves,
              Upload!SocketDeleted
<1>5. CASE Upload!Connect \/ Upload!Established \/ Upload!ConnectFails \/ Upload!LinkLost
           \/ Upload!DisconnectAll \/ Upload!QueueFileUpload \/ Upload!BytesWritten
           \/ Upload!ManagerReads \/ Upload!NodeStops \/ Upload!NodeStarts
  BY <1>2, <1>5 DEF Upload!Connect, Upload!Established, Upload!ConnectFails,
       Upload!LinkLost, Upload!DisconnectAll, Upload!QueueFileUpload,
       Upload!BytesWritten, Upload!ManagerReads, Upload!NodeStops, Upload!NodeStarts,
       Upload!nodeVars
<1> QED BY UploadCases, <1>2, <1>3, <1>4, <1>5

(* Every step of an upload keeps its invariant.                            *)
LEMMA UploadStep ==
    ASSUME LinksAssumption, UploadInv, Upload!Next
    PROVE  UploadInv'
BY ManagerTypingStep, LinksInOrderStep, NodeStep, AcceptedStep DEF UploadInv

(* What the invariant says of the property that is checked.                 *)
LEMMA UploadHolds ==
    ASSUME UploadInv
    PROVE  AcceptedUploadIsWhole
<1>1. \A k \in Upload!Links : Backlog(buffer[k]) <= BacklogLimit
  BY DEF UploadInv, LinksInOrder, Buffers
<1> QED
  BY <1>1 DEF UploadInv, AcceptedUploadIsWhole, Upload!BacklogBounded, Backlog
-----------------------------------------------------------------------------
(***************************************************************************)
(* Discovery.                                                              *)
(***************************************************************************)
LEMMA FoundTimes ==
    ASSUME LinksAssumption
    PROVE  /\ HeartbeatInterval \in Nat \ {0} /\ MaxLosses \in Nat
           /\ OfflineTimeout \in Nat
           /\ OfflineTimeout > (MaxLosses + 1) * HeartbeatInterval
           /\ Hosts \in Nat \ {0} /\ Scores \subseteq Nat
BY DEF LinksAssumption, Found!TimesAssumption

(* The actions of discovery, one by one.                                    *)
LEMMA FoundCases ==
    ASSUME Found!Next
    PROVE  \/ Found!NodeStarts \/ Found!NodeStops \/ Found!Heartbeat
           \/ Found!NodeAnswersStatus \/ Found!ManagerStarts \/ Found!Scan
           \/ Found!Connect \/ Found!Connected \/ Found!ConnectFails
           \/ Found!RefreshStatus \/ Found!OnStatus \/ Found!DisconnectAll
           \/ Found!CheckOffline \/ Found!LoseDatagram \/ Found!Tick
           \/ \E h \in 1 .. Hosts : Found!AnswerScan(h)
           \/ \E p \in said : Found!OnPresence(p)
BY DEF Found!Next, Found!NodeNext, Found!ManagerNext

(* Before the node starts there is nothing to hear of.                     *)
LEMMA FoundInitially ==
    ASSUME LinksAssumption, Found!Init
    PROVE  FoundInv
<1> USE FoundTimes DEF Found!Init
<1>1. FoundTyping
  <2>1. endpoint \in EndpointStates
    BY DEF EndpointStates, Found!Unknown, Found!NoAddress
  <2>2. losses \in 0 .. MaxLosses /\ beat \in 0 .. HeartbeatInterval
    OBVIOUS
  <2>3. said \in SUBSET [to : Int, score : Nat] /\ host = 0 /\ target = 0
    BY DEF Found!Nobody
  <2>4. up \in BOOLEAN /\ heard \in BOOLEAN /\ upFor = 0 /\ ~heard
    OBVIOUS
  <2> HIDE DEF Found!Init
  <2> QED BY <2>1, <2>2, <2>3, <2>4 DEF FoundTyping
<1>2. HeardFrom
  BY DEF HeardFrom, WithinReach
<1> QED BY <1>1, <1>2 DEF FoundInv

(* Every step of discovery keeps the types.                                *)
LEMMA FoundTypingStep ==
    ASSUME LinksAssumption, FoundTyping, Found!Next
    PROVE  FoundTyping'
<1> USE FoundTimes DEF FoundTyping
<1>1. ASSUME NEW e \in EndpointStates, NEW place \in {"Disconnected", "Connecting", "Connected"}
      PROVE  [e EXCEPT !.state = place] \in EndpointStates /\ [e EXCEPT !.silent = 0] \in EndpointStates
  BY DEF EndpointStates
<1>2. endpoint \in EndpointStates /\ Found!Unknown \in EndpointStates
  BY DEF EndpointStates, Found!Unknown, Found!NoAddress
<1>3. ASSUME endpoint' \in EndpointStates,
             UNCHANGED <<up, upFor, target, beat, host, heard, losses, said>>
      PROVE  FoundTyping'
  BY <1>3 DEF EndpointStates
<1>4. CASE Found!NodeStarts
  BY <1>1, <1>2, <1>4 DEF Found!NodeStarts, EndpointStates
<1>5. CASE Found!NodeStops
  <2>1. endpoint.state \in {"Disconnected", "Connecting", "Connected"}
    BY <1>2 DEF EndpointStates
  <2>2. PICK place \in {endpoint.state, "Disconnected"} :
            endpoint' = [endpoint EXCEPT !.state = place]
    BY <1>5 DEF Found!NodeStops
  <2>3. endpoint' \in EndpointStates
    BY <1>1, <1>2, <2>1, <2>2
  <2>4. /\ up' = FALSE /\ upFor' = 0 /\ target' = 0 /\ said' = {}
        /\ UNCHANGED <<beat, losses, host, heard>>
    BY <1>5 DEF Found!NodeStops, Found!Nobody
  <2> QED BY <2>3, <2>4
<1>6. \A to \in Int : Found!Presence(to) \subseteq [to : Int, score : Nat]
  BY DEF Found!Presence
<1>7. CASE Found!Heartbeat
  <2>1. Found!HeartbeatTarget \in Int
    BY DEF Found!HeartbeatTarget, Found!Everyone
  <2>2. PICK p \in Found!Presence(Found!HeartbeatTarget) : said' = said \cup {p}
    BY <1>7 DEF Found!Heartbeat
  <2>3. p \in [to : Int, score : Nat]
    BY <1>6, <2>1
  <2> QED BY <1>7, <2>2, <2>3 DEF Found!Heartbeat, Found!managerVars
<1>8. ASSUME NEW h \in 1 .. Hosts, Found!AnswerScan(h)
      PROVE  FoundTyping'
  <2>1. PICK p \in Found!Presence(h) : said' = said \cup {p}
    BY <1>8 DEF Found!AnswerScan
  <2>2. p \in [to : Int, score : Nat]
    BY <1>6
  <2>3. target' \in Nat /\ upFor' \in Nat /\ (~up => upFor' = 0)
    BY <1>8 DEF Found!AnswerScan
  <2> QED BY <1>8, <2>1, <2>2, <2>3 DEF Found!AnswerScan, Found!managerVars
<1>9. CASE Found!ManagerStarts
  BY <1>2, <1>9 DEF Found!ManagerStarts, Found!netVars, EndpointStates
<1>10. CASE Found!Scan \/ Found!NodeAnswersStatus \/ Found!RefreshStatus
  BY <1>2, <1>3, <1>10 DEF Found!Scan, Found!NodeAnswersStatus, Found!RefreshStatus,
     Found!nodeVars, Found!managerVars
<1>11. CASE Found!Connect \/ Found!Connected \/ Found!ConnectFails \/ Found!OnStatus
            \/ Found!DisconnectAll \/ Found!CheckOffline
  <2>1. endpoint' \in EndpointStates
    BY <1>1, <1>2, <1>11 DEF Found!Connect, Found!Connected, Found!ConnectFails,
       Found!OnStatus, Found!DisconnectAll, Found!CheckOffline
  <2>2. UNCHANGED <<up, upFor, target, beat, host, heard, losses, said>>
    BY <1>11 DEF Found!Connect, Found!Connected, Found!ConnectFails,
       Found!OnStatus, Found!DisconnectAll, Found!CheckOffline, Found!nodeVars, Found!netVars
  <2> QED BY <1>3, <2>1, <2>2
<1>12. CASE Found!LoseDatagram
  BY <1>12 DEF Found!LoseDatagram, Found!Lose, Found!nodeVars, Found!managerVars
<1>13. CASE Found!Tick
  <2>1. endpoint.silent \in Nat /\ Found!Least(endpoint.silent + 1, OfflineTimeout) \in Nat
    BY <1>2 DEF EndpointStates, Found!Least
  <2>2. endpoint' \in EndpointStates
    BY <1>2, <1>13, <2>1 DEF Found!Tick, EndpointStates
  <2>3. upFor' \in Nat /\ (~up => upFor' = 0)
    BY <1>13 DEF Found!Tick, Found!Least
  <2>4. beat' \in 0 .. HeartbeatInterval
    BY <1>13 DEF Found!Tick
  <2>5. UNCHANGED <<up, target, losses, said, host, heard>>
    BY <1>13 DEF Found!Tick, Found!netVars
  <2> QED BY <2>2, <2>3, <2>4, <2>5
<1>14. ASSUME NEW p \in said, Found!OnPresence(p)
       PROVE  FoundTyping'
  <2>1. p.score \in Int
    BY <1>14
  <2>2. Found!Refreshed(endpoint, p) \in EndpointStates
    BY <1>2, <2>1 DEF Found!Refreshed, EndpointStates
  <2> QED BY <1>2, <1>14, <2>2 DEF Found!OnPresence, Found!nodeVars, EndpointStates
<1> QED
  BY FoundCases, <1>4, <1>5, <1>7, <1>8, <1>9, <1>10, <1>11, <1>12, <1>13, <1>14

(* The Manager has heard of a node within reach since the last heartbeat    *)
(* but for those that were lost.                                            *)
LEMMA HeardFromStep ==
    ASSUME LinksAssumption, FoundTyping, HeardFrom, Found!Next, FoundTyping'
    PROVE  HeardFrom'
<1> DEFINE silentFor == losses * HeartbeatInterval
<1>1. /\ HeartbeatInterval \in Nat \ {0} /\ beat \in 0 .. HeartbeatInterval
      /\ upFor \in Nat /\ endpoint.silent \in Nat
      /\ beat' \in 0 .. HeartbeatInterval /\ upFor' \in Nat /\ endpoint'.silent \in Nat
  BY FoundTimes DEF FoundTyping, EndpointStates
<1>2. /\ silentFor \in Nat /\ silentFor' \in Nat /\ (losses + 1) * HeartbeatInterval = silentFor + HeartbeatInterval
      /\ (losses' + 1) * HeartbeatInterval = silentFor' + HeartbeatInterval
      /\ losses' = losses + 1 => silentFor' = silentFor + HeartbeatInterval
      /\ losses' = losses => silentFor' = silentFor
  <2>1. losses \in Nat /\ losses' \in Nat /\ HeartbeatInterval \in Nat
    BY FoundTimes DEF FoundTyping
  <2>2. \A n \in Nat : /\ n * HeartbeatInterval \in Nat
                       /\ (n + 1) * HeartbeatInterval
                              = n * HeartbeatInterval + HeartbeatInterval
    BY <2>1
  <2> QED BY <2>1, <2>2
<1>3. HeardFrom <=>
        (WithinReach =>
            \/ SilentAtMost(silentFor + HeartbeatInterval - beat)
            \/ /\ beat = HeartbeatInterval /\ \E p \in said : Found!Reaches(p)
               /\ SilentAtMost(silentFor + HeartbeatInterval))
  BY <1>2 DEF HeardFrom
<1>4. HeardFrom' <=>
        (WithinReach' =>
            \/ SilentAtMost(silentFor + HeartbeatInterval - beat)'
            \/ /\ beat' = HeartbeatInterval /\ \E p \in said' : Found!Reaches(p)'
               /\ SilentAtMost(silentFor + HeartbeatInterval)')
  BY <1>2 DEF HeardFrom
<1> HIDE DEF silentFor
<1> USE DEF SilentAtMost
(* Nothing is asked of a node that has just come within reach or was heard. *)
<1>5. ASSUME upFor' = 0 \/ endpoint'.silent = 0
      PROVE  HeardFrom'
  <2>1. 0 <= silentFor' + HeartbeatInterval - beat'
    <3>1. \A n \in Nat, b \in 0 .. HeartbeatInterval : 0 <= n + HeartbeatInterval - b
      BY FoundTimes
    <3> QED BY <1>1, <1>2, <3>1
  <2>2. SilentAtMost(silentFor + HeartbeatInterval - beat)'
    BY <1>5, <2>1
  <2> QED BY <1>4, <2>2
<1>6. ASSUME UNCHANGED <<upFor, beat, losses, endpoint.silent>>, said \subseteq said',
             WithinReach' => WithinReach, host' = host, heard' = heard
      PROVE  HeardFrom'
  BY <1>2, <1>3, <1>4, <1>6 DEF Found!Reaches
<1>7. CASE Found!NodeStarts \/ Found!NodeStops \/ Found!ManagerStarts
  BY <1>5, <1>7 DEF Found!NodeStarts, Found!NodeStops, Found!ManagerStarts
<1>8. CASE Found!Heartbeat
  <2>1. SUFFICES ASSUME WithinReach' PROVE HeardFrom'
    BY <1>4
  <2>2. PICK p \in Found!Presence(Found!HeartbeatTarget) : said' = said \cup {p}
    BY <1>8 DEF Found!Heartbeat
  <2>3. /\ beat = 0 /\ beat' = HeartbeatInterval
        /\ UNCHANGED <<upFor, target, losses, endpoint, host, heard>>
    BY <1>8 DEF Found!Heartbeat, Found!managerVars
  <2>4. WithinReach
    BY <2>1, <2>3 DEF WithinReach
  <2>5. Found!Reaches(p)'
    BY <2>1, <2>3 DEF WithinReach, Found!Reaches, Found!Presence, Found!HeartbeatTarget,
                      Found!Nobody
  <2>6. SilentAtMost(silentFor + HeartbeatInterval)
    BY <1>1, <1>2, <1>3, <2>3, <2>4
  <2> QED BY <1>2, <1>4, <2>2, <2>3, <2>5, <2>6
<1>9. ASSUME NEW h \in 1 .. Hosts, Found!AnswerScan(h)
      PROVE  HeardFrom'
  <2>1. /\ said \subseteq said' /\ UNCHANGED <<beat, losses, endpoint, host, heard>>
        /\ upFor' = IF target' = target \/ target = 0 THEN upFor ELSE 0
    BY <1>9 DEF Found!AnswerScan, Found!managerVars, Found!Nobody
  <2>2. CASE target' = target \/ target = 0
    BY <1>6, <2>1, <2>2 DEF WithinReach
  <2>3. CASE ~(target' = target \/ target = 0)
    BY <1>5, <2>1, <2>3
  <2> QED BY <2>2, <2>3
<1>10. CASE Found!Scan \/ Found!NodeAnswersStatus \/ Found!RefreshStatus
  <2>1. UNCHANGED <<upFor, target, beat, losses, said, endpoint, host, heard>>
    BY <1>10 DEF Found!Scan, Found!NodeAnswersStatus, Found!RefreshStatus,
       Found!nodeVars, Found!managerVars
  <2> QED BY <1>6, <2>1 DEF WithinReach
<1>11. CASE Found!Connect \/ Found!Connected \/ Found!ConnectFails
            \/ Found!DisconnectAll \/ Found!CheckOffline
  <2>1. UNCHANGED <<upFor, target, beat, losses, said, host, heard>>
    BY <1>11 DEF Found!Connect, Found!Connected, Found!ConnectFails,
       Found!DisconnectAll, Found!CheckOffline, Found!nodeVars, Found!netVars
  <2>2. endpoint'.silent = endpoint.silent
    BY <1>11 DEF Found!Connect, Found!Connected, Found!ConnectFails,
       Found!DisconnectAll, Found!CheckOffline, FoundTyping, EndpointStates
  <2> QED BY <1>6, <2>1, <2>2 DEF WithinReach
<1>12. CASE Found!OnStatus
  BY <1>5, <1>12 DEF Found!OnStatus, FoundTyping, EndpointStates
<1>13. ASSUME NEW p \in said, Found!OnPresence(p)
       PROVE  HeardFrom'
  <2>1. CASE host # 0 /\ Found!Reaches(p)
    <3>1. endpoint' = Found!Refreshed(endpoint, p)
      BY <1>13, <2>1 DEF Found!OnPresence, Found!Nobody
    <3>2. endpoint'.silent = 0
      BY <3>1 DEF Found!Refreshed, FoundTyping, EndpointStates
    <3> QED BY <1>5, <3>2
  <2>2. CASE ~(host # 0 /\ Found!Reaches(p))
    <3>1. /\ said' = said \ {p}
          /\ UNCHANGED <<upFor, target, beat, losses, endpoint, host, heard>>
      BY <1>13, <2>2 DEF Found!OnPresence, Found!nodeVars, Found!Nobody
    <3>2. WithinReach' => WithinReach /\ ~Found!Reaches(p)
      BY <2>2, <3>1 DEF WithinReach, FoundTyping
    <3>3. \A q : Found!Reaches(q)' <=> Found!Reaches(q)
      BY <3>1 DEF Found!Reaches
    <3> QED BY <1>2, <1>3, <1>4, <3>1, <3>2, <3>3
  <2> QED BY <2>1, <2>2
<1>14. CASE Found!LoseDatagram
  <2>1. UNCHANGED <<upFor, target, beat, endpoint, host, heard>>
    BY <1>14 DEF Found!LoseDatagram, Found!nodeVars, Found!managerVars
  <2>2. \/ losses' = losses + 1
        \/ losses' = losses /\ said' = said
    BY <1>14 DEF Found!LoseDatagram, Found!Lose
  <2>3. CASE losses' = losses + 1
    BY <1>1, <1>2, <1>3, <1>4, <2>1, <2>3 DEF WithinReach
  <2>4. CASE losses' = losses /\ said' = said
    BY <1>6, <2>1, <2>4 DEF WithinReach
  <2> QED BY <2>2, <2>3, <2>4
<1>15. CASE Found!Tick
  <2>1. /\ said = {} /\ UNCHANGED <<up, target, losses, host, heard>>
        /\ beat' = IF beat > 0 THEN beat - 1 ELSE 0
        /\ upFor' = IF up /\ target \in {0, host}
                    THEN Found!Least(upFor + 1, OfflineTimeout) ELSE 0
        /\ ~(up /\ beat = 0)
    BY <1>15 DEF Found!Tick, Found!netVars, Found!Nobody
  <2>2. endpoint'.silent <= endpoint.silent + 1
    BY <1>1, <1>15, FoundTimes DEF Found!Tick, Found!Least, FoundTyping, EndpointStates
  <2>3. CASE ~up
    BY <1>5, <2>1, <2>3
  <2>4. CASE up
    <3>1. beat' = beat - 1 /\ beat > 0
      BY <1>1, <2>1, <2>4
    <3>2. upFor' <= upFor + 1
      <4>1. upFor' \in {upFor + 1, OfflineTimeout, 0}
            /\ (upFor' = OfflineTimeout => upFor' = 0 \/ ~(upFor + 1 < OfflineTimeout))
        BY <2>1 DEF Found!Least
      <4> QED BY <1>1, <4>1, FoundTimes
    <3>3. WithinReach' => WithinReach
      BY <2>1 DEF WithinReach
    <3> QED BY <1>1, <1>2, <1>3, <1>4, <2>1, <2>2, <3>1, <3>2, <3>3
  <2> QED BY <2>3, <2>4 DEF FoundTyping
<1> QED
  BY FoundCases, <1>7, <1>8, <1>9, <1>10, <1>11, <1>12, <1>13, <1>14, <1>15

(* Every step of discovery keeps its invariant.                            *)
LEMMA FoundStep ==
    ASSUME LinksAssumption, FoundInv, Found!Next
    PROVE  FoundInv'
<1>1. FoundTyping'
  BY FoundTypingStep DEF FoundInv
<1> QED BY <1>1, HeardFromStep DEF FoundInv

(* What the invariant says of the property that is checked: so many         *)
(* heartbeats in a row are not lost that the timeout could pass.            *)
LEMMA FoundHolds ==
    ASSUME LinksAssumption, FoundInv
    PROVE  LivingNodeStaysConnected
<1> SUFFICES ASSUME upFor >= OfflineTimeout, WithinReach
             PROVE  ~Found!Offline(endpoint)
  BY DEF LivingNodeStaysConnected, Found!LivingNodeStaysConnected, WithinReach, Found!Nobody
<1>1. /\ losses \in Nat /\ MaxLosses \in Nat /\ losses <= MaxLosses
      /\ HeartbeatInterval \in Nat \ {0} /\ beat \in 0 .. HeartbeatInterval
      /\ OfflineTimeout \in Nat /\ endpoint.silent \in Nat /\ upFor \in Nat
      /\ OfflineTimeout > (MaxLosses + 1) * HeartbeatInterval
  BY FoundTimes DEF FoundInv, FoundTyping, EndpointStates
<1> DEFINE silentFor == losses * HeartbeatInterval
           most == MaxLosses * HeartbeatInterval
<1>2. silentFor \in Nat /\ most \in Nat /\ silentFor <= most
      /\ (MaxLosses + 1) * HeartbeatInterval = most + HeartbeatInterval
      /\ (losses + 1) * HeartbeatInterval = silentFor + HeartbeatInterval
  BY <1>1
<1>3. \/ SilentAtMost(silentFor + HeartbeatInterval - beat)
      \/ SilentAtMost(silentFor + HeartbeatInterval)
  BY <1>2 DEF FoundInv, HeardFrom
<1> HIDE DEF silentFor, most
<1>4. endpoint.silent < OfflineTimeout
  BY <1>1, <1>2, <1>3 DEF SilentAtMost
<1> QED BY <1>1, <1>4 DEF Found!Offline
-----------------------------------------------------------------------------
(***************************************************************************)
(* The Monitor.                                                            *)
(***************************************************************************)
(* What a store gains is of the node the message is from; only records and  *)
(* snapshots bring metrics.                                                 *)
LEMMA GainOf ==
    ASSUME NEW m \in Messages
    PROVE  /\ \A s : \A r \in Watched!Gain(m, s) : r[1] = m.from
           /\ m.kind = "record" => Watched!Gain(m, "metrics") = {<<m.from, m.n>>}
           /\ m.kind = "snapshot" =>
                 Watched!Gain(m, "metrics") = Watched!Records(m.from, Watched!Newest(m.n))
           /\ m.kind \in {"answer", "reset"} => Watched!Gain(m, "metrics") = {}
<1>1. m.kind \in {"answer", "record", "snapshot", "reset"}
  BY DEF Messages
<1>2. CASE m.kind = "record"
  BY <1>2 DEF Watched!Gain, Watched!Records
<1>3. CASE m.kind = "snapshot"
  <2>1. ASSUME NEW s PROVE \A r \in Watched!Gain(m, s) : r[1] = m.from
    <3>1. CASE s = "metrics"
      BY <1>3, <3>1 DEF Watched!Gain, Watched!Records
    <3>2. CASE s # "metrics"
      BY <1>3, <3>2 DEF Watched!Gain
    <3> QED BY <3>1, <3>2
  <2> QED BY <1>3, <2>1 DEF Watched!Gain
<1>4. CASE m.kind \in {"answer", "reset"}
  BY <1>4 DEF Watched!Gain
<1> QED BY <1>1, <1>2, <1>3, <1>4

(* Before a message is read, what is held is held.                         *)
LEMMA AfterNone == \A records, w : MetricsAfter(records, w, 0) = records
BY DEF MetricsAfter

(* A message that is sent is read last.                                     *)
LEMMA AfterAppend ==
    ASSUME NEW records, NEW w \in Seq(Messages), NEW m \in Messages
    PROVE  /\ \A j \in 0 .. Len(w) :
                 MetricsAfter(records, Append(w, m), j) = MetricsAfter(records, w, j)
           /\ MetricsAfter(records, Append(w, m), Len(w) + 1)
                 = MetricsAfter(records, w, Len(w)) \cup Watched!Gain(m, "metrics")
<1> DEFINE longer == Append(w, m)
<1>1. /\ Len(w) \in Nat /\ longer[Len(w) + 1] = m
      /\ \A i \in 1 .. Len(w) : longer[i] = w[i]
  OBVIOUS
<1> HIDE DEF longer
<1>2. ASSUME NEW j \in 0 .. Len(w)
      PROVE  MetricsAfter(records, longer, j) = MetricsAfter(records, w, j)
  <2>1. \A i \in 1 .. j : longer[i] = w[i]
    BY <1>1
  <2> QED BY <2>1 DEF MetricsAfter
<1>3. MetricsAfter(records, longer, Len(w) + 1)
          = MetricsAfter(records, w, Len(w)) \cup Watched!Gain(m, "metrics")
  <2>1. 1 .. Len(w) + 1 = (1 .. Len(w)) \cup {Len(w) + 1}
    BY <1>1
  <2>2. UNION {Watched!Gain(longer[i], "metrics") : i \in 1 .. Len(w) + 1}
            = (UNION {Watched!Gain(w[i], "metrics") : i \in 1 .. Len(w)})
                  \cup Watched!Gain(m, "metrics")
    BY <1>1, <2>1
  <2> QED BY <2>2 DEF MetricsAfter
<1> QED BY <1>2, <1>3 DEF longer

(* A message that is read is the first of the wire.                         *)
LEMMA AfterTail ==
    ASSUME NEW records, NEW w \in Seq(Messages), w # <<>>, NEW j \in 0 .. Len(w) - 1
    PROVE  MetricsAfter(records \cup Watched!Gain(Head(w), "metrics"), Tail(w), j)
               = MetricsAfter(records, w, j + 1)
<1> DEFINE rest == Tail(w)
<1>1. /\ Len(w) \in Nat /\ Head(w) = w[1]
      /\ \A i \in 1 .. j : rest[i] = w[i + 1]
  OBVIOUS
<1> HIDE DEF rest
<1>2. \A i \in 1 .. j + 1 : i = 1 \/ (i - 1 \in 1 .. j /\ rest[i - 1] = w[i])
  BY <1>1
<1>3. \A i \in 1 .. j : i + 1 \in 1 .. j + 1
  OBVIOUS
<1>4. 1 \in 1 .. j + 1
  OBVIOUS
<1>5. UNION {Watched!Gain(w[i], "metrics") : i \in 1 .. j + 1}
          = Watched!Gain(w[1], "metrics")
                \cup UNION {Watched!Gain(rest[i], "metrics") : i \in 1 .. j}
  BY <1>1, <1>2, <1>3, <1>4
<1> QED BY <1>1, <1>5 DEF MetricsAfter, rest

(* Reading a message leaves what is held and under way the same but for     *)
(* what the full store gives up.                                            *)
LEMMA MeetsTail ==
    ASSUME NEW records, NEW kept, NEW gone, NEW w \in Seq(Messages), w # <<>>,
           kept \subseteq records \cup Watched!Gain(Head(w), "metrics")
    PROVE  LET more == gone \cup ((records \cup Watched!Gain(Head(w), "metrics")) \ kept)
           IN /\ MetricsAfter(kept, Tail(w), Len(Tail(w))) \subseteq MetricsAfter(records, w, Len(w))
              /\ MetricsAfter(records, w, Len(w)) \cup gone
                    \subseteq MetricsAfter(kept, Tail(w), Len(Tail(w))) \cup more
              /\ Meets(records, w, gone) => Meets(kept, Tail(w), more)
<1> DEFINE held == records \cup Watched!Gain(Head(w), "metrics")
           more == gone \cup (held \ kept)
           rest == Tail(w)
<1>1. /\ Len(w) \in Nat \ {0} /\ Len(rest) = Len(w) - 1
      /\ \A i \in 1 .. Len(w) - 1 : rest[i] = w[i + 1]
  OBVIOUS
<1>2. \A j \in 0 .. Len(w) - 1 : MetricsAfter(held, rest, j) = MetricsAfter(records, w, j + 1)
  BY AfterTail
<1> HIDE DEF held, rest
<1>3. kept \subseteq held
  BY DEF held
<1>4. ASSUME NEW j \in 0 .. Len(w) - 1
      PROVE  /\ MetricsAfter(kept, rest, j) \subseteq MetricsAfter(records, w, j + 1)
             /\ MetricsAfter(records, w, j + 1) \cup gone \subseteq MetricsAfter(kept, rest, j) \cup more
  <2>1. /\ MetricsAfter(kept, rest, j) \subseteq MetricsAfter(held, rest, j)
        /\ MetricsAfter(held, rest, j) \subseteq MetricsAfter(kept, rest, j) \cup (held \ kept)
    BY <1>3 DEF MetricsAfter
  <2> QED BY <1>2, <2>1
<1>5. /\ MetricsAfter(kept, rest, Len(rest)) \subseteq MetricsAfter(records, w, Len(w))
      /\ MetricsAfter(records, w, Len(w)) \cup gone \subseteq MetricsAfter(kept, rest, Len(rest)) \cup more
  <2>1. Len(rest) \in 0 .. Len(w) - 1 /\ Len(rest) + 1 = Len(w)
    BY <1>1
  <2> QED BY <1>4, <2>1
<1>6. ASSUME Meets(records, w, gone), NEW j \in 0 .. Len(rest),
             \A i \in j + 1 .. Len(rest) : rest[i].kind # "snapshot"
      PROVE  WithoutHole(MetricsAfter(kept, rest, j), more)
  <2>1. ASSUME NEW i \in (j + 1) + 1 .. Len(w) PROVE w[i].kind # "snapshot"
    <3>1. i - 1 \in j + 1 .. Len(rest) /\ rest[i - 1] = w[(i - 1) + 1]
      BY <1>1, <2>1
    <3> QED BY <1>6, <3>1
  <2>2. j + 1 \in 0 .. Len(w) /\ j \in 0 .. Len(w) - 1
    BY <1>1
  <2>3. WithoutHole(MetricsAfter(records, w, j + 1), gone)
    BY <1>6, <2>1, <2>2 DEF Meets
  <2> QED BY <1>4, <2>2, <2>3 DEF WithoutHole
<1>7. Meets(records, w, gone) => Meets(kept, rest, more)
  BY <1>6 DEF Meets
<1> QED BY <1>5, <1>7 DEF held, more, rest

(* What is given up later is no hole.                                       *)
LEMMA MeetsLater ==
    ASSUME NEW records, NEW w, NEW gone, NEW more, gone \subseteq more, Meets(records, w, gone)
    PROVE  Meets(records, w, more)
<1>1. \A held : WithoutHole(held, gone) => WithoutHole(held, more)
  BY DEF WithoutHole
<1> QED BY <1>1 DEF Meets

(* A message that is sent leaves no hole if there is none once it has been  *)
(* read.                                                                    *)
LEMMA MeetsAppend ==
    ASSUME NEW records, NEW gone, NEW w \in Seq(Messages), NEW m \in Messages,
           m.kind = "snapshot" \/ Meets(records, w, gone),
           WithoutHole(MetricsAfter(records, w, Len(w)) \cup Watched!Gain(m, "metrics"), gone)
    PROVE  Meets(records, Append(w, m), gone)
<1> DEFINE longer == Append(w, m)
<1>1. /\ Len(w) \in Nat /\ Len(longer) = Len(w) + 1 /\ longer[Len(w) + 1] = m
      /\ \A i \in 1 .. Len(w) : longer[i] = w[i]
  OBVIOUS
<1>2. /\ \A j \in 0 .. Len(w) :
            MetricsAfter(records, longer, j) = MetricsAfter(records, w, j)
      /\ MetricsAfter(records, longer, Len(w) + 1)
             = MetricsAfter(records, w, Len(w)) \cup Watched!Gain(m, "metrics")
  BY AfterAppend
<1> HIDE DEF longer
<1>3. ASSUME NEW j \in 0 .. Len(longer),
             \A i \in j + 1 .. Len(longer) : longer[i].kind # "snapshot"
      PROVE  WithoutHole(MetricsAfter(records, longer, j), gone)
  <2>1. CASE j = Len(w) + 1
    BY <1>2, <2>1
  <2>2. CASE j \in 0 .. Len(w)
    <3>1. \A i \in j + 1 .. Len(w) : w[i].kind # "snapshot"
      BY <1>1, <1>3, <2>2
    <3>2. Len(w) + 1 \in j + 1 .. Len(longer)
      BY <1>1, <2>2
    <3>3. Meets(records, w, gone)
      BY <1>1, <1>3, <3>2
    <3>4. WithoutHole(MetricsAfter(records, w, j), gone)
      BY <2>2, <3>1, <3>3 DEF Meets
    <3> QED BY <1>2, <2>2, <3>4
  <2> QED BY <1>1, <2>1, <2>2
<1>4. Meets(records, longer, gone)
  BY <1>3 DEF Meets
<1> QED BY <1>4 DEF longer

(* After all that is under way has been read there is no hole.              *)
LEMMA MeetsInTheEnd ==
    ASSUME NEW records, NEW gone, NEW w \in Seq(Messages), Meets(records, w, gone)
    PROVE  WithoutHole(MetricsAfter(records, w, Len(w)), gone)
<1>1. Len(w) \in 0 .. Len(w) /\ Len(w) + 1 .. Len(w) = {}
  OBVIOUS
<1> QED BY <1>1 DEF Meets

(* A record that is queued comes behind those there are.                    *)
LEMMA InOrderAppend ==
    ASSUME NEW q \in Seq(Nat), NEW k \in Nat, InOrder(q, k)
    PROVE  InOrder(q, k + 1) /\ InOrder(Append(q, k + 1), k + 1)
<1>1. /\ Len(q) \in Nat /\ DOMAIN q = 1 .. Len(q) /\ DOMAIN Append(q, k + 1) = 1 .. Len(q) + 1
      /\ Append(q, k + 1)[Len(q) + 1] = k + 1
      /\ \A i \in 1 .. Len(q) : Append(q, k + 1)[i] = q[i]
  OBVIOUS
<1>2. \A i \in 1 .. Len(q) : q[i] \in 1 .. k /\ q[i] \in 1 .. k + 1 /\ q[i] < k + 1
  BY <1>1 DEF InOrder
<1>3. InOrder(q, k + 1)
  BY <1>1, <1>2 DEF InOrder
<1>4. \A i \in 1 .. Len(q) + 1 : Append(q, k + 1)[i] \in 1 .. k + 1
  BY <1>1, <1>2
<1>5. ASSUME NEW i \in 1 .. Len(q) + 1, NEW j \in 1 .. Len(q) + 1, i < j
      PROVE  Append(q, k + 1)[i] < Append(q, k + 1)[j]
  BY <1>1, <1>2, <1>5 DEF InOrder
<1> QED BY <1>1, <1>3, <1>4, <1>5 DEF InOrder

(* The record that is taken from a queue comes before those that stay.      *)
LEMMA InOrderTail ==
    ASSUME NEW q \in Seq(Nat), q # <<>>, NEW k \in Nat, InOrder(q, k)
    PROVE  /\ Tail(q) \in Seq(Nat) /\ InOrder(Tail(q), k) /\ Head(q) \in 1 .. k
           /\ \A i \in DOMAIN Tail(q) : Head(q) < Tail(q)[i]
<1>1. /\ Len(q) \in Nat \ {0} /\ DOMAIN q = 1 .. Len(q) /\ DOMAIN Tail(q) = 1 .. Len(q) - 1
      /\ Tail(q) \in Seq(Nat) /\ Head(q) = q[1]
      /\ \A i \in 1 .. Len(q) - 1 : Tail(q)[i] = q[i + 1]
  OBVIOUS
<1>2. /\ \A i \in 1 .. Len(q) : q[i] \in 1 .. k
      /\ \A i, j \in 1 .. Len(q) : i < j => q[i] < q[j]
  BY <1>1 DEF InOrder
<1>3. \A i \in 1 .. Len(q) - 1 : i + 1 \in 1 .. Len(q) /\ 1 < i + 1
  BY <1>1
<1>4. 1 \in 1 .. Len(q)
  BY <1>1
<1>5. \A i \in 1 .. Len(q) - 1 : Tail(q)[i] \in 1 .. k /\ q[1] < Tail(q)[i]
  BY <1>1, <1>2, <1>3, <1>4
<1>6. \A i, j \in 1 .. Len(q) - 1 : i < j => Tail(q)[i] < Tail(q)[j]
  BY <1>1, <1>2, <1>3
<1> QED BY <1>1, <1>2, <1>4, <1>5, <1>6 DEF InOrder

(* The actions of the Monitor and its node, one by one.                    *)
LEMMA WatchedCases ==
    ASSUME Watched!Next
    PROVE  \/ Watched!DisconnectFromNode \/ Watched!Connected \/ Watched!ConnectFails
           \/ Watched!NodeCloses \/ Watched!Poll \/ Watched!OnMessage \/ Watched!Answer
           \/ Watched!HandleOpening \/ Watched!SendReset
           \/ \E n \in Nodes : \/ Watched!ConnectToNode(n) \/ Watched!SendRecord(n)
                               \/ Watched!Broadcast(n) \/ Watched!FallSilent(n)
           \/ \E s \in Watched!Stores : Watched!Refresh(s)
BY DEF Watched!Next

(* A Monitor begins without a connection.                                  *)
LEMMA WatchedInitially ==
    ASSUME Watched!Init
    PROVE  WatchedInv
<1>1. viewWire = <<>> /\ opening = <<>> /\ viewState = "Disconnected"
  BY DEF Watched!Init
<1>2. WatchedTyping
  BY <1>1 DEF Watched!Init, WatchedTyping
<1>3. QueuesInOrder
  <2>1. \A n \in Nodes : queued[n] = <<>>
    BY DEF Watched!Init
  <2>2. DOMAIN <<>> = {}
    OBVIOUS
  <2> QED BY <2>1, <2>2 DEF QueuesInOrder, InOrder
<1>4. OnePeer
  BY <1>1 DEF OnePeer
<1>5. MetricsMeet
  BY <1>1 DEF MetricsMeet
<1> QED BY <1>2, <1>3, <1>4, <1>5 DEF WatchedInv

(* What the node sends is a message from it.                                *)
LEMMA MessageSent ==
    ASSUME NEW kind \in {"answer", "record", "snapshot", "reset"}, NEW n \in Nodes, NEW k \in Nat
    PROVE  LET m == Watched!Message(kind, n, k)
           IN m \in Messages /\ m.kind = kind /\ m.from = n /\ m.n = k
BY DEF Watched!Message, Messages

(* A connection is taken down or begun.                                     *)
LEMMA WatchedAborts ==
    ASSUME WatchedTyping, QueuesInOrder,
           viewState' # "Connected", viewWire' = <<>>, opening' = <<>>,
           UNCHANGED <<sent, queued>>,
           \/ viewState' = "Disconnected" /\ UNCHANGED store
           \/ /\ viewState' = "Connecting" /\ peer' \in Nodes
              /\ store' = Watched!ClearedStores
    PROVE  WatchedInv'
<1>1. WatchedTyping'
  BY DEF WatchedTyping, Watched!ClearedStores
<1>2. OnePeer'
  BY DEF OnePeer, Watched!ClearedStores, Watched!Stores
<1>3. MetricsMeet'
  BY DEF MetricsMeet
<1>4. QueuesInOrder'
  BY DEF QueuesInOrder
<1> QED BY <1>1, <1>2, <1>3, <1>4 DEF WatchedInv

(* A message is sent by the node that is watched.                           *)
LEMMA WatchedSends ==
    ASSUME WatchedTyping, OnePeer, viewState = "Connected",
           NEW m \in Messages, m.from = peer, viewWire' = Append(viewWire, m),
           UNCHANGED <<viewState, peer, store, sent>>, opening' \in {<<>>, <<"snapshot">>},
           queued' \in [Nodes -> Seq(Nat)], QueuesInOrder', MetricsMeet'
    PROVE  WatchedInv'
<1>1. /\ viewWire' \in Seq(Messages) /\ DOMAIN viewWire' = 1 .. Len(viewWire) + 1
      /\ DOMAIN viewWire = 1 .. Len(viewWire) /\ Len(viewWire) \in Nat
      /\ viewWire'[Len(viewWire) + 1] = m
      /\ \A i \in 1 .. Len(viewWire) : viewWire'[i] = viewWire[i]
  BY DEF WatchedTyping
<1>2. WatchedTyping'
  BY <1>1 DEF WatchedTyping
<1>3. \A i \in DOMAIN viewWire' : viewWire'[i].from = peer
  BY <1>1 DEF OnePeer
<1>4. <<"hello", "snapshot">> # <<>> /\ <<"hello", "snapshot">> # <<"snapshot">>
  <2>1. Len(<<"hello", "snapshot">>) = 2 /\ Len(<<"snapshot">>) = 1 /\ Len(<<>>) = 0
    OBVIOUS
  <2> QED BY <2>1
<1>5. OnePeer'
  BY <1>3, <1>4 DEF OnePeer
<1> QED BY <1>2, <1>5 DEF WatchedInv

(* What is held and under way after a message has been sent.                *)
LEMMA HeldAppend ==
    ASSUME NEW m \in Messages, viewWire \in Seq(Messages), viewWire' = Append(viewWire, m),
           UNCHANGED store
    PROVE  HeldInAll' = HeldInAll \cup Watched!Gain(m, "metrics")
<1>1. Len(viewWire') = Len(viewWire) + 1
  OBVIOUS
<1>2. MetricsAfter(store["metrics"], Append(viewWire, m), Len(viewWire) + 1)
          = MetricsAfter(store["metrics"], viewWire, Len(viewWire)) \cup Watched!Gain(m, "metrics")
  BY AfterAppend
<1>3. HeldInAll' = MetricsAfter(store["metrics"], Append(viewWire, m), Len(viewWire) + 1)
  BY <1>1 DEF HeldInAll
<1> QED BY <1>2, <1>3 DEF HeldInAll

(* An answer or a display reset brings no metric.                           *)
LEMMA WatchedAnswers ==
    ASSUME WatchedInv, viewState = "Connected", NEW kind \in {"answer", "reset"},
           viewWire' = Append(viewWire, Watched!Message(kind, peer, 0)),
           opening \in {<<>>, <<"snapshot">>},
           UNCHANGED <<viewState, peer, store, opening, sent, queued, lost>>
    PROVE  WatchedInv'
<1> DEFINE m == Watched!Message(kind, peer, 0)
<1>1. /\ WatchedTyping /\ QueuesInOrder /\ OnePeer /\ MetricsMeet /\ peer \in Nodes
      /\ viewWire \in Seq(Messages)
  BY DEF WatchedInv, WatchedTyping
<1>2. m \in Messages /\ m.from = peer /\ m.kind = kind /\ viewWire' = Append(viewWire, m)
  BY <1>1, MessageSent
<1> HIDE DEF m
<1>3. Watched!Gain(m, "metrics") = {}
  BY <1>2, GainOf
<1>4. Produced' = Produced /\ StillQueued' = StillQueued
  BY DEF Produced, StillQueued
<1>5. HeldInAll' = HeldInAll
  BY <1>1, <1>2, <1>3, HeldAppend
<1>6. opening = <<>> => Meets(store["metrics"], viewWire', lost)
  <2> HAVE opening = <<>>
  <2>1. Meets(store["metrics"], viewWire, lost)
    BY <1>1 DEF MetricsMeet
  <2>2. WithoutHole(HeldInAll \cup Watched!Gain(m, "metrics"), lost)
    BY <1>1, <1>3, <2>1, MeetsInTheEnd DEF HeldInAll
  <2> QED BY <1>1, <1>2, <2>1, <2>2, MeetsAppend DEF HeldInAll
<1>7. MetricsMeet'
  BY <1>1, <1>4, <1>5, <1>6 DEF MetricsMeet
<1>8. queued' \in [Nodes -> Seq(Nat)] /\ QueuesInOrder'
  BY <1>1 DEF WatchedTyping, QueuesInOrder
<1> QED BY <1>1, <1>2, <1>7, <1>8, WatchedSends

(* A message is read.                                                       *)
LEMMA WatchedReads ==
    ASSUME WatchedInv, Watched!OnMessage
    PROVE  WatchedInv'
<1> DEFINE m == Head(viewWire)
           held == store["metrics"] \cup Watched!Gain(m, "metrics")
<1>1. /\ WatchedTyping /\ QueuesInOrder /\ OnePeer /\ MetricsMeet /\ viewState = "Connected"
      /\ viewWire \in Seq(Messages) /\ viewWire # <<>>
      /\ viewWire' = Tail(viewWire) /\ UNCHANGED <<viewState, peer, opening, sent, queued>>
  BY DEF WatchedInv, WatchedTyping, Watched!OnMessage, Watched!nodeVars
<1>2. /\ store' = [s \in Watched!Stores |-> store'[s]]
      /\ store'["metrics"] \subseteq held /\ lost' = lost \cup (held \ store'["metrics"])
      /\ \A s \in Watched!Stores : store'[s] \subseteq store[s] \cup Watched!Gain(m, s)
  <2>1. PICK kept \in SUBSET held :
            /\ store' = [s \in Watched!Stores |->
                            IF m.kind = "reset" /\ s = "observations" THEN {}
                            ELSE IF s = "metrics" THEN kept
                                 ELSE store[s] \cup Watched!Gain(m, s)]
            /\ lost' = lost \cup (held \ kept)
    BY DEF Watched!OnMessage
  <2> HIDE DEF m
  <2>2. "metrics" \in Watched!Stores /\ "metrics" # "observations"
    BY DEF Watched!Stores
  <2>3. store'["metrics"] = kept
    BY <2>1, <2>2
  <2> QED BY <2>1, <2>2, <2>3
<1>3. /\ viewWire' \in Seq(Messages) /\ m \in Messages
      /\ \E i \in DOMAIN viewWire : m = viewWire[i]
      /\ \A i \in DOMAIN viewWire' : \E k \in DOMAIN viewWire : viewWire'[i] = viewWire[k]
  <2>1. /\ DOMAIN viewWire = 1 .. Len(viewWire) /\ Len(viewWire) \in Nat \ {0}
        /\ m = viewWire[1] /\ viewWire' \in Seq(Messages)
        /\ DOMAIN viewWire' = 1 .. Len(viewWire) - 1
        /\ \A i \in 1 .. Len(viewWire) - 1 : viewWire'[i] = viewWire[i + 1]
    BY <1>1
  <2>2. m \in Messages
    BY <1>1
  <2> HIDE DEF m
  <2>3. ASSUME NEW i \in DOMAIN viewWire'
        PROVE  i + 1 \in DOMAIN viewWire /\ viewWire'[i] = viewWire[i + 1]
    BY <2>1
  <2>4. 1 \in DOMAIN viewWire
    BY <2>1
  <2> QED BY <2>1, <2>2, <2>3, <2>4
<1>4. WatchedTyping'
  BY <1>1, <1>2, <1>3 DEF WatchedTyping
<1>5. OnePeer'
  <2>1. m.from = peer
    BY <1>1, <1>3 DEF OnePeer
  <2>2. ASSUME NEW s \in Watched!Stores, NEW r \in store'[s] PROVE r[1] = peer
    BY <1>1, <1>2, <1>3, <2>1, <2>2, GainOf DEF OnePeer
  <2>3. \A i \in DOMAIN viewWire' : viewWire'[i].from = peer
    BY <1>1, <1>3 DEF OnePeer
  <2> QED BY <1>1, <2>2, <2>3 DEF OnePeer
<1>6. MetricsMeet'
  <2>1. /\ HeldInAll' \subseteq HeldInAll
        /\ HeldInAll \cup lost \subseteq HeldInAll' \cup lost'
        /\ Meets(store["metrics"], viewWire, lost) => Meets(store'["metrics"], viewWire', lost')
    <3> DEFINE kept == store'["metrics"]
               rest == Tail(viewWire)
               more == lost \cup (held \ kept)
    <3>1. /\ MetricsAfter(kept, rest, Len(rest)) \subseteq HeldInAll
          /\ HeldInAll \cup lost \subseteq MetricsAfter(kept, rest, Len(rest)) \cup more
          /\ Meets(store["metrics"], viewWire, lost) => Meets(kept, rest, more)
      BY <1>1, <1>2, MeetsTail DEF HeldInAll
    <3>2. HeldInAll' = MetricsAfter(kept, rest, Len(rest)) /\ lost' = more /\ viewWire' = rest
      BY <1>1, <1>2 DEF HeldInAll
    <3> HIDE DEF kept, rest, more
    <3>3. HeldInAll' \subseteq HeldInAll /\ HeldInAll \cup lost \subseteq HeldInAll' \cup lost'
      BY <3>1, <3>2
    <3>4. Meets(store["metrics"], viewWire, lost) => Meets(kept, viewWire', lost')
      BY <3>1, <3>2
    <3> QED BY <3>3, <3>4 DEF kept
  <2>2. Produced' = Produced /\ StillQueued' = StillQueued
    BY <1>1 DEF Produced, StillQueued
  <2> QED BY <1>1, <2>1, <2>2 DEF MetricsMeet
<1>7. QueuesInOrder'
  BY <1>1 DEF QueuesInOrder
<1> QED BY <1>4, <1>5, <1>6, <1>7 DEF WatchedInv

(* The node handles a request of a Monitor that has just connected.         *)
LEMMA WatchedOpens ==
    ASSUME WatchedInv, Watched!HandleOpening
    PROVE  WatchedInv'
<1>1. /\ WatchedTyping /\ QueuesInOrder /\ OnePeer /\ MetricsMeet /\ viewState = "Connected"
      /\ viewWire \in Seq(Messages) /\ peer \in Nodes
      /\ sent \in [Nodes -> Nat] /\ queued \in [Nodes -> Seq(Nat)]
      /\ UNCHANGED <<viewState, peer, store, sent, queued>>
  BY DEF WatchedInv, WatchedTyping, Watched!HandleOpening, Watched!nodeVars
<1>2. Produced' = Produced /\ QueuesInOrder' /\ HeldInAll \subseteq Produced
  BY <1>1 DEF Produced, QueuesInOrder, MetricsMeet
<1>3. CASE opening = <<"hello", "snapshot">>
  <2>1. opening' = <<"snapshot">> /\ UNCHANGED viewWire
    BY <1>3 DEF Watched!HandleOpening
  <2>2. <<"snapshot">> # <<>> /\ <<"snapshot">> # <<"hello", "snapshot">>
    <3>1. Len(<<"hello", "snapshot">>) = 2 /\ Len(<<"snapshot">>) = 1 /\ Len(<<>>) = 0
      OBVIOUS
    <3> QED BY <3>1
  <2>3. WatchedTyping'
    BY <1>1, <2>1 DEF WatchedTyping
  <2>4. OnePeer'
    BY <1>1, <2>1, <2>2 DEF OnePeer
  <2>5. HeldInAll' = HeldInAll
    BY <1>1, <2>1 DEF HeldInAll
  <2>6. MetricsMeet'
    BY <1>2, <2>1, <2>2, <2>5 DEF MetricsMeet
  <2> QED BY <1>2, <2>3, <2>4, <2>6 DEF WatchedInv
<1>4. CASE opening = <<"snapshot">>
  <2> DEFINE m == Watched!Message("snapshot", peer, sent[peer])
             gain == Watched!Records(peer, Watched!Newest(sent[peer]))
  <2>1. /\ opening' = <<>> /\ viewWire' = Append(viewWire, m)
        /\ lost' = lost \cup Watched!Records(peer, (1 .. sent[peer]) \ Watched!Newest(sent[peer]))
    <3>1. Head(opening) = "snapshot" /\ Tail(opening) = <<>>
      BY <1>4
    <3> QED BY <3>1 DEF Watched!HandleOpening
  <2>2. m \in Messages /\ m.from = peer /\ m.kind = "snapshot" /\ m.n = sent[peer]
    BY <1>1, MessageSent
  <2> HIDE DEF m
  <2>3. Watched!Gain(m, "metrics") = gain
    BY <2>2, GainOf
  <2>4. Watched!Newest(sent[peer]) \subseteq 1 .. sent[peer]
    BY DEF Watched!Newest
  <2>5. gain \subseteq Produced /\ Produced \subseteq gain \cup lost'
    BY <2>1, <2>4 DEF Produced, Watched!Records
  <2> HIDE DEF gain
  <2>6. HeldInAll' = HeldInAll \cup gain
    BY <1>1, <2>1, <2>2, <2>3, HeldAppend
  <2>7. HeldInAll' \subseteq Produced /\ Produced \subseteq HeldInAll' \cup lost'
    BY <1>2, <2>5, <2>6
  <2>8. WithoutHole(HeldInAll \cup Watched!Gain(m, "metrics"), lost')
    <3>1. \A r \in Produced : Watched!Records(r[1], 1 .. r[2]) \subseteq Produced
      <4>1. sent[peer] \in Nat
        BY <1>1
      <4> QED BY <4>1 DEF Produced, Watched!Records
    <3> QED BY <2>3, <2>6, <2>7, <3>1 DEF WithoutHole
  <2>9. Meets(store["metrics"], viewWire', lost')
    BY <1>1, <2>1, <2>2, <2>8, MeetsAppend DEF HeldInAll
  <2>10. MetricsMeet'
    BY <1>1, <1>2, <2>7, <2>9 DEF MetricsMeet
  <2>11. opening' \in {<<>>, <<"snapshot">>} /\ queued' \in [Nodes -> Seq(Nat)]
    BY <1>1, <2>1
  <2> QED BY <1>1, <1>2, <2>1, <2>2, <2>10, <2>11, WatchedSends
<1>5. opening # <<>>
  BY DEF Watched!HandleOpening
<1> QED BY <1>1, <1>3, <1>4, <1>5 DEF WatchedTyping

(* A record is produced: it is queued or, when the queue is full, dropped.  *)
LEMMA WatchedRecords ==
    ASSUME WatchedInv, NEW n \in Nodes, Watched!SendRecord(n)
    PROVE  WatchedInv'
<1> DEFINE k == sent[n] + 1
<1>1. /\ WatchedTyping /\ QueuesInOrder /\ OnePeer /\ MetricsMeet
      /\ sent \in [Nodes -> Nat] /\ queued \in [Nodes -> Seq(Nat)]
      /\ sent' = [sent EXCEPT ![n] = k] /\ sent[n] \in Nat /\ queued[n] \in Seq(Nat)
      /\ UNCHANGED <<viewState, peer, opening, store, viewWire>>
      /\ \/ queued' = [queued EXCEPT ![n] = Append(@, k)] /\ UNCHANGED lost
         \/ lost' = lost \cup {<<n, k>>} /\ UNCHANGED queued
  <2>1. Watched!Records(n, {k}) = {<<n, k>>}
    BY DEF Watched!Records
  <2> QED BY <2>1 DEF WatchedInv, WatchedTyping, Watched!SendRecord
<1>2. sent' \in [Nodes -> Nat] /\ queued' \in [Nodes -> Seq(Nat)]
  <2>1. k \in Nat /\ sent' \in [Nodes -> Nat]
    BY <1>1
  <2>2. Append(queued[n], k) \in Seq(Nat)
    BY <1>1, <2>1
  <2> HIDE DEF k
  <2> QED BY <1>1, <2>1, <2>2
<1>3. WatchedTyping'
  BY <1>1, <1>2 DEF WatchedTyping
<1>4. OnePeer'
  BY <1>1 DEF OnePeer
<1>5. QueuesInOrder'
  <2>1. InOrder(queued[n], k) /\ InOrder(Append(queued[n], k), k)
    BY <1>1, InOrderAppend DEF QueuesInOrder
  <2>2. ASSUME NEW x \in Nodes PROVE InOrder(queued'[x], sent'[x])
    <3>1. CASE x = n
      BY <1>1, <2>1, <3>1
    <3>2. CASE x # n
      BY <1>1, <3>2 DEF QueuesInOrder
    <3> QED BY <3>1, <3>2
  <2> QED BY <2>2 DEF QueuesInOrder
<1>6. HeldInAll' = HeldInAll /\ lost \subseteq lost'
  BY <1>1 DEF HeldInAll
<1>7. ASSUME peer = n
      PROVE  /\ Produced \subseteq Produced' /\ Produced' \subseteq Produced \cup {<<n, k>>}
             /\ Produced' \subseteq Produced \cup lost' \cup StillQueued'
             /\ StillQueued \subseteq StillQueued'
  <2>1. sent[peer] \in Nat /\ sent'[peer'] = sent[peer] + 1 /\ peer' = n /\ k = sent[peer] + 1
    BY <1>1, <1>7
  <2>2. 1 .. sent[peer] + 1 = (1 .. sent[peer]) \cup {sent[peer] + 1}
    BY <2>1
  <2>3. Produced' = Produced \cup {<<n, k>>}
    BY <1>7, <2>1, <2>2 DEF Produced, Watched!Records
  <2>4. CASE queued' = [queued EXCEPT ![n] = Append(@, k)]
    <3>1. \A x : Holds(queued'[n], x) <=> Holds(queued[n], x) \/ x = k
      BY <1>1, <2>4, HoldsAppend
    <3>2. StillQueued' = StillQueued \cup {<<n, k>>}
      BY <1>7, <2>1, <2>2, <3>1 DEF StillQueued
    <3> QED BY <2>3, <3>2
  <2>5. CASE UNCHANGED queued /\ lost' = lost \cup {<<n, k>>}
    <3>1. StillQueued \subseteq StillQueued'
      BY <1>7, <2>1, <2>2, <2>5 DEF StillQueued
    <3> QED BY <2>3, <2>5, <3>1
  <2> QED BY <1>1, <2>4, <2>5
<1>8. ASSUME peer # n, viewState = "Connected"
      PROVE  Produced' = Produced /\ StillQueued' = StillQueued
  <2>1. peer' = peer /\ peer \in Nodes
    BY <1>1, <1>8 DEF WatchedTyping
  <2>2. sent'[peer'] = sent[peer] /\ queued'[peer'] = queued[peer]
    BY <1>1, <1>8, <2>1
  <2> QED BY <2>1, <2>2 DEF Produced, StillQueued
<1>9. MetricsMeet'
  <2> SUFFICES ASSUME viewState = "Connected"
               PROVE  /\ HeldInAll' \subseteq Produced'
                      /\ opening = <<>> =>
                            /\ Produced' \subseteq HeldInAll' \cup lost' \cup StillQueued'
                            /\ Meets(store["metrics"], viewWire, lost')
    BY <1>1 DEF MetricsMeet
  <2>1. HeldInAll \subseteq Produced /\ Produced \subseteq Produced'
    BY <1>1, <1>7, <1>8 DEF MetricsMeet
  <2>2. ASSUME opening = <<>>
        PROVE  Produced' \subseteq HeldInAll' \cup lost' \cup StillQueued'
    <3>1. Produced \subseteq HeldInAll \cup lost \cup StillQueued
      BY <1>1, <2>2 DEF MetricsMeet
    <3> QED BY <1>6, <1>7, <1>8, <3>1
  <2>3. opening = <<>> => Meets(store["metrics"], viewWire, lost')
    BY <1>1, <1>6, MeetsLater DEF MetricsMeet
  <2> QED BY <1>6, <2>1, <2>2, <2>3
<1> QED BY <1>3, <1>4, <1>5, <1>9 DEF WatchedInv

(* The node takes a record from its queue; the Monitor that watches and has *)
(* been heard gets it as an event.                                          *)
LEMMA WatchedBroadcasts ==
    ASSUME WatchedInv, NEW n \in Nodes, Watched!Broadcast(n)
    PROVE  WatchedInv'
<1> DEFINE k == Head(queued[n])
<1>1. /\ WatchedTyping /\ QueuesInOrder /\ OnePeer /\ MetricsMeet
      /\ viewWire \in Seq(Messages) /\ sent \in [Nodes -> Nat] /\ queued \in [Nodes -> Seq(Nat)]
      /\ queued' = [queued EXCEPT ![n] = Tail(@)]
      /\ sent[n] \in Nat /\ queued[n] \in Seq(Nat) /\ queued[n] # <<>>
      /\ UNCHANGED <<viewState, peer, opening, store, sent, lost>>
  BY DEF WatchedInv, WatchedTyping, Watched!Broadcast, Watched!viewVars
<1>2. /\ Tail(queued[n]) \in Seq(Nat) /\ InOrder(Tail(queued[n]), sent[n]) /\ k \in 1 .. sent[n]
      /\ \A i \in DOMAIN Tail(queued[n]) : k < Tail(queued[n])[i]
  BY <1>1, InOrderTail DEF QueuesInOrder
<1>3. \A x : Holds(queued[n], x) <=> x = k \/ Holds(queued'[n], x)
  BY <1>1, HoldsTail
<1>4. \A x : Holds(queued'[n], x) => x > k
  BY <1>1, <1>2 DEF Holds
<1> HIDE DEF k
<1>5. queued' \in [Nodes -> Seq(Nat)]
  BY <1>1, <1>2
<1>6. QueuesInOrder'
  BY <1>1, <1>2 DEF QueuesInOrder
<1>7. Produced' = Produced
  BY <1>1 DEF Produced
<1>8. CASE ~Watched!GetsEvents(n)
  <2>1. UNCHANGED viewWire
    BY <1>8 DEF Watched!Broadcast
  <2>2. WatchedTyping'
    BY <1>1, <1>5, <2>1 DEF WatchedTyping
  <2>3. OnePeer'
    BY <1>1, <2>1 DEF OnePeer
  <2>4. HeldInAll' = HeldInAll
    BY <1>1, <2>1 DEF HeldInAll
  <2>5. ASSUME viewState = "Connected", opening = <<>>
        PROVE  StillQueued' = StillQueued
    <3>1. DOMAIN opening = {}
      BY <2>5
    <3>2. peer # n /\ peer \in Nodes
      BY <1>1, <1>8, <2>5, <3>1 DEF Watched!GetsEvents, WatchedTyping
    <3> QED BY <1>1, <3>2 DEF StillQueued
  <2>6. MetricsMeet'
    BY <1>1, <1>7, <2>1, <2>4, <2>5 DEF MetricsMeet
  <2> QED BY <1>6, <2>2, <2>3, <2>6 DEF WatchedInv
<1>9. CASE Watched!GetsEvents(n)
  <2> DEFINE m == Watched!Message("record", n, k)
  <2>1. /\ viewState = "Connected" /\ peer = n
        /\ viewWire' = Append(viewWire, m)
    BY <1>9 DEF Watched!Broadcast, Watched!GetsEvents, k
  <2>2. opening \in {<<>>, <<"snapshot">>}
    <3>1. ASSUME opening = <<"hello", "snapshot">> PROVE FALSE
      <4>1. 1 \in DOMAIN opening /\ opening[1] = "hello"
        BY <3>1
      <4> QED BY <1>9, <4>1 DEF Watched!GetsEvents
    <3> QED BY <1>1, <3>1 DEF WatchedTyping
  <2>3. m \in Messages /\ m.from = peer /\ m.kind = "record" /\ m.n = k
    BY <1>1, <1>2, <2>1, MessageSent
  <2> HIDE DEF m
  <2>4. Watched!Gain(m, "metrics") = {<<peer, k>>}
    BY <2>3, GainOf
  <2>5. HeldInAll' = HeldInAll \cup {<<peer, k>>}
    BY <1>1, <2>1, <2>3, <2>4, HeldAppend
  <2>6. HeldInAll' \subseteq Produced
    <3>1. <<peer, k>> \in Produced
      BY <1>2, <2>1 DEF Produced, Watched!Records
    <3> QED BY <1>1, <2>1, <2>5, <3>1 DEF MetricsMeet
  <2>7. StillQueued \subseteq StillQueued' \cup {<<peer, k>>}
    BY <1>1, <1>3, <2>1 DEF StillQueued
  <2>8. ASSUME opening = <<>>
        PROVE  /\ Produced \subseteq HeldInAll' \cup lost \cup StillQueued'
               /\ Meets(store["metrics"], viewWire', lost)
    <3>1. Produced \subseteq HeldInAll \cup lost \cup StillQueued
      BY <1>1, <2>1, <2>8 DEF MetricsMeet
    <3>2. Meets(store["metrics"], viewWire, lost)
      BY <1>1, <2>1, <2>8 DEF MetricsMeet
    <3>3. WithoutHole(HeldInAll, lost)
      BY <1>1, <3>2, MeetsInTheEnd DEF HeldInAll
    <3>4. Produced \subseteq HeldInAll' \cup lost \cup StillQueued'
      BY <2>5, <2>7, <3>1
    <3>5. Watched!Records(peer, 1 .. k) \subseteq HeldInAll' \cup lost
      <4>1. SUFFICES ASSUME NEW i \in 1 .. k PROVE <<peer, i>> \in HeldInAll' \cup lost
        BY DEF Watched!Records
      <4>2. <<peer, i>> \in Produced
        <5>1. sent[peer] \in Nat /\ k \in Nat /\ k <= sent[peer]
          BY <1>1, <1>2, <2>1
        <5>2. i \in 1 .. sent[peer]
          BY <5>1
        <5> QED BY <5>2 DEF Produced, Watched!Records
      <4>3. <<peer, i>> \notin StillQueued'
        BY <1>1, <1>2, <1>4, <2>1 DEF StillQueued
      <4> QED BY <3>4, <4>2, <4>3
    <3>6. WithoutHole(HeldInAll \cup Watched!Gain(m, "metrics"), lost)
      BY <2>4, <2>5, <3>3, <3>5 DEF WithoutHole
    <3>7. Meets(store["metrics"], viewWire', lost)
      BY <1>1, <2>1, <2>3, <3>2, <3>6, MeetsAppend DEF HeldInAll
    <3> QED BY <3>4, <3>7
  <2>9. MetricsMeet'
    BY <1>1, <1>7, <2>6, <2>8 DEF MetricsMeet
  <2> QED BY <1>1, <1>5, <1>6, <2>1, <2>2, <2>3, <2>9, WatchedSends
<1> QED BY <1>8, <1>9

(* Every step of the Monitor's link keeps its invariant.                   *)
LEMMA WatchedStep ==
    ASSUME WatchedInv, Watched!Next
    PROVE  WatchedInv'
<1>1. WatchedTyping /\ QueuesInOrder /\ OnePeer /\ MetricsMeet
  BY DEF WatchedInv
<1>2. ASSUME NEW n \in Nodes, Watched!ConnectToNode(n)
      PROVE  WatchedInv'
  BY <1>1, <1>2, WatchedAborts DEF Watched!ConnectToNode, Watched!Aborted, Watched!nodeVars
<1>3. CASE \/ Watched!DisconnectFromNode \/ Watched!ConnectFails \/ Watched!NodeCloses
           \/ Watched!Poll /\ viewState' = "Disconnected"
  BY <1>1, <1>3, WatchedAborts DEF Watched!DisconnectFromNode, Watched!ConnectFails,
     Watched!NodeCloses, Watched!Poll, Watched!Aborted, Watched!Dropped, Watched!viewVars,
     Watched!nodeVars
<1>4. CASE Watched!Connected
  <2>1. /\ viewState = "Connecting" /\ viewState' = "Connected"
        /\ opening' = <<"hello", "snapshot">>
        /\ UNCHANGED <<peer, viewWire, store, sent, queued>>
    BY <1>4 DEF Watched!Connected, Watched!OpeningRequests, Watched!viewVars, Watched!nodeVars
  <2>2. opening' # <<>>
    BY <2>1
  <2>3. viewWire = <<>> /\ store["metrics"] = {}
    BY <1>1, <2>1 DEF OnePeer
  <2>4. WatchedTyping'
    BY <1>1, <2>1 DEF WatchedTyping
  <2>5. OnePeer'
    BY <1>1, <2>1, <2>3 DEF OnePeer
  <2>6. MetricsMeet'
    <3>1. Len(viewWire') = 0
      BY <2>1, <2>3
    <3> QED BY <2>1, <2>2, <2>3, <3>1, AfterNone DEF MetricsMeet, HeldInAll
  <2>7. QueuesInOrder'
    BY <1>1, <2>1 DEF QueuesInOrder
  <2> QED BY <2>4, <2>5, <2>6, <2>7 DEF WatchedInv
<1>5. ASSUME UNCHANGED <<viewState, peer, store, viewWire, opening, sent, queued, lost>>
      PROVE  WatchedInv'
  <2>1. WatchedTyping'
    BY <1>1, <1>5 DEF WatchedTyping
  <2>2. OnePeer'
    BY <1>1, <1>5 DEF OnePeer
  <2>3. MetricsMeet'
    BY <1>1, <1>5 DEF MetricsMeet, Produced, HeldInAll, StillQueued
  <2>4. QueuesInOrder'
    BY <1>1, <1>5 DEF QueuesInOrder
  <2> QED BY <2>1, <2>2, <2>3, <2>4 DEF WatchedInv
<1>6. CASE Watched!Poll /\ viewState' # "Disconnected"
  BY <1>5, <1>6 DEF Watched!Poll, Watched!Dropped, Watched!viewVars, Watched!nodeVars
<1>7. ASSUME NEW s \in Watched!Stores, Watched!Refresh(s)
      PROVE  WatchedInv'
  BY <1>5, <1>7 DEF Watched!Refresh, Watched!nodeVars
<1>8. ASSUME NEW n \in Nodes, Watched!FallSilent(n)
      PROVE  WatchedInv'
  BY <1>5, <1>8 DEF Watched!FallSilent, Watched!viewVars
<1>9. CASE Watched!Answer
  BY <1>9, WatchedAnswers DEF Watched!Answer, Watched!viewVars, Watched!nodeVars
<1>10. CASE Watched!SendReset
  <2>1. opening \in {<<>>, <<"snapshot">>}
    <3>1. ASSUME opening = <<"hello", "snapshot">> PROVE FALSE
      <4>1. 1 \in DOMAIN opening /\ opening[1] = "hello"
        BY <3>1
      <4> QED BY <1>10, <4>1 DEF Watched!SendReset, Watched!GetsEvents
    <3> QED BY <1>1, <3>1 DEF WatchedTyping
  <2> QED BY <1>10, <2>1, WatchedAnswers DEF Watched!SendReset, Watched!viewVars
<1> QED
  BY WatchedCases, WatchedReads, WatchedOpens, WatchedRecords, WatchedBroadcasts, <1>2, <1>3,
     <1>4, <1>6, <1>7, <1>8, <1>9, <1>10

(* What the invariant says of the property that is checked.                 *)
LEMMA WatchedHolds ==
    ASSUME WatchedInv
    PROVE  MetricsWithoutHole
<1>1. Watched!StoresOfWatchedNode
  BY DEF WatchedInv, OnePeer, Watched!StoresOfWatchedNode
<1>2. ASSUME viewState = "Connected", opening = <<>>,
             \A i \in DOMAIN viewWire : viewWire[i].kind # "snapshot"
      PROVE  WithoutHole(store["metrics"], lost)
  <2>1. DOMAIN viewWire = 1 .. Len(viewWire) /\ Len(viewWire) \in Nat
    BY DEF WatchedInv, WatchedTyping
  <2>2. WithoutHole(MetricsAfter(store["metrics"], viewWire, 0), lost)
    BY <1>2, <2>1 DEF WatchedInv, MetricsMeet, Meets
  <2> QED BY <2>2, AfterNone
<1>3. Watched!MetricsWithoutHole
  BY <1>2 DEF WithoutHole, Watched!MetricsWithoutHole
<1> QED BY <1>1, <1>3 DEF MetricsWithoutHole
-----------------------------------------------------------------------------
(***************************************************************************)
(* All four links.                                                         *)
(***************************************************************************)
(* What the send path's invariant says of the property that is checked.     *)
LEMMA SendHolds ==
    ASSUME SendInv
    PROVE  NoDatagramStranded
BY DEF SendInv, DutyHeld, RoundsAccounted, NoDatagramStranded,
       SendPath!NoDatagramStranded, SendPath!CompletedIsWritten

(* A link that takes no step keeps its invariant.                           *)
LEMMA SendRests ==
    ASSUME SendInv, UNCHANGED sendVars
    PROVE  SendInv'
<1> USE DEF sendVars
<1>1. SendTyping'
  BY DEF SendInv, SendTyping
<1>2. DutyHeld'
  BY DEF SendInv, DutyHeld, SendPath!DrainIsDue
<1>3. ClientHeld'
  BY DEF SendInv, ClientHeld
<1>4. RoundsAccounted'
  BY DEF SendInv, RoundsAccounted, Accounted, FaultOf, Holds
<1> QED BY <1>1, <1>2, <1>3, <1>4 DEF SendInv

(* An upload that rests.                                                   *)
LEMMA UploadRests ==
    ASSUME UploadInv, UNCHANGED uploadVars
    PROVE  UploadInv'
<1> USE DEF uploadVars
<1>1. ManagerTyping'
  BY DEF UploadInv, ManagerTyping
<1>2. LinksInOrder' /\ NodeInOrder'
  BY DEF UploadInv, LinksInOrder, NodeInOrder
<1>3. Upload!AcceptedUploadIsWhole'
  BY DEF UploadInv, Upload!AcceptedUploadIsWhole
<1> QED BY <1>1, <1>2, <1>3 DEF UploadInv

(* A node and a Manager that rest.                                         *)
LEMMA FoundRests ==
    ASSUME FoundInv, UNCHANGED foundVars
    PROVE  FoundInv'
<1> USE DEF foundVars
<1>1. FoundTyping'
  BY DEF FoundInv, FoundTyping
<1>2. HeardFrom'
  BY DEF FoundInv, HeardFrom, WithinReach, SilentAtMost, Found!Reaches
<1> QED BY <1>1, <1>2 DEF FoundInv

(* A Monitor that rests.                                                   *)
LEMMA WatchedRests ==
    ASSUME WatchedInv, UNCHANGED watchedVars
    PROVE  WatchedInv'
<1> USE DEF watchedVars
<1>1. WatchedTyping'
  BY DEF WatchedInv, WatchedTyping
<1>2. OnePeer'
  BY DEF WatchedInv, OnePeer
<1>3. MetricsMeet'
  BY DEF WatchedInv, MetricsMeet, Produced, HeldInAll, StillQueued
<1>4. QueuesInOrder'
  BY DEF WatchedInv, QueuesInOrder
<1> QED BY <1>1, <1>2, <1>3, <1>4 DEF WatchedInv

(* All four invariants hold in the initial states.                         *)
LEMMA LinksInitially == MCInit => LinksInv
BY LinksAssumption, SendInitially, UploadInitially, FoundInitially, WatchedInitially
   DEF MCInit, LinksInv

(* A step of one part keeps its invariant and leaves the others alone.     *)
LEMMA LinksStep == LinksInv /\ [MCNext]_allVars => LinksInv'
<1> SUFFICES ASSUME LinksInv, [MCNext]_allVars PROVE LinksInv'
  OBVIOUS
<1>1. SendInv'
  <2>1. SendPath!Next \/ UNCHANGED sendVars
    BY DEF MCNext, allVars
  <2> QED BY <2>1, LinksAssumption, SendStep, SendRests DEF LinksInv
<1>2. UploadInv'
  <2>1. Upload!Next \/ UNCHANGED uploadVars
    BY DEF MCNext, allVars
  <2> QED BY <2>1, LinksAssumption, UploadStep, UploadRests DEF LinksInv
<1>3. FoundInv'
  <2>1. Found!Next \/ UNCHANGED foundVars
    BY DEF MCNext, allVars
  <2> QED BY <2>1, LinksAssumption, FoundStep, FoundRests DEF LinksInv
<1>4. WatchedInv'
  <2>1. Watched!Next \/ UNCHANGED watchedVars
    BY DEF MCNext, allVars
  <2> QED BY <2>1, WatchedStep, WatchedRests DEF LinksInv
<1> QED BY <1>1, <1>2, <1>3, <1>4 DEF LinksInv

(* The invariant of every behaviour.                                        *)
LEMMA LinksHold == MCSpec => []LinksInv
BY LinksInitially, LinksStep, PTL DEF MCSpec

(* PcNodeNetworkController: whatever order calls, drains, closes and faults *)
(* come in, a queued datagram has a drain on its way, and a client that is  *)
(* told a round was completed may rely on all of it having been written,    *)
(* unless a RoundStart has wiped a fault before the round was told.         *)
THEOREM DatagramsDelivered == MCSpec => []NoDatagramStranded
<1>1. LinksInv => NoDatagramStranded
  BY SendHolds DEF LinksInv
<1> QED BY <1>1, LinksHold, PTL

(* A file is taken from a node that stops and starts, and over connections  *)
(* that break in the middle of an upload, only whole and in its order, and  *)
(* the Manager's backlog stays within its limit.                            *)
THEOREM FilesArriveWhole == MCSpec => []AcceptedUploadIsWhole
<1>1. LinksInv => AcceptedUploadIsWhole
  BY UploadHolds DEF LinksInv
<1> QED BY <1>1, LinksHold, PTL

(* The Manager's offline check never gives up a node that has been within   *)
(* reach for the timeout, as long as the timeout is longer than one more    *)
(* heartbeat than may be lost in a row takes.                               *)
THEOREM LivingNodeIsKept == MCSpec => []LivingNodeStaysConnected
<1>1. LinksInv => LivingNodeStaysConnected
  BY LinksAssumption, FoundHolds DEF LinksInv
<1> QED BY <1>1, LinksHold, PTL

(* A Monitor that connects in the middle of a round, whenever, holds every  *)
(* metric up to the last one it was sent but those that a full queue or a   *)
(* full store has given up, and it holds metrics of the node it watches     *)
(* only.                                                                    *)
THEOREM NoMetricIsMissed == MCSpec => []MetricsWithoutHole
<1>1. LinksInv => MetricsWithoutHole
  BY WatchedHolds DEF LinksInv
<1> QED BY <1>1, LinksHold, PTL
-----------------------------------------------------------------------------
(***************************************************************************)
(* The Manager and the participants of its rounds.                         *)
(*                                                                         *)
(* Rounds and fault plans are numbered downwards, since the model takes    *)
(* their numbers from what is left of a budget: the newest one under way   *)
(* has the smallest number, and all that lies on a link or is remembered   *)
(* by a participant has a larger one than those still to come.             *)
(***************************************************************************)
RequestType ==
    [round : Nat \ {0}, node : Endpoints, kind : {"sender", "payload", "receiver", "mapping"},
     about : Endpoints \cup {NoPlan}]

KeyType == Endpoints \X {"Sender", "Receiver"} \X Endpoints
ReportType == [type : {"Result"}, round : Nat \ {0}, key : KeyType]

ToNodeType ==
    [type : {"Ask"}, req : RequestType]
        \cup [type : {"Plan"}, round : Nat, plan : Nat \ {0}]
        \cup [type : {"Start", "Pause", "Resume", "Stop"}, round : Nat \ {0},
              senders : SUBSET Endpoints]

ToMgrType ==
    [type : {"Answer"}, req : RequestType, ok : BOOLEAN]
        \cup [type : {"PlanAnswer"}, plan : Nat \ {0}, ok : BOOLEAN]
        \cup ReportType
        \cup [type : {"Drained"}, round : Nat \ {0}]

ControllerType ==
    [round : Nat, parts : SUBSET Endpoints, senders : SUBSET Endpoints,
     pend : SUBSET RequestType, rejected : BOOLEAN, ready : BOOLEAN, planned : Nat,
     pendPlan : Nat, planRejected : BOOLEAN, planReady : BOOLEAN, got : SUBSET KeyType,
     drained : SUBSET Endpoints, expected : Nat, running : BOOLEAN, paused : BOOLEAN]

ParticipantType ==
    [held : SUBSET RequestType, plan : Nat, owes : SUBSET ReportType, drain : Nat,
     acked : Nat, paused : BOOLEAN, refused : BOOLEAN]

RoundTyping ==
    /\ prepared \in BOOLEAN
    /\ mgr \in ControllerType
    /\ link \in [Endpoints -> BOOLEAN]
    /\ toNode \in [Endpoints -> Seq(ToNodeType)]
    /\ toMgr \in [Endpoints -> Seq(ToMgrType)]
    /\ node \in [Endpoints -> ParticipantType]
    /\ budget \in [rounds : Nat, plans : Nat, commands : Nat, breaks : Nat]

(* The members of the controller agree with each other.                    *)
AllKeys(parts, senders) == UNION {ResultsOf(n, senders) : n \in parts}

ControllerInv ==
    /\ mgr.round # NoRound =>
           /\ mgr.round = budget.rounds + 1
           /\ mgr.senders # {} /\ mgr.senders \subseteq mgr.parts
           /\ mgr.expected = ExpectedResults(mgr.parts, mgr.senders)
    /\ mgr.round = NoRound =>
           mgr.parts = {} /\ mgr.senders = {} /\ ~mgr.ready /\ ~mgr.running /\ ~prepared
    /\ mgr.pend \subseteq Requests(mgr.round, mgr.parts, mgr.senders)
    /\ mgr.ready => mgr.pend = {} /\ ~mgr.rejected
    /\ mgr.planned # NoPlan => mgr.planned = budget.plans + 1
    /\ mgr.pendPlan \in {NoPlan, mgr.planned}
    /\ mgr.planReady => mgr.planned # NoPlan
    /\ mgr.got \subseteq AllKeys(mgr.parts, mgr.senders)
    /\ mgr.drained \subseteq mgr.parts
    /\ prepared => ~mgr.running /\ mgr.got = {} /\ mgr.drained = {}

(* Everything under way is older than the numbers that are left.           *)
Numbered(m) ==
    /\ m.type \in {"Ask", "Answer"} => m.req.round > budget.rounds
    /\ m.type \in {"Plan", "PlanAnswer"} => m.plan > budget.plans
    /\ m.type \in {"Start", "Result", "Drained"} => m.round > budget.rounds

NumberInv(n) ==
    /\ \A m \in Range(toNode[n]) \cup Range(toMgr[n]) \cup node[n].owes : Numbered(m)
    /\ \A q \in node[n].held : q.round > budget.rounds
    /\ node[n].drain # NoRound => node[n].drain > budget.rounds
    /\ node[n].acked # NoRound => node[n].acked > budget.rounds
    /\ node[n].plan # NoPlan => node[n].plan > budget.plans

(* A later message never has an older number, and a round is started once. *)
Precedes(a, b) ==
    /\ a.type = "Ask" /\ b.type = "Ask" => a.req.round >= b.req.round
    /\ a.type = "Plan" /\ b.type = "Plan" => a.plan > b.plan
    /\ a.type = "Start" /\ b.type = "Start" => a.round > b.round

Ordered(s) == \A i, j \in DOMAIN s : i < j => Precedes(s[i], s[j])

(* A request that was consented to is held while its preparation lasts.    *)
HeldInv(n) ==
    /\ \A m \in Range(toNode[n]) : m.type = "Ask" =>
          m.req.node = n /\ \A q \in node[n].held : q.round >= m.req.round
    /\ \A m \in Range(toMgr[n]) : m.type = "Answer" /\ m.ok /\ m.req.round = mgr.round =>
          m.req.node = n /\ m.req \in node[n].held

AllAccounted ==
    mgr.rejected \/ Requests(mgr.round, mgr.parts, mgr.senders)
                        \subseteq mgr.pend \cup UNION {node[n].held : n \in mgr.parts}

(* A fault plan that was consented to is in force until there is another.  *)
PlanInv(n) ==
    /\ \A m \in Range(toNode[n]) : m.type = "Plan" =>
          /\ node[n].plan # NoPlan => m.plan < node[n].plan
          /\ m.plan = mgr.planned => n \in mgr.senders
    /\ \A m \in Range(toMgr[n]) : m.type = "PlanAnswer" /\ m.ok /\ m.plan = mgr.planned =>
          n \in mgr.senders /\ node[n].plan = mgr.planned

PlanInForce == mgr.planReady => \E s \in mgr.senders : node[s].plan = mgr.planned

(* What there is of the prepared round once a participant has started it,  *)
(* and that nothing of it comes before.                                    *)
OfRound(m) == m.type \in {"Result", "Drained"} /\ m.round = mgr.round

Begun(n) ==
    \/ \E q \in node[n].owes : q.round = mgr.round
    \/ node[n].drain = mgr.round \/ node[n].acked = mgr.round
    \/ \E m \in Range(toMgr[n]) : OfRound(m)
    \/ n \in mgr.drained \/ \E k \in mgr.got : k[1] = n

StartInv(n) ==
    /\ mgr.round # NoRound /\ Begun(n) =>
          /\ ~prepared
          /\ \A m \in Range(toNode[n]) : m.type # "Start"
          /\ \A q \in node[n].owes : q.round = mgr.round
    /\ \A m \in Range(toNode[n]) : m.type = "Start" /\ m.round = mgr.round =>
          ~prepared /\ n \in mgr.parts /\ m.senders = mgr.senders

(* A result is owed, under way or received, and one of these at a time.    *)
Reported(n, k) == k \in mgr.got \/ Result(mgr.round, k) \in Range(toMgr[n])

ResultInv(n) ==
    /\ \A q \in node[n].owes : q.round = mgr.round =>
          n \in mgr.parts /\ q.key \in ResultsOf(n, mgr.senders) /\ ~Reported(n, q.key)
    /\ \A m \in Range(toMgr[n]) : m.type = "Result" /\ m.round = mgr.round =>
          n \in mgr.parts /\ m.key \in ResultsOf(n, mgr.senders)

(* A drain that was confirmed for this round was one of this round.        *)
DrainInv(n) ==
    mgr.round # NoRound =>
        /\ n \in mgr.drained \/ Drained(mgr.round) \in Range(toMgr[n]) =>
              node[n].acked = mgr.round
        /\ node[n].acked = mgr.round => node[n].drain \in {NoRound, mgr.round}

ParticipantInv(n) ==
    /\ NumberInv(n) /\ Ordered(toNode[n]) /\ HeldInv(n) /\ PlanInv(n)
    /\ StartInv(n) /\ ResultInv(n) /\ DrainInv(n)

ManagerInv ==
    /\ RoundTyping /\ ControllerInv /\ AllAccounted /\ PlanInForce
    /\ \A n \in Endpoints : ParticipantInv(n)

-----------------------------------------------------------------------------
(* What is on a link after a message was put on it or taken off.           *)
LEMMA RangeMember ==
    ASSUME NEW S, NEW s \in Seq(S)
    PROVE  /\ Range(s) \subseteq S
           /\ \A i \in DOMAIN s : s[i] \in Range(s)
BY DEF Range

(* The first message is taken off.                                         *)
LEMMA RangeTail ==
    ASSUME NEW S, NEW s \in Seq(S), s # <<>>
    PROVE  /\ Head(s) \in S /\ Head(s) \in Range(s)
           /\ Tail(s) \in Seq(S) /\ Range(Tail(s)) \subseteq Range(s)
<1>1. Len(s) \in Nat \ {0} /\ DOMAIN s = 1 .. Len(s)
  BY EmptySeq, LenProperties
<1>2. Head(s) = s[1] /\ 1 \in DOMAIN s
  BY <1>1
<1>3. \A i \in DOMAIN Tail(s) : Tail(s)[i] = s[i + 1] /\ i + 1 \in DOMAIN s
  BY <1>1, HeadTailProperties
<1> QED
  BY <1>1, <1>2, <1>3, HeadTailProperties DEF Range

(* Some messages are put behind the others.                                *)
LEMMA RangeConcat ==
    ASSUME NEW S, NEW s \in Seq(S), NEW t \in Seq(S)
    PROVE  s \o t \in Seq(S) /\ Range(s \o t) = Range(s) \cup Range(t)
<1>1. /\ s \o t \in Seq(S) /\ Len(s) \in Nat /\ Len(t) \in Nat
      /\ DOMAIN s = 1 .. Len(s) /\ DOMAIN t = 1 .. Len(t)
      /\ DOMAIN (s \o t) = 1 .. Len(s) + Len(t)
      /\ \A i \in 1 .. Len(s) + Len(t) :
            (s \o t)[i] = IF i <= Len(s) THEN s[i] ELSE t[i - Len(s)]
  BY ConcatProperties, LenProperties
<1>2. ASSUME NEW x \in Range(s \o t)
      PROVE  x \in Range(s) \cup Range(t)
  <2>1. PICK i \in 1 .. Len(s) + Len(t) : x = (s \o t)[i]
    BY <1>1 DEF Range
  <2>2. CASE i <= Len(s)
    BY <1>1, <2>1, <2>2 DEF Range
  <2>3. CASE ~(i <= Len(s))
    <3>1. i - Len(s) \in 1 .. Len(t)
      BY <1>1, <2>3
    <3> QED
      BY <1>1, <2>1, <2>3, <3>1 DEF Range
  <2> QED
    BY <2>2, <2>3
<1>3. ASSUME NEW x \in Range(s)
      PROVE  x \in Range(s \o t)
  <2>1. PICK i \in 1 .. Len(s) : x = s[i]
    BY <1>1 DEF Range
  <2> QED
    BY <1>1, <2>1 DEF Range
<1>4. ASSUME NEW x \in Range(t)
      PROVE  x \in Range(s \o t)
  <2>1. PICK i \in 1 .. Len(t) : x = t[i]
    BY <1>1 DEF Range
  <2>2. /\ i + Len(s) \in 1 .. Len(s) + Len(t) /\ ~(i + Len(s) <= Len(s))
        /\ (i + Len(s)) - Len(s) = i
    BY <1>1
  <2> QED
    BY <1>1, <2>1, <2>2 DEF Range
<1> QED
  BY <1>1, <1>2, <1>3, <1>4

(* One message is put behind the others.                                   *)
LEMMA RangeAppend ==
    ASSUME NEW S, NEW s \in Seq(S), NEW x \in S
    PROVE  Append(s, x) \in Seq(S) /\ Range(Append(s, x)) = Range(s) \cup {x}
<1>1. /\ Append(s, x) \in Seq(S) /\ Len(s) \in Nat /\ DOMAIN s = 1 .. Len(s)
      /\ DOMAIN Append(s, x) = 1 .. Len(s) + 1
      /\ \A i \in 1 .. Len(s) : Append(s, x)[i] = s[i]
      /\ Append(s, x)[Len(s) + 1] = x
  BY AppendProperties, LenProperties
<1> QED
  BY <1>1 DEF Range

(* An empty link carries nothing.                                          *)
LEMMA RangeEmpty == ASSUME NEW S PROVE <<>> \in Seq(S) /\ Range(<<>>) = {}
BY DEF Range

(* Taking the first message off keeps the order of the rest.               *)
LEMMA OrderedTail ==
    ASSUME NEW S, NEW s \in Seq(S), s # <<>>, Ordered(s)
    PROVE  Ordered(Tail(s)) /\ \A m \in Range(Tail(s)) : Precedes(Head(s), m)
<1>1. Len(s) \in Nat \ {0} /\ DOMAIN s = 1 .. Len(s) /\ Head(s) = s[1]
  BY EmptySeq, LenProperties
<1>2. DOMAIN Tail(s) = 1 .. Len(s) - 1 /\ \A i \in 1 .. Len(s) - 1 : Tail(s)[i] = s[i + 1]
  BY <1>1, HeadTailProperties
<1>3. \A i \in 1 .. Len(s) - 1 : i + 1 \in DOMAIN s /\ 1 < i + 1
  BY <1>1
<1>4. 1 \in DOMAIN s
  BY <1>1
<1>5. Ordered(Tail(s))
  <2> SUFFICES ASSUME NEW i \in 1 .. Len(s) - 1, NEW j \in 1 .. Len(s) - 1, i < j
               PROVE  Precedes(s[i + 1], s[j + 1])
    BY <1>2 DEF Ordered
  <2>1. i + 1 < j + 1
    BY <1>1
  <2> QED
    BY <1>3, <2>1 DEF Ordered
<1>6. ASSUME NEW m \in Range(Tail(s))
      PROVE  Precedes(Head(s), m)
  <2>1. PICK i \in 1 .. Len(s) - 1 : m = s[i + 1]
    BY <1>2 DEF Range
  <2> QED
    BY <1>1, <1>3, <1>4, <2>1 DEF Ordered
<1> QED
  BY <1>5, <1>6

(* Messages that follow all that is there keep the order.                  *)
LEMMA OrderedConcat ==
    ASSUME NEW S, NEW s \in Seq(S), NEW t \in Seq(S), Ordered(s), Ordered(t),
           \A a \in Range(s), b \in Range(t) : Precedes(a, b)
    PROVE  Ordered(s \o t)
<1>1. /\ Len(s) \in Nat /\ Len(t) \in Nat
      /\ DOMAIN s = 1 .. Len(s) /\ DOMAIN t = 1 .. Len(t)
      /\ DOMAIN (s \o t) = 1 .. Len(s) + Len(t)
      /\ \A i \in 1 .. Len(s) + Len(t) :
            (s \o t)[i] = IF i <= Len(s) THEN s[i] ELSE t[i - Len(s)]
  BY ConcatProperties, LenProperties
<1> SUFFICES ASSUME NEW i \in 1 .. Len(s) + Len(t), NEW j \in 1 .. Len(s) + Len(t), i < j
             PROVE  Precedes((s \o t)[i], (s \o t)[j])
  BY <1>1 DEF Ordered
<1>2. CASE j <= Len(s)
  <2>1. i \in DOMAIN s /\ j \in DOMAIN s /\ (s \o t)[i] = s[i] /\ (s \o t)[j] = s[j]
    BY <1>1, <1>2
  <2> QED
    BY <2>1 DEF Ordered
<1>3. CASE i <= Len(s) /\ ~(j <= Len(s))
  <2>1. /\ i \in DOMAIN s /\ j - Len(s) \in DOMAIN t
        /\ (s \o t)[i] = s[i] /\ (s \o t)[j] = t[j - Len(s)]
    BY <1>1, <1>3
  <2> QED
    BY <2>1 DEF Range
<1>4. CASE ~(i <= Len(s)) /\ ~(j <= Len(s))
  <2>1. /\ i - Len(s) \in DOMAIN t /\ j - Len(s) \in DOMAIN t /\ i - Len(s) < j - Len(s)
        /\ (s \o t)[i] = t[i - Len(s)] /\ (s \o t)[j] = t[j - Len(s)]
    BY <1>1, <1>4
  <2> QED
    BY <2>1 DEF Ordered
<1> QED
  BY <1>1, <1>2, <1>3, <1>4

(* Requests of one round may come in any order. *)
LEMMA OrderedAlike ==
    ASSUME NEW s, \A a, b \in Range(s) : Precedes(a, b)
    PROVE  Ordered(s)
BY DEF Ordered, Range

(* SetToSeq lists a finite set. *)
LEMMA Listed ==
    ASSUME NEW T, IsFiniteSet(T)
    PROVE  SetToSeq(T) \in Seq(T) /\ Range(SetToSeq(T)) \subseteq T
<1>1. Cardinality(T) \in Nat /\ ExistsBijection(1 .. Cardinality(T), T)
  BY FS_CardinalityType
<1>2. PICK f : f \in Bijection(1 .. Cardinality(T), T)
  BY <1>1 DEF ExistsBijection
<1>3. f \in [1 .. Cardinality(T) -> T] /\ IsInjective(f)
  BY <1>2 DEF Bijection, Injection, IsInjective
<1>4. SetToSeq(T) \in [1 .. Cardinality(T) -> T]
  BY <1>3 DEF SetToSeq
<1>5. SetToSeq(T) \in Seq(T)
  BY <1>1, <1>4, SeqDef
<1> QED
  BY <1>5, RangeMember

(* The requests of a preparation, and the messages that carry them.        *)
LEMMA RequestTypes ==
    ASSUME NEW r \in Nat \ {0}, NEW parts \in SUBSET Endpoints,
           NEW senders \in SUBSET Endpoints, senders \subseteq parts
    PROVE  /\ Requests(r, parts, senders) \subseteq RequestType
           /\ \A q \in Requests(r, parts, senders) : q.round = r /\ q.node \in parts
BY DEF Requests, SenderRequests, ReceiverRequests, MappingRequests, RequestType, NoPlan

(* The messages that ask one participant for all of its requests           *)
(* (bSendRequired).                                                        *)
LEMMA AskedTypes ==
    ASSUME NEW r \in Nat \ {0}, NEW reqs \in SUBSET RequestType, NEW n \in Endpoints,
           \A q \in reqs : q.round = r
    PROVE  /\ AskedOf(n, reqs) \in Seq(ToNodeType)
           /\ \A m \in Range(AskedOf(n, reqs)) :
                 m.type = "Ask" /\ m.req \in reqs /\ m.req.node = n /\ m.req.round = r
           /\ Ordered(AskedOf(n, reqs))
<1> DEFINE asks(kind) == {Ask(q) : q \in {a \in reqs : a.node = n /\ a.kind = kind}}
           Good(m) == m.type = "Ask" /\ m.req \in reqs /\ m.req.node = n /\ m.req.round = r
           list(kind) == SetToSeq(asks(kind))
<1>1. ASSUME NEW kind
      PROVE  /\ list(kind) \in Seq(ToNodeType)
             /\ \A m \in Range(list(kind)) : Good(m)
  <2> DEFINE f == [a \in Endpoints \cup {NoPlan} |->
                      Ask([round |-> r, node |-> n, kind |-> kind, about |-> a])]
             T == {f[a] : a \in Endpoints \cup {NoPlan}}
  <2>1. IsFiniteSet(Endpoints \cup {NoPlan})
    BY NodesAssumption, FS_AddElement
  <2>2. f \in Surjection(Endpoints \cup {NoPlan}, T)
    BY DEF Surjection
  <2>3. IsFiniteSet(T)
    BY <2>1, <2>2, FS_Surjection DEF ExistsSurjection
  <2>4. asks(kind) \subseteq T
    <3> SUFFICES ASSUME NEW q \in reqs, q.node = n, q.kind = kind
                 PROVE  Ask(q) \in T
      OBVIOUS
    <3>1. q = [round |-> r, node |-> n, kind |-> kind, about |-> q.about]
          /\ q.about \in Endpoints \cup {NoPlan}
      BY DEF RequestType
    <3>2. Ask(q) = f[q.about]
      BY <3>1
    <3> QED
      BY <3>1, <3>2
  <2>5. asks(kind) \subseteq ToNodeType /\ \A m \in asks(kind) : Good(m)
    BY DEF Ask, ToNodeType
  <2>6. list(kind) \in Seq(asks(kind)) /\ Range(list(kind)) \subseteq asks(kind)
    <3> HIDE DEF asks
    <3> QED
      BY <2>3, <2>4, FS_Subset, Listed
  <2> QED
    <3> HIDE DEF asks, list
    <3>1. list(kind) \in Seq(ToNodeType)
      BY <2>5, <2>6, SeqMonotonic
    <3> QED
      BY <2>5, <2>6, <3>1
<1>2. AskedOf(n, reqs) = ((list("sender") \o list("payload")) \o list("receiver")) \o list("mapping")
  BY DEF AskedOf
<1> HIDE DEF asks, list, Good
<1> DEFINE two == list("sender") \o list("payload")
           three == two \o list("receiver")
<1>3. two \in Seq(ToNodeType) /\ \A m \in Range(two) : Good(m)
  BY <1>1, RangeConcat
<1>4. three \in Seq(ToNodeType) /\ \A m \in Range(three) : Good(m)
  <2> HIDE DEF two
  <2> QED
    BY <1>1, <1>3, RangeConcat
<1>5. AskedOf(n, reqs) \in Seq(ToNodeType) /\ \A m \in Range(AskedOf(n, reqs)) : Good(m)
  <2>1. AskedOf(n, reqs) = three \o list("mapping")
    BY <1>2
  <2> HIDE DEF three
  <2> QED
    BY <1>1, <1>4, <2>1, RangeConcat
<1>6. \A a, b \in Range(AskedOf(n, reqs)) : Precedes(a, b)
  BY <1>5 DEF Good, Precedes
<1>7. Ordered(AskedOf(n, reqs))
  BY <1>6, OrderedAlike
<1> QED
  BY <1>5, <1>7 DEF Good

(* The results of the participants: no two share one, and each has some.   *)
LEMMA KeyTypes ==
    ASSUME NEW senders \in SUBSET Endpoints, NEW n \in Endpoints
    PROVE  /\ ResultsOf(n, senders) \subseteq KeyType
           /\ \A k \in ResultsOf(n, senders) : k[1] = n
           /\ senders # {} => ResultsOf(n, senders) # {}
<1>1. ASSUME senders # {}
      PROVE  ResultsOf(n, senders) # {}
  <2>1. CASE n \in senders
    <3>1. <<n, "Sender", n>> \in ResultsOf(n, senders)
      BY <2>1 DEF ResultsOf
    <3> QED
      BY <3>1
  <2>2. CASE n \notin senders
    <3>1. PICK s \in senders : s # n
      BY <1>1, <2>2
    <3>2. <<n, "Receiver", s>> \in ResultsOf(n, senders)
      BY <3>1 DEF ResultsOf, Heard
    <3> QED
      BY <3>2
  <2> QED
    BY <2>1, <2>2
<1>2. ASSUME NEW k \in ResultsOf(n, senders)
      PROVE  k \in KeyType /\ k[1] = n
  <2>1. PICK s \in senders, duty \in {"Sender", "Receiver"} : k = <<n, duty, s>>
    BY DEF ResultsOf, Heard
  <2> QED
    BY <2>1 DEF KeyType
<1> QED
  BY <1>1, <1>2

(* The Manager waits for finitely many results.                            *)
LEMMA KeysFinite ==
    ASSUME NEW parts \in SUBSET Endpoints, NEW senders \in SUBSET Endpoints
    PROVE  IsFiniteSet(AllKeys(parts, senders)) /\ AllKeys(parts, senders) \subseteq KeyType
<1>1. AllKeys(parts, senders) \subseteq KeyType
  BY KeyTypes DEF AllKeys
<1>2. IsFiniteSet({"Sender", "Receiver"})
  <2>1. IsFiniteSet({"Sender"})
    BY FS_Singleton
  <2>2. {"Sender", "Receiver"} = {"Sender"} \cup {"Receiver"}
    OBVIOUS
  <2> QED
    BY <2>1, <2>2, FS_AddElement
<1> DEFINE P == (Endpoints \X {"Sender", "Receiver"}) \X Endpoints
           f == [p \in P |-> <<p[1][1], p[1][2], p[2]>>]
<1>3. IsFiniteSet(P)
  BY <1>2, NodesAssumption, FS_Product
<1>4. f \in Surjection(P, KeyType)
  <2>1. f \in [P -> KeyType]
    BY DEF KeyType
  <2>2. ASSUME NEW k \in KeyType
        PROVE  \E p \in P : f[p] = k
    <3>1. <<<<k[1], k[2]>>, k[3]>> \in P /\ f[<<<<k[1], k[2]>>, k[3]>>] = k
      BY DEF KeyType
    <3> QED
      BY <3>1
  <2> QED
    BY <2>1, <2>2 DEF Surjection
<1>5. IsFiniteSet(KeyType)
  BY <1>3, <1>4, FS_Surjection DEF ExistsSurjection
<1> QED
  BY <1>1, <1>5, FS_Subset

-----------------------------------------------------------------------------
(* A participant that nothing of happens to, while messages may get lost.  *)
LEMMA ParticipantFrame ==
    ASSUME NEW n \in Endpoints, ParticipantInv(n),
           mgr'.round = mgr.round, mgr'.parts = mgr.parts, mgr'.senders = mgr.senders,
           mgr'.planned = mgr.planned, mgr'.got = mgr.got, mgr'.drained = mgr.drained,
           budget'.rounds = budget.rounds, budget'.plans = budget.plans,
           prepared' => prepared,
           Range(toNode[n])' \subseteq Range(toNode[n]), Ordered(toNode[n])',
           Range(toMgr[n])' \subseteq Range(toMgr[n]), node'[n] = node[n]
    PROVE  ParticipantInv(n)'
<1> USE DEF ParticipantInv
<1>1. NumberInv(n)'
  BY DEF NumberInv, Numbered
<1>2. HeldInv(n)'
  BY DEF HeldInv
<1>3. PlanInv(n)'
  BY DEF PlanInv
<1>4. StartInv(n)'
  BY DEF StartInv, Begun, OfRound
<1>5. ResultInv(n)'
  BY DEF ResultInv, Reported
<1>6. DrainInv(n)'
  BY DEF DrainInv
<1> QED
  BY <1>1, <1>2, <1>3, <1>4, <1>5, <1>6

(* What the invariant says of one participant and its links.               *)
LEMMA InvFacts ==
    ASSUME ManagerInv, NEW n \in Endpoints
    PROVE  /\ RoundTyping /\ ControllerInv /\ AllAccounted /\ PlanInForce /\ ParticipantInv(n)
           /\ toNode[n] \in Seq(ToNodeType) /\ Range(toNode[n]) \subseteq ToNodeType
           /\ toMgr[n] \in Seq(ToMgrType) /\ Range(toMgr[n]) \subseteq ToMgrType
           /\ node[n] \in ParticipantType
BY RangeMember DEF ManagerInv, RoundTyping

(* A step of one participant and its links, the Manager looking on.        *)
LEMMA ParticipantStep ==
    ASSUME ManagerInv, NEW n \in Endpoints,
           UNCHANGED <<prepared, mgr, link, budget>>,
           NEW s \in Seq(ToNodeType), toNode' = [toNode EXCEPT ![n] = s],
           NEW t \in Seq(ToMgrType), toMgr' = [toMgr EXCEPT ![n] = t],
           NEW p \in ParticipantType, node' = [node EXCEPT ![n] = p],
           \A q \in node[n].held : q.round = mgr.round => q \in p.held,
           node[n].plan = mgr.planned /\ mgr.planned # NoPlan => p.plan = mgr.planned,
           ParticipantInv(n)'
    PROVE  ManagerInv'
<1>0. RoundTyping /\ ControllerInv /\ AllAccounted /\ PlanInForce
  BY DEF ManagerInv
<1>1. RoundTyping'
  BY <1>0 DEF RoundTyping
<1>2. ControllerInv'
  BY <1>0 DEF ControllerInv
<1>3. node'[n] = p /\ \A m \in Endpoints \ {n} : node'[m] = node[m]
  BY <1>0 DEF RoundTyping
<1>4. AllAccounted'
  <2> SUFFICES ASSUME ~mgr.rejected,
                      NEW q \in Requests(mgr.round, mgr.parts, mgr.senders), q \notin mgr.pend
               PROVE  \E m \in mgr.parts : q \in node'[m].held
    BY DEF AllAccounted
  <2>1. PICK m \in mgr.parts : q \in node[m].held
    BY <1>0 DEF AllAccounted
  <2>2. q.round = mgr.round
    BY DEF Requests, SenderRequests, ReceiverRequests, MappingRequests
  <2>3. m \in Endpoints
    BY <1>0 DEF RoundTyping, ControllerType
  <2>4. q \in node'[m].held
    BY <1>3, <2>1, <2>2, <2>3
  <2> QED
    BY <2>4
<1>5. PlanInForce'
  <2>1. mgr.senders \subseteq Endpoints
    BY <1>0 DEF RoundTyping, ControllerType
  <2> QED
    BY <1>0, <1>3, <2>1 DEF PlanInForce, ControllerInv
<1>6. ASSUME NEW m \in Endpoints
      PROVE  ParticipantInv(m)'
  <2>1. CASE m = n
    BY <2>1
  <2>2. CASE m # n
    <3>1. toNode'[m] = toNode[m] /\ toMgr'[m] = toMgr[m] /\ node'[m] = node[m]
      BY <1>0, <2>2 DEF RoundTyping
    <3>2. ParticipantInv(m)
      BY DEF ManagerInv
    <3>3. Ordered(toNode[m])'
      BY <3>1, <3>2 DEF ParticipantInv, Ordered, Precedes
    <3> QED
      BY <3>1, <3>2, <3>3, ParticipantFrame
  <2> QED
    BY <2>1, <2>2
<1> QED
  BY <1>1, <1>2, <1>4, <1>5, <1>6 DEF ManagerInv

(* Nothing happens. *)
LEMMA InvStutter == ManagerInv /\ UNCHANGED vars => ManagerInv'
<1> SUFFICES ASSUME ManagerInv, UNCHANGED vars PROVE ManagerInv'
  OBVIOUS
<1> USE DEF vars
<1>0. RoundTyping /\ ControllerInv /\ AllAccounted /\ PlanInForce
  BY DEF ManagerInv
<1>1. RoundTyping' /\ ControllerInv' /\ AllAccounted' /\ PlanInForce'
  <2>1. RoundTyping'
    BY <1>0 DEF RoundTyping
  <2>2. ControllerInv'
    BY <1>0 DEF ControllerInv
  <2>3. AllAccounted' /\ PlanInForce'
    BY <1>0 DEF AllAccounted, PlanInForce
  <2> QED
    BY <2>1, <2>2, <2>3
<1>2. ASSUME NEW n \in Endpoints
      PROVE  ParticipantInv(n)'
  <2>1. ParticipantInv(n) /\ Ordered(toNode[n])'
    BY DEF ManagerInv, ParticipantInv, Ordered, Precedes
  <2> QED
    BY <2>1, ParticipantFrame
<1> QED
  BY <1>1, <1>2 DEF ManagerInv

(* The edited inputs, a broken and a restored link.                        *)
LEMMA EditInputsSound == ManagerInv /\ EditInputs => ManagerInv'
<1> SUFFICES ASSUME ManagerInv, EditInputs PROVE ManagerInv'
  OBVIOUS
<1> USE DEF EditInputs
<1>0. RoundTyping /\ ControllerInv /\ AllAccounted /\ PlanInForce
  BY DEF ManagerInv
<1>1. RoundTyping' /\ ControllerInv' /\ AllAccounted' /\ PlanInForce'
  <2>1. RoundTyping'
    BY <1>0 DEF RoundTyping
  <2>2. ControllerInv'
    BY <1>0 DEF ControllerInv
  <2>3. AllAccounted' /\ PlanInForce'
    BY <1>0 DEF AllAccounted, PlanInForce
  <2> QED
    BY <2>1, <2>2, <2>3
<1>2. ASSUME NEW n \in Endpoints
      PROVE  ParticipantInv(n)'
  <2>1. ParticipantInv(n) /\ Ordered(toNode[n])'
    BY DEF ManagerInv, ParticipantInv, Ordered, Precedes
  <2> QED
    BY <2>1, ParticipantFrame
<1> QED
  BY <1>1, <1>2 DEF ManagerInv

(* A link that comes back carries nothing yet.                             *)
LEMMA LinkRestoredSound ==
    ASSUME ManagerInv, NEW n \in Endpoints, LinkRestored(n)
    PROVE  ManagerInv'
<1> USE DEF LinkRestored
<1>0. RoundTyping /\ ControllerInv /\ AllAccounted /\ PlanInForce
  BY DEF ManagerInv
<1>1. RoundTyping' /\ ControllerInv' /\ AllAccounted' /\ PlanInForce'
  <2>1. RoundTyping'
    BY <1>0 DEF RoundTyping
  <2>2. ControllerInv'
    BY <1>0 DEF ControllerInv
  <2>3. AllAccounted' /\ PlanInForce'
    BY <1>0 DEF AllAccounted, PlanInForce
  <2> QED
    BY <2>1, <2>2, <2>3
<1>2. ASSUME NEW m \in Endpoints
      PROVE  ParticipantInv(m)'
  <2>1. ParticipantInv(m) /\ Ordered(toNode[m])'
    BY DEF ManagerInv, ParticipantInv, Ordered, Precedes
  <2> QED
    BY <2>1, ParticipantFrame
<1> QED
  BY <1>1, <1>2 DEF ManagerInv

(* A link that breaks loses what is under way, and may cancel the          *)
(* preparation (handleNodeStateChanged).                                   *)
LEMMA LinkBreaksSound ==
    ASSUME ManagerInv, NEW n \in Endpoints, LinkBreaks(n)
    PROVE  ManagerInv'
<1> DEFINE others == Connected \ {n}
<1>0. /\ RoundTyping /\ ControllerInv /\ AllAccounted /\ PlanInForce
      /\ mgr' = Cancelled(others)
      /\ toNode' = [toNode EXCEPT ![n] = <<>>] /\ toMgr' = [toMgr EXCEPT ![n] = <<>>]
      /\ link' = [link EXCEPT ![n] = FALSE]
      /\ budget.breaks > 0 /\ budget' = [budget EXCEPT !.breaks = @ - 1]
      /\ prepared' = prepared /\ node' = node
  BY DEF LinkBreaks, ManagerInv
<1> HIDE DEF others
<1>1. \/ mgr' = mgr
      \/ mgr' = [mgr EXCEPT !.pend = {}, !.pendPlan = NoPlan, !.rejected = TRUE, !.ready = FALSE,
                            !.planRejected = TRUE, !.planReady = FALSE]
  BY <1>0 DEF Cancelled
<1>2. /\ mgr' \in ControllerType
      /\ mgr'.round = mgr.round /\ mgr'.parts = mgr.parts /\ mgr'.senders = mgr.senders
      /\ mgr'.planned = mgr.planned /\ mgr'.got = mgr.got /\ mgr'.drained = mgr.drained
      /\ mgr'.expected = mgr.expected /\ mgr'.running = mgr.running
      /\ \/ /\ mgr'.pend = mgr.pend /\ mgr'.rejected = mgr.rejected /\ mgr'.ready = mgr.ready
            /\ mgr'.planReady = mgr.planReady /\ mgr'.pendPlan = mgr.pendPlan
         \/ /\ mgr'.pend = {} /\ mgr'.rejected /\ ~mgr'.ready /\ ~mgr'.planReady
            /\ mgr'.pendPlan = NoPlan
  <2>1. mgr \in ControllerType
    BY <1>0 DEF RoundTyping
  <2>2. CASE mgr' = mgr
    BY <2>1, <2>2
  <2>3. CASE mgr' = [mgr EXCEPT !.pend = {}, !.pendPlan = NoPlan, !.rejected = TRUE,
                                !.ready = FALSE, !.planRejected = TRUE, !.planReady = FALSE]
    <3>1. mgr' \in ControllerType
      BY <2>1, <2>3 DEF ControllerType, NoPlan
    <3> QED
      BY <2>1, <2>3, <3>1 DEF ControllerType
  <2> QED
    BY <1>1, <2>2, <2>3
<1>3. RoundTyping'
  <2>1. budget' \in [rounds : Nat, plans : Nat, commands : Nat, breaks : Nat]
    <3>1. budget \in [rounds : Nat, plans : Nat, commands : Nat, breaks : Nat]
      BY <1>0 DEF RoundTyping
    <3>2. budget.breaks \in Nat /\ budget.breaks - 1 \in Nat
      BY <1>0, <3>1
    <3> QED
      BY <1>0, <3>1, <3>2
  <2>2. /\ link' \in [Endpoints -> BOOLEAN]
        /\ toNode' \in [Endpoints -> Seq(ToNodeType)] /\ toMgr' \in [Endpoints -> Seq(ToMgrType)]
    BY <1>0, RangeEmpty DEF RoundTyping
  <2> QED
    BY <1>0, <1>2, <2>1, <2>2 DEF RoundTyping
<1>4. budget'.rounds = budget.rounds /\ budget'.plans = budget.plans
  BY <1>0 DEF RoundTyping
<1>5. ControllerInv'
  BY <1>0, <1>2, <1>4 DEF ControllerInv
<1>6. AllAccounted'
  BY <1>0, <1>2 DEF AllAccounted
<1>7. PlanInForce'
  BY <1>0, <1>2 DEF PlanInForce
<1>8. ASSUME NEW m \in Endpoints
      PROVE  ParticipantInv(m)'
  <2>1. ParticipantInv(m)
    BY DEF ManagerInv
  <2>2. /\ Range(toNode[m])' \subseteq Range(toNode[m]) /\ Ordered(toNode[m])'
        /\ Range(toMgr[m])' \subseteq Range(toMgr[m])
    <3>1. CASE m = n
      <4>1. toNode'[m] = <<>> /\ toMgr'[m] = <<>>
        BY <1>0, <3>1 DEF RoundTyping
      <4> QED
        BY <4>1, RangeEmpty DEF Ordered
    <3>2. CASE m # n
      <4>1. toNode'[m] = toNode[m] /\ toMgr'[m] = toMgr[m]
        BY <1>0, <3>2 DEF RoundTyping
      <4> QED
        BY <2>1, <4>1 DEF ParticipantInv, Ordered, Precedes
    <3> QED
      BY <3>1, <3>2
  <2> QED
    BY <1>0, <1>2, <1>4, <2>1, <2>2, ParticipantFrame
<1> QED
  BY <1>3, <1>5, <1>6, <1>7, <1>8 DEF ManagerInv

(* A participant reports a result: it was owed, and is reported now.       *)
LEMMA NodeReportsSound ==
    ASSUME ManagerInv, NEW n \in Endpoints, NodeReports(n)
    PROVE  ManagerInv'
<1>1. PICK res \in node[n].owes :
          /\ Broadcasts(n, res)
          /\ node' = [node EXCEPT ![n].owes = @ \ {res},
                                  ![n].drain = IF n \in PcNodes THEN @ ELSE res.round]
  BY DEF NodeReports
<1> DEFINE t == IF link[n] THEN Append(toMgr[n], res) ELSE toMgr[n]
           d == IF n \in PcNodes THEN node[n].drain ELSE res.round
           p == [node[n] EXCEPT !.owes = @ \ {res}, !.drain = d]
<1>2. /\ RoundTyping /\ ParticipantInv(n) /\ node[n] \in ParticipantType
      /\ toMgr[n] \in Seq(ToMgrType) /\ toNode[n] \in Seq(ToNodeType)
  BY InvFacts
<1>3. res \in ReportType /\ res.round \in Nat \ {0} /\ res \in ToMgrType /\ res.type = "Result"
  BY <1>2 DEF ParticipantType, ReportType, ToMgrType
<1>4. /\ p \in ParticipantType
      /\ p.owes = node[n].owes \ {res} /\ p.drain = d
      /\ p.held = node[n].held /\ p.plan = node[n].plan /\ p.acked = node[n].acked
  BY <1>2, <1>3 DEF ParticipantType
<1>5. t \in Seq(ToMgrType) /\ Range(t) \subseteq Range(toMgr[n]) \cup {res}
  BY <1>2, <1>3, RangeAppend
<1>6. /\ UNCHANGED <<prepared, mgr, link, budget>>
      /\ toNode' = [toNode EXCEPT ![n] = toNode[n]]
      /\ toMgr' = [toMgr EXCEPT ![n] = t] /\ node' = [node EXCEPT ![n] = p]
  BY <1>1, <1>2 DEF NodeReports, Broadcasts, RoundTyping
<1>7. toNode'[n] = toNode[n] /\ toMgr'[n] = t /\ node'[n] = p
  BY <1>2, <1>6 DEF RoundTyping
<1> HIDE DEF t, p
<1> USE DEF ParticipantInv
<1>8. NumberInv(n)'
  BY <1>2, <1>3, <1>4, <1>5, <1>6, <1>7 DEF NumberInv, Numbered
<1>9. Ordered(toNode[n])'
  BY <1>2, <1>7 DEF Ordered, Precedes
<1>10. HeldInv(n)'
  BY <1>2, <1>3, <1>4, <1>5, <1>6, <1>7 DEF HeldInv
<1>11. PlanInv(n)'
  BY <1>2, <1>3, <1>4, <1>5, <1>6, <1>7 DEF PlanInv
<1>12. StartInv(n)'
  <2>1. Begun(n)' => Begun(n)
    BY <1>3, <1>4, <1>5, <1>6, <1>7 DEF Begun, OfRound
  <2> QED
    BY <1>2, <1>4, <1>6, <1>7, <2>1 DEF StartInv
<1>13. ResultInv(n)'
  <2>1. ASSUME NEW q \in node[n].owes, q # res, q.round = mgr.round
        PROVE  Result(mgr.round, q.key) # res
    BY <1>2, <1>3, <2>1 DEF Result, ReportType, ParticipantType
  <2>2. ASSUME NEW q \in p.owes, q.round = mgr.round
        PROVE  /\ n \in mgr.parts /\ q.key \in ResultsOf(n, mgr.senders)
               /\ q.key \notin mgr.got /\ Result(mgr.round, q.key) \notin Range(t)
    BY <1>2, <1>4, <1>5, <2>1, <2>2 DEF ResultInv, Reported
  <2>3. ASSUME NEW m \in Range(t), m.type = "Result", m.round = mgr.round
        PROVE  n \in mgr.parts /\ m.key \in ResultsOf(n, mgr.senders)
    BY <1>2, <1>5, <2>3 DEF ResultInv
  <2> QED
    BY <1>6, <1>7, <2>2, <2>3 DEF ResultInv, Reported
<1>14. DrainInv(n)'
  <2>1. Drained(mgr.round) # res
    BY <1>3 DEF Drained
  <2>2. mgr.round # NoRound /\ node[n].acked = mgr.round => res.round = mgr.round
    BY <1>1, <1>2 DEF StartInv, Begun
  <2> QED
    BY <1>2, <1>4, <1>5, <1>6, <1>7, <2>1, <2>2 DEF DrainInv
<1>15. ParticipantInv(n)'
  BY <1>8, <1>9, <1>10, <1>11, <1>12, <1>13, <1>14
<1> QED
  BY <1>2, <1>4, <1>5, <1>6, <1>15, ParticipantStep

(* A participant confirms a drain: of the round it has last reported for.  *)
LEMMA NodeDrainsSound ==
    ASSUME ManagerInv, NEW n \in Endpoints, NodeDrains(n)
    PROVE  ManagerInv'
<1> DEFINE d == node[n].drain
           t == IF link[n] THEN Append(toMgr[n], Drained(d)) ELSE toMgr[n]
           p == [node[n] EXCEPT !.drain = NoRound, !.acked = d]
<1>2. /\ RoundTyping /\ ParticipantInv(n) /\ node[n] \in ParticipantType
      /\ toMgr[n] \in Seq(ToMgrType) /\ toNode[n] \in Seq(ToNodeType)
  BY InvFacts
<1>3. d \in Nat \ {0} /\ Drained(d) \in ToMgrType
  BY <1>2 DEF NodeDrains, NoRound, ParticipantType, ToMgrType, Drained
<1>4. /\ p \in ParticipantType
      /\ p.owes = node[n].owes /\ p.drain = NoRound /\ p.acked = d
      /\ p.held = node[n].held /\ p.plan = node[n].plan
  BY <1>2, <1>3 DEF ParticipantType, NoRound
<1>5. t \in Seq(ToMgrType) /\ Range(t) \subseteq Range(toMgr[n]) \cup {Drained(d)}
  BY <1>2, <1>3, RangeAppend
<1>6. /\ UNCHANGED <<prepared, mgr, link, budget>>
      /\ toNode' = [toNode EXCEPT ![n] = toNode[n]]
      /\ toMgr' = [toMgr EXCEPT ![n] = t] /\ node' = [node EXCEPT ![n] = p]
  BY <1>2 DEF NodeDrains, Broadcasts, RoundTyping
<1>7. toNode'[n] = toNode[n] /\ toMgr'[n] = t /\ node'[n] = p
  BY <1>2, <1>6 DEF RoundTyping
<1> HIDE DEF t, p
<1> USE DEF ParticipantInv
<1>8. NumberInv(n)'
  BY <1>2, <1>3, <1>4, <1>5, <1>6, <1>7 DEF NumberInv, Numbered, Drained, NoRound
<1>9. Ordered(toNode[n])'
  BY <1>2, <1>7 DEF Ordered, Precedes
<1>10. HeldInv(n)'
  BY <1>2, <1>4, <1>5, <1>6, <1>7 DEF HeldInv, Drained
<1>11. PlanInv(n)'
  BY <1>2, <1>4, <1>5, <1>6, <1>7 DEF PlanInv, Drained
<1>12. StartInv(n)'
  <2>1. mgr.round # NoRound /\ Begun(n)' => Begun(n)
    BY <1>4, <1>5, <1>6, <1>7 DEF Begun, OfRound, Drained
  <2> QED
    BY <1>2, <1>4, <1>6, <1>7, <2>1 DEF StartInv
<1>13. ResultInv(n)'
  <2>1. \A k : Result(mgr.round, k) # Drained(d)
    BY DEF Result, Drained
  <2> QED
    BY <1>2, <1>4, <1>5, <1>6, <1>7, <2>1 DEF ResultInv, Reported, Drained
<1>14. DrainInv(n)'
  <2>1. Drained(mgr.round) = Drained(d) => mgr.round = d
    BY DEF Drained
  <2> QED
    BY <1>2, <1>3, <1>4, <1>5, <1>6, <1>7, <2>1 DEF DrainInv, NoRound
<1>15. ParticipantInv(n)'
  BY <1>8, <1>9, <1>10, <1>11, <1>12, <1>13, <1>14
<1> QED
  BY <1>2, <1>4, <1>5, <1>6, <1>15, ParticipantStep

-----------------------------------------------------------------------------
(* What a participant finds at the head of its link.                       *)
LEMMA TakenFacts ==
    ASSUME ManagerInv, NEW n \in Endpoints, toNode[n] # <<>>
    PROVE  /\ Head(toNode[n]) \in ToNodeType /\ Head(toNode[n]) \in Range(toNode[n])
           /\ Tail(toNode[n]) \in Seq(ToNodeType)
           /\ Range(Tail(toNode[n])) \subseteq Range(toNode[n]) /\ Ordered(Tail(toNode[n]))
           /\ Range(toNode[n]) \subseteq ToNodeType
           /\ \A m \in Range(Tail(toNode[n])) : Precedes(Head(toNode[n]), m)
BY InvFacts, RangeTail, OrderedTail DEF ParticipantInv

(* A request is answered; held stays what was held of its preparation.     *)
LEMMA NodeAnswersSound ==
    ASSUME ManagerInv, NEW n \in Endpoints, toNode[n] # <<>>,
           toNode' = [toNode EXCEPT ![n] = Tail(@)],
           UNCHANGED <<prepared, mgr, link, budget>>,
           Head(toNode[n]).type = "Ask", NodeAnswers(n, Head(toNode[n]))
    PROVE  ManagerInv'
<1> DEFINE m == Head(toNode[n])
           s == Tail(toNode[n])
<1>1. PICK ok \in BOOLEAN :
        /\ Reply(n, Answer(m.req, ok))
        /\ node' = IF ok THEN [node EXCEPT ![n].held = HeldWith(n, m.req)] ELSE node
  BY DEF NodeAnswers
<1> DEFINE a == Answer(m.req, ok)
           t == Append(toMgr[n], a)
           p == IF ok THEN [node[n] EXCEPT !.held = HeldWith(n, m.req)] ELSE node[n]
<1>2. /\ RoundTyping /\ ControllerInv /\ ParticipantInv(n) /\ node[n] \in ParticipantType
      /\ toMgr[n] \in Seq(ToMgrType) /\ toNode[n] \in Seq(ToNodeType)
  BY InvFacts
<1>3. /\ m \in ToNodeType /\ m \in Range(toNode[n]) /\ m.type = "Ask"
      /\ s \in Seq(ToNodeType) /\ Range(s) \subseteq Range(toNode[n]) /\ Ordered(s)
      /\ \A x \in Range(s) : Precedes(m, x)
  BY TakenFacts
<1>4. m.req \in RequestType /\ m.req.round \in Nat \ {0} /\ a \in ToMgrType
  BY <1>3 DEF ToNodeType, ToMgrType, RequestType, Answer
<1> HIDE DEF m, s
<1>5. /\ p \in ParticipantType
      /\ p.owes = node[n].owes /\ p.drain = node[n].drain /\ p.acked = node[n].acked
      /\ p.plan = node[n].plan
      /\ p.held = IF ok THEN HeldWith(n, m.req) ELSE node[n].held
  BY <1>2, <1>4 DEF ParticipantType, HeldWith
<1>6. t \in Seq(ToMgrType) /\ Range(t) = Range(toMgr[n]) \cup {a}
  BY <1>2, <1>4, RangeAppend
<1>7. /\ toNode' = [toNode EXCEPT ![n] = s]
      /\ toMgr' = [toMgr EXCEPT ![n] = t] /\ node' = [node EXCEPT ![n] = p]
  BY <1>1, <1>2 DEF Reply, RoundTyping, s
<1>8. toNode'[n] = s /\ toMgr'[n] = t /\ node'[n] = p
  BY <1>2, <1>7 DEF RoundTyping
<1>9. /\ m.req.round > budget.rounds /\ m.req.node = n
      /\ \A q \in node[n].held : q.round >= m.req.round
  BY <1>2, <1>3 DEF ParticipantInv, NumberInv, Numbered, HeldInv
<1>10. \A q \in node[n].held : q.round = mgr.round => q \in p.held
  <2> SUFFICES ASSUME NEW q \in node[n].held, q.round = mgr.round PROVE q \in p.held
    OBVIOUS
  <2>1. q.round \in Nat \ {0} /\ budget.rounds \in Nat /\ q.round >= m.req.round
    BY <1>2, <1>9 DEF ParticipantType, RequestType, RoundTyping
  <2>2. q.round = budget.rounds + 1
    BY <1>2, <2>1 DEF ControllerInv, NoRound
  <2>3. q.round = m.req.round
    BY <1>4, <1>9, <2>1, <2>2
  <2> QED
    BY <1>5, <2>3 DEF HeldWith
<1> HIDE DEF t, p
<1> USE DEF ParticipantInv
<1>11. NumberInv(n)'
  <2>1. \A q \in p.held : q.round > budget.rounds
    BY <1>2, <1>5, <1>9 DEF NumberInv, HeldWith
  <2>2. Numbered(a)
    BY <1>9 DEF Numbered, Answer
  <2>3. \A x : Numbered(x)' <=> Numbered(x)
    BY DEF Numbered
  <2> QED
    BY <1>2, <1>3, <1>5, <1>6, <1>8, <2>1, <2>2, <2>3 DEF NumberInv
<1>12. Ordered(toNode[n])'
  BY <1>3, <1>8 DEF Ordered, Precedes
<1>13. HeldInv(n)'
  <2>1. ASSUME NEW x \in Range(s), x.type = "Ask", NEW q \in p.held
        PROVE  x.req.node = n /\ q.round >= x.req.round
    <3>1. x.req.node = n /\ \A h \in node[n].held : h.round >= x.req.round
      BY <1>2, <1>3, <2>1 DEF HeldInv
    <3>2. m.req.round >= x.req.round
      BY <1>3, <2>1 DEF Precedes
    <3> QED
      BY <1>5, <2>1, <3>1, <3>2 DEF HeldWith
  <2>2. ASSUME NEW x \in Range(s), x.type = "Ask"
        PROVE  x.req.node = n
    BY <1>2, <1>3, <2>2 DEF HeldInv
  <2>3. ASSUME NEW x \in Range(t), x.type = "Answer", x.ok, x.req.round = mgr.round
        PROVE  x.req.node = n /\ x.req \in p.held
    <3>1. CASE x \in Range(toMgr[n])
      BY <1>2, <1>10, <2>3, <3>1 DEF HeldInv
    <3>2. CASE x = a
      BY <1>5, <1>9, <2>3, <3>2 DEF Answer, HeldWith
    <3> QED
      BY <1>6, <2>3, <3>1, <3>2
  <2> QED
    BY <1>8, <2>1, <2>2, <2>3 DEF HeldInv
<1>14. PlanInv(n)'
  <2>1. a.type = "Answer"
    BY DEF Answer
  <2>2. \A x \in Range(t) : x.type = "PlanAnswer" => x \in Range(toMgr[n])
    BY <1>6, <2>1
  <2> QED
    BY <1>2, <1>3, <1>5, <1>8, <2>2 DEF PlanInv
<1>15. StartInv(n)'
  <2>1. Begun(n)' => Begun(n)
    BY <1>5, <1>6, <1>8 DEF Begun, OfRound, Answer
  <2> QED
    BY <1>2, <1>3, <1>5, <1>8, <2>1 DEF StartInv
<1>16. ResultInv(n)'
  <2>1. \A k : Result(mgr.round, k) # a
    BY DEF Result, Answer
  <2>2. a.type = "Answer"
    BY DEF Answer
  <2> QED
    BY <1>2, <1>5, <1>6, <1>8, <2>1, <2>2 DEF ResultInv, Reported
<1>17. DrainInv(n)'
  <2>1. Drained(mgr.round) # a
    BY DEF Drained, Answer
  <2> QED
    BY <1>2, <1>5, <1>6, <1>8, <2>1 DEF DrainInv
<1>18. ParticipantInv(n)'
  BY <1>11, <1>12, <1>13, <1>14, <1>15, <1>16, <1>17
<1> QED
  BY <1>3, <1>5, <1>6, <1>7, <1>10, <1>18, ParticipantStep

(* A fault plan is answered; one that is taken replaces an older one.      *)
LEMMA NodeTakesPlanSound ==
    ASSUME ManagerInv, NEW n \in Endpoints, toNode[n] # <<>>,
           toNode' = [toNode EXCEPT ![n] = Tail(@)],
           UNCHANGED <<prepared, mgr, link, budget>>,
           Head(toNode[n]).type = "Plan", NodeTakesPlan(n, Head(toNode[n]))
    PROVE  ManagerInv'
<1> DEFINE m == Head(toNode[n])
           s == Tail(toNode[n])
<1>1. PICK ok \in BOOLEAN :
        /\ Reply(n, PlanAnswer(m.plan, ok))
        /\ node' = [node EXCEPT ![n].plan = IF ok THEN m.plan ELSE @]
  BY DEF NodeTakesPlan
<1> DEFINE a == PlanAnswer(m.plan, ok)
           t == Append(toMgr[n], a)
           p == [node[n] EXCEPT !.plan = IF ok THEN m.plan ELSE @]
<1>2. /\ RoundTyping /\ ControllerInv /\ ParticipantInv(n) /\ node[n] \in ParticipantType
      /\ toMgr[n] \in Seq(ToMgrType) /\ toNode[n] \in Seq(ToNodeType)
  BY InvFacts
<1>3. /\ m \in ToNodeType /\ m \in Range(toNode[n]) /\ m.type = "Plan"
      /\ s \in Seq(ToNodeType) /\ Range(s) \subseteq Range(toNode[n]) /\ Ordered(s)
      /\ \A x \in Range(s) : Precedes(m, x)
  BY TakenFacts
<1>4. m.plan \in Nat \ {0} /\ a \in ToMgrType /\ a.type = "PlanAnswer" /\ a.plan = m.plan
      /\ a.ok = ok
  BY <1>3 DEF ToNodeType, ToMgrType, PlanAnswer
<1> HIDE DEF m, s
<1>5. /\ p \in ParticipantType
      /\ p.owes = node[n].owes /\ p.drain = node[n].drain /\ p.acked = node[n].acked
      /\ p.held = node[n].held /\ p.plan = IF ok THEN m.plan ELSE node[n].plan
  BY <1>2, <1>4 DEF ParticipantType
<1>6. t \in Seq(ToMgrType) /\ Range(t) = Range(toMgr[n]) \cup {a}
  BY <1>2, <1>4, RangeAppend
<1>7. /\ toNode' = [toNode EXCEPT ![n] = s]
      /\ toMgr' = [toMgr EXCEPT ![n] = t] /\ node' = [node EXCEPT ![n] = p]
  BY <1>1, <1>2 DEF Reply, RoundTyping, s
<1>8. toNode'[n] = s /\ toMgr'[n] = t /\ node'[n] = p
  BY <1>2, <1>7 DEF RoundTyping
<1>9. /\ m.plan > budget.plans
      /\ m.plan = mgr.planned => n \in mgr.senders
      /\ node[n].plan # NoPlan => m.plan < node[n].plan
  BY <1>2, <1>3 DEF ParticipantInv, NumberInv, Numbered, PlanInv
<1>10. node[n].plan = mgr.planned /\ mgr.planned # NoPlan => p.plan = mgr.planned
  <2> SUFFICES ASSUME node[n].plan = mgr.planned, mgr.planned # NoPlan
               PROVE  FALSE
    BY <1>5
  <2>1. budget.plans \in Nat /\ mgr.planned = budget.plans + 1 /\ m.plan < mgr.planned
    BY <1>2, <1>9 DEF RoundTyping, ControllerInv
  <2> QED
    BY <1>4, <1>9, <2>1
<1> HIDE DEF t, p, a
<1> USE DEF ParticipantInv
<1>11. NumberInv(n)'
  <2>1. Numbered(a)
    BY <1>4, <1>9 DEF Numbered
  <2>2. \A x : Numbered(x)' <=> Numbered(x)
    BY DEF Numbered
  <2> QED
    BY <1>2, <1>3, <1>5, <1>6, <1>8, <1>9, <2>1, <2>2 DEF NumberInv
<1>12. Ordered(toNode[n])'
  BY <1>3, <1>8 DEF Ordered, Precedes
<1>13. HeldInv(n)'
  BY <1>2, <1>3, <1>4, <1>5, <1>6, <1>8 DEF HeldInv
<1>14. PlanInv(n)'
  <2>1. ASSUME NEW x \in Range(s), x.type = "Plan"
        PROVE  /\ p.plan # NoPlan => x.plan < p.plan
               /\ x.plan = mgr.planned => n \in mgr.senders
    BY <1>2, <1>3, <1>5, <2>1 DEF PlanInv, Precedes
  <2>2. ASSUME NEW x \in Range(t), x.type = "PlanAnswer", x.ok, x.plan = mgr.planned
        PROVE  n \in mgr.senders /\ p.plan = mgr.planned
    <3>1. CASE x \in Range(toMgr[n])
      <4>1. n \in mgr.senders /\ node[n].plan = mgr.planned
        BY <1>2, <2>2, <3>1 DEF PlanInv
      <4>2. x.plan \in Nat \ {0}
        BY <1>2, <2>2, <3>1, InvFacts DEF ToMgrType, ReportType
      <4> QED
        BY <1>10, <2>2, <4>1, <4>2 DEF NoPlan
    <3>2. CASE x = a
      BY <1>4, <1>5, <1>9, <2>2, <3>2
    <3> QED
      BY <1>6, <2>2, <3>1, <3>2
  <2> QED
    BY <1>8, <2>1, <2>2 DEF PlanInv
<1>15. StartInv(n)'
  <2>1. Begun(n)' => Begun(n)
    BY <1>4, <1>5, <1>6, <1>8 DEF Begun, OfRound
  <2> QED
    BY <1>2, <1>3, <1>5, <1>8, <2>1 DEF StartInv
<1>16. ResultInv(n)'
  <2>1. \A k : Result(mgr.round, k) # a
    BY <1>4 DEF Result
  <2> QED
    BY <1>2, <1>4, <1>5, <1>6, <1>8, <2>1 DEF ResultInv, Reported
<1>17. DrainInv(n)'
  <2>1. Drained(mgr.round) # a
    BY <1>4 DEF Drained
  <2> QED
    BY <1>2, <1>5, <1>6, <1>8, <2>1 DEF DrainInv
<1>18. ParticipantInv(n)'
  BY <1>11, <1>12, <1>13, <1>14, <1>15, <1>16, <1>17
<1> QED
  BY <1>3, <1>5, <1>6, <1>7, <1>10, <1>18, ParticipantStep

(* A start is accepted: only now is there anything of its round here, and  *)
(* no other start of that round is under way.                              *)
LEMMA NodeStartsSound ==
    ASSUME ManagerInv, NEW n \in Endpoints, toNode[n] # <<>>,
           toNode' = [toNode EXCEPT ![n] = Tail(@)],
           UNCHANGED <<prepared, mgr, link, budget>>,
           Head(toNode[n]).type = "Start", NodeStarts(n, Head(toNode[n]))
    PROVE  ManagerInv'
<1> DEFINE m == Head(toNode[n])
           s == Tail(toNode[n])
           t == toMgr[n]
           owed == {Result(m.round, k) : k \in ResultsOf(n, m.senders)}
<1>1. PICK ok \in BOOLEAN :
        node' = IF ok
                   THEN [node EXCEPT ![n].paused = FALSE, ![n].acked = NoRound, ![n].owes = owed]
                   ELSE [node EXCEPT ![n].refused = TRUE]
  BY DEF NodeStarts
<1> DEFINE p == IF ok THEN [node[n] EXCEPT !.paused = FALSE, !.acked = NoRound, !.owes = owed]
                ELSE [node[n] EXCEPT !.refused = TRUE]
<1>2. /\ RoundTyping /\ ControllerInv /\ ParticipantInv(n) /\ node[n] \in ParticipantType
      /\ toMgr[n] \in Seq(ToMgrType) /\ toNode[n] \in Seq(ToNodeType)
  BY InvFacts
<1>3. /\ m \in ToNodeType /\ m \in Range(toNode[n]) /\ m.type = "Start"
      /\ s \in Seq(ToNodeType) /\ Range(s) \subseteq Range(toNode[n]) /\ Ordered(s)
      /\ Range(s) \subseteq ToNodeType
      /\ \A x \in Range(s) : Precedes(m, x)
  BY TakenFacts
<1>4. m.round \in Nat \ {0} /\ m.senders \in SUBSET Endpoints
  BY <1>3 DEF ToNodeType
<1> HIDE DEF m, s
<1>5. owed \subseteq ReportType
      /\ \A q \in owed : q.round = m.round /\ q.type = "Result" /\ q.key \in ResultsOf(n, m.senders)
  <2> SUFFICES ASSUME NEW k \in ResultsOf(n, m.senders)
               PROVE  /\ Result(m.round, k) \in ReportType
                      /\ Result(m.round, k).round = m.round /\ Result(m.round, k).type = "Result"
                      /\ Result(m.round, k).key = k
    OBVIOUS
  <2>1. k \in KeyType
    BY <1>4, KeyTypes
  <2> QED
    BY <1>4, <2>1 DEF Result, ReportType
<1> HIDE DEF owed
<1>6. /\ p \in ParticipantType
      /\ p.owes = (IF ok THEN owed ELSE node[n].owes)
      /\ p.acked = (IF ok THEN NoRound ELSE node[n].acked)
      /\ p.held = node[n].held /\ p.plan = node[n].plan /\ p.drain = node[n].drain
  BY <1>2, <1>5 DEF ParticipantType, NoRound
<1>7. /\ toNode' = [toNode EXCEPT ![n] = s]
      /\ toMgr' = [toMgr EXCEPT ![n] = t] /\ node' = [node EXCEPT ![n] = p]
  BY <1>1, <1>2 DEF NodeStarts, RoundTyping, s
<1>8. toNode'[n] = s /\ toMgr'[n] = t /\ node'[n] = p
  BY <1>2, <1>7 DEF RoundTyping
<1>9. /\ m.round > budget.rounds
      /\ mgr.round # NoRound => ~Begun(n)
      /\ m.round = mgr.round => ~prepared /\ n \in mgr.parts /\ m.senders = mgr.senders
  BY <1>2, <1>3 DEF ParticipantInv, NumberInv, Numbered, StartInv
<1>10. m.round = mgr.round => \A x \in Range(s) : x.type # "Start"
  <2> SUFFICES ASSUME m.round = mgr.round, NEW x \in Range(s), x.type = "Start"
               PROVE  FALSE
    OBVIOUS
  <2>1. x.round < m.round /\ x.round > budget.rounds
    BY <1>2, <1>3 DEF Precedes, ParticipantInv, NumberInv, Numbered
  <2>2. x.round \in Nat /\ budget.rounds \in Nat /\ m.round = budget.rounds + 1
    BY <1>2, <1>3, <1>4 DEF RoundTyping, ControllerInv, NoRound, ToNodeType
  <2> QED
    BY <2>1, <2>2
<1> HIDE DEF p
<1> USE DEF ParticipantInv
<1>11. NumberInv(n)'
  <2>1. \A q \in owed : Numbered(q)
    BY <1>5, <1>9 DEF Numbered
  <2>2. \A x : Numbered(x)' <=> Numbered(x)
    BY DEF Numbered
  <2> QED
    BY <1>2, <1>3, <1>6, <1>8, <2>1, <2>2 DEF NumberInv
<1>12. Ordered(toNode[n])'
  BY <1>3, <1>8 DEF Ordered, Precedes
<1>13. HeldInv(n)'
  BY <1>2, <1>3, <1>6, <1>8 DEF HeldInv
<1>14. PlanInv(n)'
  BY <1>2, <1>3, <1>6, <1>8 DEF PlanInv
<1>15. StartInv(n)'
  <2>1. \A x \in Range(s) : x.type = "Start" /\ x.round = mgr.round =>
            ~prepared /\ n \in mgr.parts /\ x.senders = mgr.senders
    BY <1>2, <1>3 DEF StartInv
  <2>2. ASSUME mgr.round # NoRound, Begun(n)'
        PROVE  m.round = mgr.round /\ ok
    BY <1>5, <1>6, <1>8, <1>9, <2>2 DEF Begun, OfRound
  <2> QED
    BY <1>5, <1>6, <1>8, <1>9, <1>10, <2>1, <2>2 DEF StartInv
<1>16. ResultInv(n)'
  <2>1. CASE ~ok
    BY <1>2, <1>6, <1>8, <2>1 DEF ResultInv, Reported
  <2>2. CASE ok
    <3>1. ASSUME NEW q \in owed, q.round = mgr.round
          PROVE  n \in mgr.parts /\ q.key \in ResultsOf(n, mgr.senders) /\ ~Reported(n, q.key)
      <4>1. m.round = mgr.round /\ mgr.round # NoRound
        BY <1>4, <1>5, <3>1 DEF NoRound
      <4>2. q.key[1] = n
        BY <1>4, <1>5, <3>1, KeyTypes
      <4>3. Result(mgr.round, q.key).type = "Result" /\ Result(mgr.round, q.key).round = mgr.round
        BY DEF Result
      <4> QED
        BY <1>5, <1>9, <3>1, <4>1, <4>2, <4>3 DEF Begun, OfRound, Reported
    <3> QED
      BY <1>2, <1>6, <1>8, <2>2, <3>1 DEF ResultInv, Reported
  <2> QED
    BY <2>1, <2>2
<1>17. DrainInv(n)'
  <2>1. Drained(mgr.round).type = "Drained" /\ Drained(mgr.round).round = mgr.round
    BY DEF Drained
  <2> QED
    BY <1>2, <1>6, <1>8, <1>9, <2>1 DEF DrainInv, Begun, OfRound
<1>18. ParticipantInv(n)'
  BY <1>11, <1>12, <1>13, <1>14, <1>15, <1>16, <1>17
<1> QED
  BY <1>2, <1>3, <1>6, <1>7, <1>18, ParticipantStep

(* A pause, resume or stop changes nothing the Manager counts on.          *)
LEMMA NodePausesSound ==
    ASSUME ManagerInv, NEW n \in Endpoints, toNode[n] # <<>>,
           toNode' = [toNode EXCEPT ![n] = Tail(@)],
           UNCHANGED <<prepared, mgr, link, budget, toMgr>>,
           NEW paused \in BOOLEAN, node' = [node EXCEPT ![n].paused = paused]
    PROVE  ManagerInv'
<1> DEFINE s == Tail(toNode[n])
           p == [node[n] EXCEPT !.paused = paused]
<1>1. /\ RoundTyping /\ ParticipantInv(n) /\ node[n] \in ParticipantType
      /\ toMgr[n] \in Seq(ToMgrType) /\ toNode[n] \in Seq(ToNodeType)
  BY InvFacts
<1>2. /\ s \in Seq(ToNodeType) /\ Range(s) \subseteq Range(toNode[n]) /\ Ordered(s)
  BY TakenFacts
<1>3. /\ p \in ParticipantType
      /\ p.owes = node[n].owes /\ p.acked = node[n].acked
      /\ p.held = node[n].held /\ p.plan = node[n].plan /\ p.drain = node[n].drain
  BY <1>1 DEF ParticipantType
<1> HIDE DEF s
<1>4. /\ toNode' = [toNode EXCEPT ![n] = s]
      /\ toMgr' = [toMgr EXCEPT ![n] = toMgr[n]] /\ node' = [node EXCEPT ![n] = p]
  BY <1>1 DEF RoundTyping, s
<1>5. toNode'[n] = s /\ toMgr'[n] = toMgr[n] /\ node'[n] = p
  BY <1>1, <1>4 DEF RoundTyping
<1> HIDE DEF p
<1> USE DEF ParticipantInv
<1>6. NumberInv(n)'
  BY <1>1, <1>2, <1>3, <1>5 DEF NumberInv, Numbered
<1>7. Ordered(toNode[n])'
  BY <1>2, <1>5 DEF Ordered, Precedes
<1>8. HeldInv(n)' /\ PlanInv(n)'
  BY <1>1, <1>2, <1>3, <1>5 DEF HeldInv, PlanInv
<1>9. StartInv(n)'
  BY <1>1, <1>2, <1>3, <1>5 DEF StartInv, Begun, OfRound
<1>10. ResultInv(n)' /\ DrainInv(n)'
  BY <1>1, <1>2, <1>3, <1>5 DEF ResultInv, DrainInv, Reported
<1>11. ParticipantInv(n)'
  BY <1>6, <1>7, <1>8, <1>9, <1>10
<1> QED
  BY <1>1, <1>2, <1>3, <1>4, <1>11, ParticipantStep

(* A participant reads the next message.                                   *)
LEMMA NodeReceivesSound ==
    ASSUME ManagerInv, NEW n \in Endpoints, NodeReceives(n)
    PROVE  ManagerInv'
<1> DEFINE m == Head(toNode[n])
<1>1. /\ toNode[n] # <<>> /\ toNode' = [toNode EXCEPT ![n] = Tail(@)]
      /\ UNCHANGED <<prepared, mgr, link, budget>>
  BY DEF NodeReceives
<1>2. CASE m.type = "Ask" /\ NodeAnswers(n, m)
  BY <1>1, <1>2, NodeAnswersSound
<1>3. CASE m.type = "Plan" /\ NodeTakesPlan(n, m)
  BY <1>1, <1>3, NodeTakesPlanSound
<1>4. CASE m.type = "Start" /\ NodeStarts(n, m)
  BY <1>1, <1>4, NodeStartsSound
<1>5. CASE m.type \in {"Pause", "Resume"} /\ NodePauses(n, m)
  <2>1. PICK ok \in BOOLEAN : node' = [node EXCEPT ![n].paused = IF ok THEN m.type = "Pause" ELSE @]
    BY <1>5 DEF NodePauses
  <2>2. UNCHANGED toMgr
    BY <1>5 DEF NodePauses
  <2>3. CASE ok
    <3>1. node' = [node EXCEPT ![n].paused = (m.type = "Pause")]
      BY <2>1, <2>3
    <3>2. (m.type = "Pause") \in BOOLEAN
      OBVIOUS
    <3> QED
      BY <1>1, <2>2, <3>1, <3>2, NodePausesSound
  <2>4. CASE ~ok
    <3>1. node' = [node EXCEPT ![n].paused = node[n].paused] /\ node[n].paused \in BOOLEAN
      BY <2>1, <2>4, InvFacts DEF ParticipantType
    <3> QED
      BY <1>1, <2>2, <3>1, NodePausesSound
  <2> QED
    BY <2>3, <2>4
<1>6. CASE m.type = "Stop" /\ NodeStops(n, m)
  BY <1>1, <1>6, NodePausesSound DEF NodeStops
<1> QED
  BY <1>2, <1>3, <1>4, <1>5, <1>6 DEF NodeReceives

-----------------------------------------------------------------------------
(* A step of the Manager that touches no participant and puts no message   *)
(* on a link.                                                              *)
LEMMA ManagerReadsAnswer ==
    ASSUME ManagerInv, NEW n \in Endpoints, toMgr[n] # <<>>,
           toMgr' = [toMgr EXCEPT ![n] = Tail(@)],
           UNCHANGED <<prepared, link, toNode, node, budget>>,
           mgr' \in ControllerType,
           mgr'.round = mgr.round, mgr'.parts = mgr.parts, mgr'.senders = mgr.senders,
           mgr'.planned = mgr.planned, mgr'.got = mgr.got, mgr'.drained = mgr.drained,
           ControllerInv', AllAccounted', PlanInForce'
    PROVE  ManagerInv'
<1>1. RoundTyping /\ RoundTyping'
  <2>1. RoundTyping
    BY DEF ManagerInv
  <2>2. Tail(toMgr[n]) \in Seq(ToMgrType)
    BY InvFacts, RangeTail
  <2> QED
    BY <2>1, <2>2 DEF RoundTyping
<1>2. ASSUME NEW m \in Endpoints
      PROVE  ParticipantInv(m)'
  <2>1. ParticipantInv(m) /\ Ordered(toNode[m])'
    BY DEF ManagerInv, ParticipantInv, Ordered, Precedes
  <2>2. Range(toMgr[m])' \subseteq Range(toMgr[m])
    <3>1. CASE m = n
      <4>1. toMgr'[m] = Tail(toMgr[n])
        BY <1>1, <3>1 DEF RoundTyping
      <4> QED
        BY <3>1, <4>1, InvFacts, RangeTail
    <3>2. CASE m # n
      BY <1>1, <3>2 DEF RoundTyping
    <3> QED
      BY <3>1, <3>2
  <2> QED
    BY <2>1, <2>2, ParticipantFrame
<1> QED
  BY <1>1, <1>2 DEF ManagerInv

(* An answer to a request: if it consents, the participant holds it.       *)
LEMMA OnAnswerSound ==
    ASSUME ManagerInv, NEW n \in Endpoints, toMgr[n] # <<>>,
           toMgr' = [toMgr EXCEPT ![n] = Tail(@)],
           UNCHANGED <<prepared, link, toNode, node, budget>>,
           Head(toMgr[n]).type = "Answer", mgr' = OnAnswer(Head(toMgr[n]))
    PROVE  ManagerInv'
<1> DEFINE m == Head(toMgr[n])
           left == mgr.pend \ {m.req}
<1>1. /\ RoundTyping /\ ControllerInv /\ AllAccounted /\ PlanInForce /\ ParticipantInv(n)
      /\ mgr \in ControllerType
  BY InvFacts DEF RoundTyping
<1>2. m \in ToMgrType /\ m \in Range(toMgr[n]) /\ m.type = "Answer"
  BY InvFacts, RangeTail
<1>3. m.ok \in BOOLEAN /\ m.req.round \in Nat \ {0}
  BY <1>2 DEF ToMgrType, ReportType, RequestType
<1> HIDE DEF m
<1>4. \/ mgr' = mgr
      \/ /\ m.req \in mgr.pend
         /\ \/ ~m.ok /\ mgr' = [mgr EXCEPT !.pend = left, !.rejected = TRUE]
            \/ /\ m.ok
               /\ mgr' = [mgr EXCEPT !.pend = left,
                                     !.ready = @ \/ (left = {} /\ ~mgr.rejected)]
  BY <1>3 DEF OnAnswer, m
<1>5. CASE mgr' = mgr
  <2>1. ControllerInv' /\ AllAccounted' /\ PlanInForce'
    BY <1>1, <1>5 DEF ControllerInv, AllAccounted, PlanInForce
  <2> QED
    BY <1>1, <1>5, <2>1, ManagerReadsAnswer
<1>6. CASE /\ m.req \in mgr.pend /\ ~m.ok
           /\ mgr' = [mgr EXCEPT !.pend = left, !.rejected = TRUE]
  <2>1. /\ mgr' \in ControllerType /\ mgr'.rejected /\ mgr'.pend = left
        /\ mgr'.round = mgr.round /\ mgr'.parts = mgr.parts /\ mgr'.senders = mgr.senders
        /\ mgr'.planned = mgr.planned /\ mgr'.got = mgr.got /\ mgr'.drained = mgr.drained
        /\ mgr'.ready = mgr.ready /\ mgr'.planReady = mgr.planReady
        /\ mgr'.pendPlan = mgr.pendPlan /\ mgr'.expected = mgr.expected
        /\ mgr'.running = mgr.running
    <3>1. mgr' \in ControllerType
      BY <1>1, <1>6 DEF ControllerType
    <3> QED
      BY <1>1, <1>6, <3>1 DEF ControllerType
  <2>2. ControllerInv' /\ AllAccounted' /\ PlanInForce'
    BY <1>1, <1>6, <2>1 DEF ControllerInv, AllAccounted, PlanInForce
  <2> QED
    BY <2>1, <2>2, ManagerReadsAnswer
<1>7. CASE /\ m.req \in mgr.pend /\ m.ok
           /\ mgr' = [mgr EXCEPT !.pend = left, !.ready = @ \/ (left = {} /\ ~mgr.rejected)]
  <2>1. /\ mgr' \in ControllerType /\ mgr'.pend = left
        /\ mgr'.ready => mgr.ready \/ (left = {} /\ ~mgr.rejected)
        /\ mgr'.round = mgr.round /\ mgr'.parts = mgr.parts /\ mgr'.senders = mgr.senders
        /\ mgr'.planned = mgr.planned /\ mgr'.got = mgr.got /\ mgr'.drained = mgr.drained
        /\ mgr'.rejected = mgr.rejected /\ mgr'.planReady = mgr.planReady
        /\ mgr'.pendPlan = mgr.pendPlan /\ mgr'.expected = mgr.expected
        /\ mgr'.running = mgr.running
    <3>1. mgr' \in ControllerType
      BY <1>1, <1>7 DEF ControllerType
    <3> QED
      BY <1>1, <1>7, <3>1 DEF ControllerType
  <2>2. m.req \in Requests(mgr.round, mgr.parts, mgr.senders)
    BY <1>1, <1>7 DEF ControllerInv
  <2>3. m.req.round = mgr.round
    BY <2>2 DEF Requests, SenderRequests, ReceiverRequests, MappingRequests
  <2>4. m.req.node = n /\ m.req \in node[n].held
    BY <1>1, <1>2, <1>7, <2>3 DEF ParticipantInv, HeldInv
  <2>5. n \in mgr.parts
    <3>1. mgr.round # NoRound
      BY <1>3, <2>3 DEF NoRound
    <3> QED
      BY <1>1, <2>2, <2>4, <3>1 DEF ControllerInv, Requests, SenderRequests,
         ReceiverRequests, MappingRequests
  <2>6. ControllerInv'
    BY <1>1, <1>3, <1>7, <2>1, <2>3 DEF ControllerInv, NoRound
  <2>7. AllAccounted'
    BY <1>1, <2>1, <2>4, <2>5 DEF AllAccounted
  <2>8. PlanInForce'
    BY <1>1, <2>1 DEF PlanInForce
  <2> QED
    BY <2>1, <2>6, <2>7, <2>8, ManagerReadsAnswer
<1> QED
  BY <1>4, <1>5, <1>6, <1>7

(* The controller after an answer to the fault plan.                       *)
LEMMA PlanAnswerTypes ==
    ASSUME NEW c \in ControllerType
    PROVE  /\ [c EXCEPT !.pendPlan = NoPlan, !.planReady = TRUE] \in ControllerType
           /\ [c EXCEPT !.pendPlan = NoPlan, !.planRejected = TRUE, !.planReady = FALSE]
                 \in ControllerType
BY DEF ControllerType, NoPlan

(* An answer to the fault plan: if it consents, the plan is in force.      *)
LEMMA OnPlanAnswerSound ==
    ASSUME ManagerInv, NEW n \in Endpoints, toMgr[n] # <<>>,
           toMgr' = [toMgr EXCEPT ![n] = Tail(@)],
           UNCHANGED <<prepared, link, toNode, node, budget>>,
           Head(toMgr[n]).type = "PlanAnswer", mgr' = OnPlanAnswer(Head(toMgr[n]))
    PROVE  ManagerInv'
<1> DEFINE m == Head(toMgr[n])
<1>1. /\ RoundTyping /\ ControllerInv /\ AllAccounted /\ PlanInForce /\ ParticipantInv(n)
      /\ mgr \in ControllerType
  BY InvFacts DEF RoundTyping
<1>2. m \in ToMgrType /\ m \in Range(toMgr[n]) /\ m.type = "PlanAnswer"
  BY InvFacts, RangeTail
<1>3. m.ok \in BOOLEAN /\ m.plan \in Nat \ {0}
  BY <1>2 DEF ToMgrType, ReportType
<1> HIDE DEF m
<1>4. \/ mgr' = mgr
      \/ /\ m.plan = mgr.pendPlan
         /\ \/ ~m.ok /\ mgr' = [mgr EXCEPT !.pendPlan = NoPlan, !.planRejected = TRUE,
                                           !.planReady = FALSE]
            \/ m.ok /\ mgr' = [mgr EXCEPT !.pendPlan = NoPlan, !.planReady = TRUE]
  BY <1>3 DEF OnPlanAnswer, m
<1>5. CASE mgr' = mgr
  <2>1. ControllerInv' /\ AllAccounted' /\ PlanInForce'
    BY <1>1, <1>5 DEF ControllerInv, AllAccounted, PlanInForce
  <2> QED
    BY <1>1, <1>5, <2>1, ManagerReadsAnswer
<1>6. CASE mgr' = [mgr EXCEPT !.pendPlan = NoPlan, !.planRejected = TRUE, !.planReady = FALSE]
  <2>1. /\ mgr' \in ControllerType /\ ~mgr'.planReady /\ mgr'.pendPlan = NoPlan
        /\ mgr'.round = mgr.round /\ mgr'.parts = mgr.parts /\ mgr'.senders = mgr.senders
        /\ mgr'.planned = mgr.planned /\ mgr'.got = mgr.got /\ mgr'.drained = mgr.drained
        /\ mgr'.ready = mgr.ready /\ mgr'.pend = mgr.pend /\ mgr'.rejected = mgr.rejected
        /\ mgr'.expected = mgr.expected /\ mgr'.running = mgr.running
    <3>1. mgr' \in ControllerType
      BY <1>1, <1>6, PlanAnswerTypes
    <3> QED
      BY <1>1, <1>6, <3>1 DEF ControllerType, NoPlan
  <2>2. ControllerInv' /\ AllAccounted' /\ PlanInForce'
    BY <1>1, <2>1 DEF ControllerInv, AllAccounted, PlanInForce
  <2> QED
    BY <2>1, <2>2, ManagerReadsAnswer
<1>7. CASE /\ m.plan = mgr.pendPlan /\ m.ok
           /\ mgr' = [mgr EXCEPT !.pendPlan = NoPlan, !.planReady = TRUE]
  <2>1. /\ mgr' \in ControllerType /\ mgr'.planReady /\ mgr'.pendPlan = NoPlan
        /\ mgr'.round = mgr.round /\ mgr'.parts = mgr.parts /\ mgr'.senders = mgr.senders
        /\ mgr'.planned = mgr.planned /\ mgr'.got = mgr.got /\ mgr'.drained = mgr.drained
        /\ mgr'.ready = mgr.ready /\ mgr'.pend = mgr.pend /\ mgr'.rejected = mgr.rejected
        /\ mgr'.expected = mgr.expected /\ mgr'.running = mgr.running
    <3>1. mgr' \in ControllerType
      BY <1>1, <1>7, PlanAnswerTypes
    <3> QED
      BY <1>1, <1>7, <3>1 DEF ControllerType, NoPlan
  <2>2. m.plan = mgr.planned /\ mgr.planned # NoPlan
    BY <1>1, <1>3, <1>7 DEF ControllerInv, NoPlan
  <2>3. n \in mgr.senders /\ node[n].plan = mgr.planned
    BY <1>1, <1>2, <1>7, <2>2 DEF ParticipantInv, PlanInv
  <2>4. ControllerInv' /\ AllAccounted'
    BY <1>1, <2>1, <2>2 DEF ControllerInv, AllAccounted
  <2>5. PlanInForce'
    BY <2>1, <2>3 DEF PlanInForce
  <2> QED
    BY <2>1, <2>4, <2>5, ManagerReadsAnswer
<1> QED
  BY <1>4, <1>5, <1>6, <1>7

(* completeRoundIfReady leaves all but the running flags alone.            *)
LEMMA CompleteTypes ==
    ASSUME NEW c \in ControllerType
    PROVE  /\ Complete(c) \in ControllerType
           /\ Complete(c).running => c.running
           /\ Complete(c).round = c.round /\ Complete(c).parts = c.parts
           /\ Complete(c).senders = c.senders /\ Complete(c).pend = c.pend
           /\ Complete(c).rejected = c.rejected /\ Complete(c).ready = c.ready
           /\ Complete(c).planned = c.planned /\ Complete(c).pendPlan = c.pendPlan
           /\ Complete(c).planReady = c.planReady /\ Complete(c).got = c.got
           /\ Complete(c).drained = c.drained /\ Complete(c).expected = c.expected
<1>1. CASE Complete(c) = c
  BY <1>1
<1>2. CASE Complete(c) = [c EXCEPT !.running = FALSE, !.paused = FALSE]
  <2>1. Complete(c) \in ControllerType
    BY <1>2 DEF ControllerType
  <2> QED
    BY <1>2, <2>1 DEF ControllerType
<1> QED
  BY <1>1, <1>2 DEF Complete

(* A result of the prepared round: it was under way, so it is owed no more.*)
LEMMA OnResultSound ==
    ASSUME ManagerInv, NEW n \in Endpoints, toMgr[n] # <<>>,
           toMgr' = [toMgr EXCEPT ![n] = Tail(@)],
           UNCHANGED <<prepared, link, toNode, node, budget>>,
           Head(toMgr[n]).type = "Result", mgr' = OnResult(Head(toMgr[n]))
    PROVE  ManagerInv'
<1> DEFINE m == Head(toMgr[n])
           c == [mgr EXCEPT !.got = @ \cup {m.key}]
<1>1. /\ RoundTyping /\ ControllerInv /\ AllAccounted /\ PlanInForce /\ ParticipantInv(n)
      /\ mgr \in ControllerType
  BY InvFacts DEF RoundTyping
<1>2. /\ m \in ToMgrType /\ m \in Range(toMgr[n]) /\ m.type = "Result"
      /\ Tail(toMgr[n]) \in Seq(ToMgrType) /\ Range(Tail(toMgr[n])) \subseteq Range(toMgr[n])
  BY InvFacts, RangeTail
<1>3. m.round \in Nat \ {0} /\ m.key \in KeyType /\ m = Result(m.round, m.key)
  BY <1>2 DEF ToMgrType, ReportType, Result
<1> HIDE DEF m
<1>4. CASE m.round # mgr.round
  <2>1. mgr' = mgr
    BY <1>4 DEF OnResult, m
  <2>2. ControllerInv' /\ AllAccounted' /\ PlanInForce'
    BY <1>1, <2>1 DEF ControllerInv, AllAccounted, PlanInForce
  <2> QED
    BY <1>1, <2>1, <2>2, ManagerReadsAnswer
<1>5. CASE m.round = mgr.round
  <2>1. mgr' = Complete(c)
    BY <1>5 DEF OnResult, m
  <2>2. c \in ControllerType /\ c.got = mgr.got \cup {m.key}
    BY <1>1, <1>3 DEF ControllerType
  <2>3. /\ c.round = mgr.round /\ c.parts = mgr.parts /\ c.senders = mgr.senders
        /\ c.pend = mgr.pend /\ c.rejected = mgr.rejected /\ c.ready = mgr.ready
        /\ c.planned = mgr.planned /\ c.pendPlan = mgr.pendPlan /\ c.planReady = mgr.planReady
        /\ c.drained = mgr.drained /\ c.expected = mgr.expected /\ c.running = mgr.running
    BY <1>1, <2>2 DEF ControllerType
  <2> HIDE DEF c
  <2>4. /\ mgr' \in ControllerType /\ mgr'.got = mgr.got \cup {m.key}
        /\ mgr'.running => mgr.running
        /\ mgr'.round = mgr.round /\ mgr'.parts = mgr.parts /\ mgr'.senders = mgr.senders
        /\ mgr'.pend = mgr.pend /\ mgr'.rejected = mgr.rejected /\ mgr'.ready = mgr.ready
        /\ mgr'.planned = mgr.planned /\ mgr'.pendPlan = mgr.pendPlan
        /\ mgr'.planReady = mgr.planReady
        /\ mgr'.drained = mgr.drained /\ mgr'.expected = mgr.expected
    BY <2>1, <2>2, <2>3, CompleteTypes
  <2>5. /\ Begun(n) /\ ~prepared /\ mgr.round # NoRound
        /\ n \in mgr.parts /\ m.key \in ResultsOf(n, mgr.senders) /\ m.key[1] = n
    <3>1. mgr.round # NoRound /\ Begun(n)
      BY <1>2, <1>3, <1>5 DEF Begun, OfRound, NoRound
    <3>2. mgr.senders \in SUBSET Endpoints
      BY <1>1 DEF ControllerType
    <3> QED
      BY <1>1, <1>2, <1>5, <3>1, <3>2, KeyTypes DEF ParticipantInv, StartInv, ResultInv
  <2>6. ControllerInv'
    <3>1. mgr'.got \subseteq AllKeys(mgr.parts, mgr.senders)
      BY <1>1, <2>4, <2>5 DEF ControllerInv, AllKeys
    <3> QED
      BY <1>1, <2>4, <2>5, <3>1 DEF ControllerInv
  <2>7. AllAccounted' /\ PlanInForce'
    BY <1>1, <2>4 DEF AllAccounted, PlanInForce
  <2>8. RoundTyping'
    BY <1>1, <1>2, <2>4 DEF RoundTyping
  <2>9. ASSUME NEW x \in Endpoints
        PROVE  ParticipantInv(x)'
    <3>1. ParticipantInv(x) /\ node[x] \in ParticipantType
      BY InvFacts
    <3>2. Range(toMgr[x])' \subseteq Range(toMgr[x])
      BY <1>1, <1>2 DEF RoundTyping
    <3>3. NumberInv(x)' /\ HeldInv(x)' /\ PlanInv(x)' /\ DrainInv(x)'
      BY <2>4, <3>1, <3>2
         DEF ParticipantInv, NumberInv, Numbered, HeldInv, PlanInv, DrainInv
    <3>4. Ordered(toNode[x])'
      BY <3>1 DEF ParticipantInv, Ordered, Precedes
    <3>5. Begun(x)' => Begun(x)
      BY <2>4, <2>5, <3>2 DEF Begun, OfRound
    <3>6. StartInv(x)'
      BY <2>4, <3>1, <3>5 DEF ParticipantInv, StartInv
    <3>7. ASSUME NEW q \in node[x].owes, q.round = mgr.round
          PROVE  q.key # m.key
      <4>1. q.key \in ResultsOf(x, mgr.senders) /\ ~Reported(x, q.key)
        BY <3>1, <3>7 DEF ParticipantInv, ResultInv
      <4>2. q.key[1] = x
        <5>1. mgr.senders \in SUBSET Endpoints
          BY <1>1 DEF ControllerType
        <5> QED
          BY <4>1, <5>1, KeyTypes
      <4> QED
        BY <1>2, <1>3, <1>5, <2>5, <4>1, <4>2 DEF Reported
    <3>8. ResultInv(x)'
      BY <2>4, <3>1, <3>2, <3>7 DEF ParticipantInv, ResultInv, Reported
    <3> QED
      BY <3>3, <3>4, <3>6, <3>8 DEF ParticipantInv
  <2> QED
    BY <2>6, <2>7, <2>8, <2>9 DEF ManagerInv
<1> QED
  BY <1>4, <1>5

(* A confirmed drain of the prepared round.                                *)
LEMMA OnDrainedSound ==
    ASSUME ManagerInv, NEW n \in Endpoints, toMgr[n] # <<>>,
           toMgr' = [toMgr EXCEPT ![n] = Tail(@)],
           UNCHANGED <<prepared, link, toNode, node, budget>>,
           Head(toMgr[n]).type = "Drained", mgr' = OnDrained(n, Head(toMgr[n]))
    PROVE  ManagerInv'
<1> DEFINE m == Head(toMgr[n])
           c == [mgr EXCEPT !.drained = @ \cup {n}]
<1>1. /\ RoundTyping /\ ControllerInv /\ AllAccounted /\ PlanInForce /\ ParticipantInv(n)
      /\ mgr \in ControllerType
  BY InvFacts DEF RoundTyping
<1>2. /\ m \in ToMgrType /\ m \in Range(toMgr[n]) /\ m.type = "Drained"
      /\ Tail(toMgr[n]) \in Seq(ToMgrType) /\ Range(Tail(toMgr[n])) \subseteq Range(toMgr[n])
  BY InvFacts, RangeTail
<1>3. m.round \in Nat \ {0} /\ m = Drained(m.round)
  BY <1>2 DEF ToMgrType, ReportType, Drained
<1> HIDE DEF m
<1>4. CASE m.round # mgr.round \/ n \notin mgr.parts
  <2>1. mgr' = mgr
    BY <1>4 DEF OnDrained, m
  <2>2. ControllerInv' /\ AllAccounted' /\ PlanInForce'
    BY <1>1, <2>1 DEF ControllerInv, AllAccounted, PlanInForce
  <2> QED
    BY <1>1, <2>1, <2>2, ManagerReadsAnswer
<1>5. CASE m.round = mgr.round /\ n \in mgr.parts
  <2>1. mgr' = Complete(c)
    BY <1>5 DEF OnDrained, m
  <2>2. c \in ControllerType /\ c.drained = mgr.drained \cup {n}
    BY <1>1 DEF ControllerType
  <2>3. /\ c.round = mgr.round /\ c.parts = mgr.parts /\ c.senders = mgr.senders
        /\ c.pend = mgr.pend /\ c.rejected = mgr.rejected /\ c.ready = mgr.ready
        /\ c.planned = mgr.planned /\ c.pendPlan = mgr.pendPlan /\ c.planReady = mgr.planReady
        /\ c.got = mgr.got /\ c.expected = mgr.expected /\ c.running = mgr.running
    BY <1>1, <2>2 DEF ControllerType
  <2> HIDE DEF c
  <2>4. /\ mgr' \in ControllerType /\ mgr'.drained = mgr.drained \cup {n}
        /\ mgr'.running => mgr.running
        /\ mgr'.round = mgr.round /\ mgr'.parts = mgr.parts /\ mgr'.senders = mgr.senders
        /\ mgr'.pend = mgr.pend /\ mgr'.rejected = mgr.rejected /\ mgr'.ready = mgr.ready
        /\ mgr'.planned = mgr.planned /\ mgr'.pendPlan = mgr.pendPlan
        /\ mgr'.planReady = mgr.planReady
        /\ mgr'.got = mgr.got /\ mgr'.expected = mgr.expected
    BY <2>1, <2>2, <2>3, CompleteTypes
  <2>5. mgr.round # NoRound /\ Begun(n) /\ ~prepared /\ node[n].acked = mgr.round
    <3>1. mgr.round # NoRound /\ Begun(n)
      BY <1>2, <1>3, <1>5 DEF Begun, OfRound, NoRound
    <3> QED
      BY <1>1, <1>2, <1>3, <1>5, <3>1 DEF ParticipantInv, StartInv, DrainInv
  <2>6. ControllerInv'
    BY <1>1, <1>5, <2>4, <2>5 DEF ControllerInv
  <2>7. AllAccounted' /\ PlanInForce'
    BY <1>1, <2>4 DEF AllAccounted, PlanInForce
  <2>8. RoundTyping'
    BY <1>1, <1>2, <2>4 DEF RoundTyping
  <2>9. ASSUME NEW x \in Endpoints
        PROVE  ParticipantInv(x)'
    <3>1. ParticipantInv(x) /\ node[x] \in ParticipantType
      BY InvFacts
    <3>2. Range(toMgr[x])' \subseteq Range(toMgr[x])
      BY <1>1, <1>2 DEF RoundTyping
    <3>3. NumberInv(x)' /\ HeldInv(x)' /\ PlanInv(x)' /\ ResultInv(x)'
      BY <2>4, <3>1, <3>2
         DEF ParticipantInv, NumberInv, Numbered, HeldInv, PlanInv, ResultInv, Reported
    <3>4. Ordered(toNode[x])'
      BY <3>1 DEF ParticipantInv, Ordered, Precedes
    <3>5. Begun(x)' => Begun(x)
      BY <2>4, <2>5, <3>2 DEF Begun, OfRound
    <3>6. StartInv(x)'
      BY <2>4, <3>1, <3>5 DEF ParticipantInv, StartInv
    <3>7. DrainInv(x)'
      BY <2>4, <2>5, <3>1, <3>2 DEF ParticipantInv, DrainInv
    <3> QED
      BY <3>3, <3>4, <3>6, <3>7 DEF ParticipantInv
  <2> QED
    BY <2>6, <2>7, <2>8, <2>9 DEF ManagerInv
<1> QED
  BY <1>4, <1>5

(* The Manager reads the next message (processNodeControlJson).            *)
LEMMA ManagerReceivesSound ==
    ASSUME ManagerInv, NEW n \in Endpoints, ManagerReceives(n)
    PROVE  ManagerInv'
<1> DEFINE m == Head(toMgr[n])
<1>1. /\ toMgr[n] # <<>> /\ toMgr' = [toMgr EXCEPT ![n] = Tail(@)]
      /\ UNCHANGED <<prepared, link, toNode, node, budget>>
      /\ mgr' = Handled(n, m)
  BY DEF ManagerReceives
<1>2. m \in ToMgrType
  BY <1>1, InvFacts, RangeTail
<1>3. m.type \in {"Answer", "PlanAnswer", "Result", "Drained"}
  BY <1>2 DEF ToMgrType, ReportType
<1>4. CASE m.type = "Answer"
  <2>1. mgr' = OnAnswer(m)
    BY <1>1, <1>4 DEF Handled
  <2> QED
    BY <1>1, <1>4, <2>1, OnAnswerSound
<1>5. CASE m.type = "PlanAnswer"
  <2>1. mgr' = OnPlanAnswer(m)
    BY <1>1, <1>5 DEF Handled
  <2> QED
    BY <1>1, <1>5, <2>1, OnPlanAnswerSound
<1>6. CASE m.type = "Result"
  <2>1. mgr' = OnResult(m)
    BY <1>1, <1>6 DEF Handled
  <2> QED
    BY <1>1, <1>6, <2>1, OnResultSound
<1>7. CASE m.type = "Drained"
  <2>1. mgr' = OnDrained(n, m)
    BY <1>1, <1>7 DEF Handled
  <2> QED
    BY <1>1, <1>7, <2>1, OnDrainedSound
<1> QED
  BY <1>3, <1>4, <1>5, <1>6, <1>7

-----------------------------------------------------------------------------
(* A new preparation: its number is fresh, so nothing that a participant   *)
(* has or that is under way can be taken for something of it.              *)
LEMMA FreshParticipant ==
    ASSUME ManagerInv, NEW n \in Endpoints, budget.rounds \in Nat \ {0},
           budget'.rounds = budget.rounds - 1, budget'.plans = budget.plans,
           mgr'.round \in {NoRound, budget.rounds}, mgr'.planned = NoPlan,
           mgr'.got = {}, mgr'.drained = {},
           toMgr'[n] = toMgr[n], node'[n] = node[n],
           NEW s \in Seq(ToNodeType), toNode'[n] = toNode[n] \o s, Ordered(s),
           \A m \in Range(s) : m.type = "Ask" /\ m.req.node = n /\ m.req.round = budget.rounds
    PROVE  ParticipantInv(n)'
<1>1. /\ RoundTyping /\ ParticipantInv(n) /\ node[n] \in ParticipantType
      /\ toNode[n] \in Seq(ToNodeType) /\ toMgr[n] \in Seq(ToMgrType)
      /\ Range(toNode[n]) \subseteq ToNodeType /\ Range(toMgr[n]) \subseteq ToMgrType
  BY InvFacts
<1>2. Range(toNode[n])' = Range(toNode[n]) \cup Range(s)
  BY <1>1, RangeConcat
<1>3. /\ \A m \in Range(toNode[n]) \cup Range(toMgr[n]) \cup node[n].owes : Numbered(m)
      /\ \A q \in node[n].held : q.round > budget.rounds
      /\ node[n].drain # NoRound => node[n].drain > budget.rounds
      /\ node[n].acked # NoRound => node[n].acked > budget.rounds
      /\ node[n].plan # NoPlan => node[n].plan > budget.plans
  BY <1>1 DEF ParticipantInv, NumberInv
<1>4. /\ \A m \in Range(toNode[n]) : m.type \notin {"Answer", "PlanAnswer", "Result", "Drained"}
      /\ \A m \in Range(toMgr[n]) : m.type \notin {"Ask", "Plan", "Start"}
      /\ \A m \in Range(toNode[n]) : /\ m.type = "Ask" => m.req.round \in Nat \ {0}
                                     /\ m.type = "Start" => m.round \in Nat \ {0}
                                     /\ m.type = "Plan" => m.plan \in Nat \ {0}
      /\ \A m \in Range(toMgr[n]) : /\ m.type = "Answer" => m.req.round \in Nat \ {0}
                                    /\ m.type = "PlanAnswer" => m.plan \in Nat \ {0}
                                    /\ m.type \in {"Result", "Drained"} => m.round \in Nat \ {0}
      /\ \A q \in node[n].owes : q.round \in Nat \ {0} /\ q.type = "Result"
      /\ \A q \in node[n].held : q.round \in Nat \ {0}
      /\ node[n].drain \in Nat /\ node[n].acked \in Nat
  BY <1>1 DEF ToNodeType, ToMgrType, ReportType, RequestType, ParticipantType
<1>5. NumberInv(n)'
  <2>1. \A m \in Range(toNode[n]) \cup Range(toMgr[n]) \cup node[n].owes : Numbered(m)'
    <3> SUFFICES ASSUME NEW m \in Range(toNode[n]) \cup Range(toMgr[n]) \cup node[n].owes
                 PROVE  Numbered(m)'
      OBVIOUS
    <3>1. Numbered(m)
      BY <1>3
    <3>2. /\ m.type \in {"Ask", "Answer"} => m.req.round \in Nat
          /\ m.type \in {"Start", "Result", "Drained"} => m.round \in Nat
      BY <1>4
    <3> QED
      BY <3>1, <3>2 DEF Numbered
  <2>2. \A m \in Range(s) : Numbered(m)'
    BY DEF Numbered
  <2> QED
    BY <1>2, <1>3, <1>4, <2>1, <2>2 DEF NumberInv
<1>6. Ordered(toNode[n])'
  <2>1. ASSUME NEW a \in Range(toNode[n]), NEW b \in Range(s)
        PROVE  Precedes(a, b)
    BY <1>3, <1>4, <2>1 DEF Precedes, Numbered
  <2>2. Ordered(toNode[n] \o s)
    BY <1>1, <2>1, OrderedConcat DEF ParticipantInv
  <2> QED
    BY <2>2 DEF Ordered, Precedes
<1>7. HeldInv(n)'
  <2>1. \A m \in Range(toMgr[n]) : m.type = "Answer" => m.req.round # mgr'.round
    BY <1>3, <1>4 DEF Numbered, NoRound
  <2>2. \A q \in node[n].held : q.round >= budget.rounds
    BY <1>3, <1>4
  <2> QED
    BY <1>1, <1>2, <2>1, <2>2 DEF ParticipantInv, HeldInv
<1>8. PlanInv(n)'
  BY <1>1, <1>2, <1>4 DEF ParticipantInv, PlanInv, NoPlan
<1>9. /\ \A m \in Range(toMgr[n]) : m.type \in {"Result", "Drained"} => m.round # mgr'.round
      /\ \A m \in Range(toNode[n]) : m.type = "Start" => m.round # mgr'.round
      /\ \A q \in node[n].owes : q.round # mgr'.round
      /\ mgr'.round # NoRound => node[n].drain # mgr'.round /\ node[n].acked # mgr'.round
  <2>1. \A m \in Range(toMgr[n]) : m.type \in {"Result", "Drained"} => m.round # mgr'.round
    BY <1>3, <1>4 DEF Numbered, NoRound
  <2>2. \A m \in Range(toNode[n]) : m.type = "Start" => m.round # mgr'.round
    BY <1>3, <1>4 DEF Numbered, NoRound
  <2>3. \A q \in node[n].owes : q.round # mgr'.round
    BY <1>3, <1>4 DEF Numbered, NoRound
  <2>4. mgr'.round # NoRound => node[n].drain # mgr'.round /\ node[n].acked # mgr'.round
    BY <1>3, <1>4 DEF NoRound
  <2> QED
    BY <2>1, <2>2, <2>3, <2>4
<1>10. StartInv(n)'
  BY <1>2, <1>9 DEF StartInv, Begun, OfRound
<1>11. ResultInv(n)'
  BY <1>9 DEF ResultInv
<1>12. DrainInv(n)'
  <2>1. Drained(mgr'.round).type = "Drained" /\ Drained(mgr'.round).round = mgr'.round
    BY DEF Drained
  <2> QED
    BY <1>9, <2>1 DEF DrainInv
<1> QED
  BY <1>5, <1>6, <1>7, <1>8, <1>10, <1>11, <1>12 DEF ParticipantInv

(* The controller without a prepared round (resetPreparedRound).           *)
LEMMA BlankTypes ==
    ASSUME NEW c \in ControllerType
    PROVE  Blank(c) \in ControllerType /\ Blank(c).running = c.running
BY DEF ControllerType, Blank, NoRound, NoPlan

(* A preparation, done or given up in the middle: its requests are newer   *)
(* than all there is (bPrepareTextRound).                                  *)
LEMMA PrepareRoundSound ==
    ASSUME ManagerInv, NEW S \in SenderChoices, PrepareRound(S)
    PROVE  ManagerInv'
<1> DEFINE r == budget.rounds
           parts == Connected
           reqs == Requests(r, parts, S)
<1>1. RoundTyping /\ mgr \in ControllerType
  BY DEF ManagerInv, RoundTyping
<1>2. /\ ~mgr.running /\ r \in Nat \ {0}
      /\ budget' = [budget EXCEPT !.rounds = @ - 1]
      /\ UNCHANGED <<link, toMgr, node>>
      /\ S \in SUBSET Endpoints /\ parts \in SUBSET Endpoints
  BY <1>1, NodesAssumption DEF PrepareRound, PrepareEnabled, RoundTyping, Connected
<1>3. /\ budget' \in [rounds : Nat, plans : Nat, commands : Nat, breaks : Nat]
      /\ budget'.rounds = r - 1 /\ budget'.plans = budget.plans
  <2>1. budget \in [rounds : Nat, plans : Nat, commands : Nat, breaks : Nat] /\ r - 1 \in Nat
    BY <1>1, <1>2 DEF RoundTyping
  <2> QED
    BY <1>2, <2>1
<1>4. \/ prepared' = FALSE /\ mgr' = Blank(mgr) /\ toNode' = toNode
      \/ ~Unacceptable(parts, S) /\ PrepareDone(r, parts, S)
      \/ ~Unacceptable(parts, S) /\ PrepareFails(r, parts, S)
  BY DEF PrepareRound
<1> HIDE DEF parts, r
<1>5. ASSUME NEW some \in SUBSET RequestType, \A q \in some : q.round = r,
             toNode' = [n \in Endpoints |-> toNode[n] \o AskedOf(n, some)],
             mgr' \in ControllerType, mgr'.round \in {NoRound, r}, mgr'.planned = NoPlan,
             mgr'.got = {}, mgr'.drained = {}, prepared' \in BOOLEAN,
             ControllerInv', AllAccounted', ~mgr'.planReady
      PROVE  ManagerInv'
  <2>1. ASSUME NEW n \in Endpoints
        PROVE  /\ AskedOf(n, some) \in Seq(ToNodeType) /\ Ordered(AskedOf(n, some))
               /\ \A m \in Range(AskedOf(n, some)) :
                     m.type = "Ask" /\ m.req.node = n /\ m.req.round = r
    <3>1. r \in Nat \ {0} /\ some \in SUBSET RequestType /\ \A q \in some : q.round = r
      BY <1>2, <1>5
    <3> QED
      BY <3>1, AskedTypes
  <2>2. \A n \in Endpoints : toNode'[n] = toNode[n] \o AskedOf(n, some)
    BY <1>5
  <2>3. RoundTyping'
    <3>1. \A n \in Endpoints : toNode[n] \o AskedOf(n, some) \in Seq(ToNodeType)
      BY <2>1, InvFacts, RangeConcat
    <3>2. toNode' \in [Endpoints -> Seq(ToNodeType)]
      BY <1>5, <3>1
    <3> QED
      BY <1>1, <1>2, <1>3, <1>5, <3>2 DEF RoundTyping
  <2>4. ASSUME NEW n \in Endpoints
        PROVE  ParticipantInv(n)'
    <3>1. toMgr'[n] = toMgr[n] /\ node'[n] = node[n]
      BY <1>2
    <3> QED
      BY <1>2, <1>3, <1>5, <2>1, <2>2, <3>1, FreshParticipant DEF r
  <2>5. PlanInForce'
    BY <1>5 DEF PlanInForce
  <2> QED
    BY <1>5, <2>3, <2>4, <2>5 DEF ManagerInv
<1>6. ASSUME mgr' = Blank(mgr), prepared' = FALSE
      PROVE  /\ mgr' \in ControllerType /\ mgr'.round = NoRound /\ mgr'.planned = NoPlan
             /\ mgr'.got = {} /\ mgr'.drained = {} /\ ~mgr'.planReady
             /\ ControllerInv' /\ AllAccounted'
  <2>1. mgr' \in ControllerType /\ ~mgr'.running
    BY <1>1, <1>2, <1>6, BlankTypes
  <2>2. /\ mgr'.round = NoRound /\ mgr'.planned = NoPlan /\ mgr'.pendPlan = NoPlan
        /\ mgr'.got = {} /\ mgr'.drained = {} /\ ~mgr'.planReady /\ ~mgr'.ready
        /\ mgr'.parts = {} /\ mgr'.senders = {} /\ mgr'.pend = {}
    BY <1>6 DEF Blank
  <2>3. ControllerInv'
    BY <1>6, <2>1, <2>2 DEF ControllerInv
  <2>4. Requests(mgr'.round, {}, {}) = {}
    BY DEF Requests, SenderRequests, ReceiverRequests, MappingRequests
  <2>5. AllAccounted'
    BY <2>2, <2>4 DEF AllAccounted
  <2> QED
    BY <2>1, <2>2, <2>3, <2>5
<1>7. CASE prepared' = FALSE /\ mgr' = Blank(mgr) /\ toNode' = toNode
  <2>1. RoundTyping'
    BY <1>1, <1>2, <1>3, <1>6, <1>7 DEF RoundTyping
  <2>2. ASSUME NEW n \in Endpoints
        PROVE  ParticipantInv(n)'
    <3>1. toNode'[n] = toNode[n] \o <<>>
      BY <1>7, InvFacts, ConcatEmptySeq
    <3>2. <<>> \in Seq(ToNodeType) /\ Range(<<>>) = {} /\ Ordered(<<>>)
      BY RangeEmpty DEF Ordered
    <3>3. toMgr'[n] = toMgr[n] /\ node'[n] = node[n]
      BY <1>2
    <3> QED
      BY <1>2, <1>3, <1>6, <1>7, <3>1, <3>2, <3>3, FreshParticipant DEF r
  <2>3. PlanInForce'
    BY <1>6, <1>7 DEF PlanInForce
  <2> QED
    BY <1>6, <1>7, <2>1, <2>2, <2>3 DEF ManagerInv
<1>8. ASSUME ~Unacceptable(parts, S)
      PROVE  /\ S # {} /\ S \subseteq parts
             /\ reqs \subseteq RequestType /\ \A q \in reqs : q.round = r /\ q.node \in parts
  <2>1. S # {} /\ S \subseteq parts
    BY <1>8 DEF Unacceptable
  <2> QED
    BY <1>2, <2>1, RequestTypes
<1>9. CASE ~Unacceptable(parts, S) /\ PrepareFails(r, parts, S)
  <2>1. PICK some \in SUBSET reqs : toNode' = [n \in Endpoints |-> toNode[n] \o AskedOf(n, some)]
    BY <1>9 DEF PrepareFails
  <2>2. mgr' = Blank(mgr) /\ prepared' = FALSE
    BY <1>9 DEF PrepareFails
  <2>3. some \in SUBSET RequestType /\ \A q \in some : q.round = r
    BY <1>8, <1>9
  <2> HIDE DEF reqs
  <2> QED
    BY <1>5, <1>6, <2>1, <2>2, <2>3
<1>10. CASE ~Unacceptable(parts, S) /\ PrepareDone(r, parts, S)
  <2>1. /\ prepared' = TRUE
        /\ mgr' = [Blank(mgr) EXCEPT !.round = r, !.parts = parts, !.senders = S,
                       !.pend = reqs, !.expected = ExpectedResults(parts, S)]
        /\ toNode' = [n \in Endpoints |-> toNode[n] \o AskedOf(n, reqs)]
    BY <1>10 DEF PrepareDone
  <2>2. ExpectedResults(parts, S) \in Nat
    BY <1>2, KeysFinite, FS_CardinalityType DEF ExpectedResults, AllKeys
  <2>3. mgr' \in ControllerType
    BY <1>1, <1>2, <1>8, <1>10, <2>1, <2>2, BlankTypes DEF ControllerType
  <2>4. /\ mgr'.round = r /\ mgr'.parts = parts /\ mgr'.senders = S /\ mgr'.pend = reqs
        /\ mgr'.expected = ExpectedResults(parts, S) /\ ~mgr'.running
        /\ mgr'.planned = NoPlan /\ mgr'.pendPlan = NoPlan /\ ~mgr'.planReady /\ ~mgr'.ready
        /\ mgr'.got = {} /\ mgr'.drained = {}
    BY <1>2, <2>1 DEF Blank
  <2>5. ControllerInv'
    BY <1>2, <1>3, <1>8, <1>10, <2>4 DEF ControllerInv, NoRound
  <2>6. AllAccounted'
    BY <2>4 DEF AllAccounted
  <2> HIDE DEF reqs
  <2> QED
    BY <1>5, <1>8, <1>10, <2>1, <2>3, <2>4, <2>5, <2>6
<1> QED
  BY <1>4, <1>7, <1>9, <1>10

-----------------------------------------------------------------------------
(* A fault plan is sent to one Sender, or refused since its link is down.  *)
LEMMA FaultPlanTypes ==
    ASSUME NEW c \in ControllerType, NEW p \in Nat
    PROVE  /\ [c EXCEPT !.planned = p, !.planReady = FALSE, !.planRejected = FALSE]
                 \in ControllerType
           /\ [c EXCEPT !.pendPlan = p] \in ControllerType
           /\ [c EXCEPT !.planRejected = TRUE] \in ControllerType
BY DEF ControllerType

(* A fault plan is newer than all there is (bConfigureFaultPlan).          *)
LEMMA ConfigureFaultPlanSound ==
    ASSUME ManagerInv, NEW s \in Endpoints, ConfigureFaultPlan(s)
    PROVE  ManagerInv'
<1> PICK p : p = budget.plans
  OBVIOUS
<1> PICK m : m = Plan(mgr.round, p)
  OBVIOUS
<1> DEFINE planAsked == [mgr EXCEPT !.planned = p, !.planReady = FALSE, !.planRejected = FALSE]
<1>1. /\ RoundTyping /\ ControllerInv /\ AllAccounted /\ PlanInForce
      /\ mgr \in ControllerType
      /\ budget \in [rounds : Nat, plans : Nat, commands : Nat, breaks : Nat]
  BY DEF ManagerInv, RoundTyping
<1>2. /\ mgr.ready /\ ~mgr.running /\ s \in mgr.senders /\ mgr.pendPlan = NoPlan
      /\ p \in Nat \ {0}
      /\ budget' = [budget EXCEPT !.plans = @ - 1]
      /\ UNCHANGED <<prepared, link, toMgr, node>>
      /\ \/ /\ mgr' = [planAsked EXCEPT !.pendPlan = p]
            /\ toNode' = [toNode EXCEPT ![s] = Append(@, m)]
         \/ mgr' = [planAsked EXCEPT !.planRejected = TRUE] /\ toNode' = toNode
  BY <1>1 DEF ConfigureFaultPlan
<1>3. /\ budget' \in [rounds : Nat, plans : Nat, commands : Nat, breaks : Nat]
      /\ budget'.rounds = budget.rounds /\ budget'.plans = p - 1
  <2>1. p - 1 \in Nat
    BY <1>2
  <2> QED
    BY <1>1, <1>2, <2>1
<1>4. planAsked \in ControllerType /\ planAsked.planned = p /\ ~planAsked.planReady
      /\ planAsked.pendPlan = NoPlan /\ planAsked.pend = mgr.pend /\ planAsked.rejected = mgr.rejected
      /\ planAsked.round = mgr.round /\ planAsked.parts = mgr.parts /\ planAsked.senders = mgr.senders
      /\ planAsked.got = mgr.got /\ planAsked.drained = mgr.drained /\ planAsked.expected = mgr.expected
      /\ planAsked.ready = mgr.ready /\ planAsked.running = mgr.running
  <2>1. planAsked \in ControllerType
    BY <1>1, <1>2, FaultPlanTypes
  <2> QED
    BY <1>1, <1>2, <2>1 DEF ControllerType
<1> HIDE DEF planAsked
<1>5. mgr' \in ControllerType /\ mgr'.planned = p /\ ~mgr'.planReady
      /\ mgr'.pendPlan \in {NoPlan, p} /\ mgr'.pend = mgr.pend /\ mgr'.rejected = mgr.rejected
      /\ mgr'.round = mgr.round /\ mgr'.parts = mgr.parts /\ mgr'.senders = mgr.senders
      /\ mgr'.got = mgr.got /\ mgr'.drained = mgr.drained /\ mgr'.expected = mgr.expected
      /\ mgr'.ready = mgr.ready /\ mgr'.running = mgr.running
  <2>1. mgr' \in ControllerType
    BY <1>2, <1>4, FaultPlanTypes
  <2>2. CASE mgr' = [planAsked EXCEPT !.pendPlan = p]
    BY <1>4, <2>1, <2>2 DEF ControllerType
  <2>3. CASE mgr' = [planAsked EXCEPT !.planRejected = TRUE]
    BY <1>4, <2>1, <2>3 DEF ControllerType
  <2> QED
    BY <1>2, <2>2, <2>3
<1>6. ControllerInv'
  BY <1>1, <1>2, <1>3, <1>5 DEF ControllerInv, NoPlan
<1>7. AllAccounted' /\ PlanInForce'
  BY <1>1, <1>2, <1>5 DEF AllAccounted, PlanInForce
<1>8. m \in ToNodeType /\ m.type = "Plan" /\ m.plan = p
  BY <1>1, <1>2 DEF Plan, ToNodeType, ControllerType
<1>9. ASSUME NEW n \in Endpoints
      PROVE  /\ toNode'[n] \in Seq(ToNodeType)
             /\ \/ toNode'[n] = toNode[n]
                \/ n = s /\ toNode'[n] = Append(toNode[n], m)
  <2>1. toNode[n] \in Seq(ToNodeType) /\ toNode \in [Endpoints -> Seq(ToNodeType)]
    BY <1>1 DEF RoundTyping
  <2>2. CASE toNode' = toNode
    BY <2>1, <2>2
  <2>3. CASE toNode' = [toNode EXCEPT ![s] = Append(@, m)]
    <3>1. Append(toNode[n], m) \in Seq(ToNodeType)
      BY <1>8, <2>1, RangeAppend
    <3>2. toNode'[n] = IF n = s THEN Append(toNode[n], m) ELSE toNode[n]
      BY <2>1, <2>3
    <3> QED
      BY <2>1, <3>1, <3>2
  <2> QED
    BY <1>2, <2>2, <2>3
<1>10. RoundTyping'
  <2>1. toNode' \in [Endpoints -> Seq(ToNodeType)]
    <3>1. toNode' = [n \in Endpoints |-> toNode'[n]]
      BY <1>1, <1>2 DEF RoundTyping
    <3> QED
      BY <1>9, <3>1
  <2> QED
    BY <1>1, <1>2, <1>3, <1>5, <2>1 DEF RoundTyping
<1>11. ASSUME NEW n \in Endpoints
       PROVE  ParticipantInv(n)'
  <2>1. /\ ParticipantInv(n) /\ node[n] \in ParticipantType
        /\ toNode[n] \in Seq(ToNodeType) /\ Range(toNode[n]) \subseteq ToNodeType
        /\ Range(toMgr[n]) \subseteq ToMgrType
    BY InvFacts
  <2>2. /\ Range(toNode[n]) \subseteq Range(toNode'[n])
        /\ \A x \in Range(toNode'[n]) : x \in Range(toNode[n]) \/ (n = s /\ x = m)
    <3>1. Range(Append(toNode[n], m)) = Range(toNode[n]) \cup {m}
      BY <1>8, <2>1, RangeAppend
    <3> QED
      BY <1>9, <3>1
  <2>3. toMgr'[n] = toMgr[n] /\ node'[n] = node[n] /\ prepared' = prepared
    BY <1>2
  <2>4. /\ \A x \in Range(toNode[n]) : x.type = "Plan" => x.plan \in Nat /\ x.plan > p
        /\ \A x \in Range(toMgr[n]) : x.type = "PlanAnswer" => x.plan \in Nat /\ x.plan > p
        /\ node[n].plan # NoPlan => node[n].plan \in Nat /\ node[n].plan > p
    BY <2>1 DEF ParticipantInv, NumberInv, Numbered, ToNodeType, ToMgrType, ReportType,
                ParticipantType
  <2>5. NumberInv(n)'
    <3>1. ASSUME NEW x \in Range(toNode[n]) \cup Range(toMgr[n]) \cup node[n].owes
          PROVE  Numbered(x)'
      <4>1. Numbered(x)
        BY <2>1 DEF ParticipantInv, NumberInv
      <4>2. x.type \in {"Plan", "PlanAnswer"} => x.plan \in Nat
        BY <2>1 DEF ToNodeType, ToMgrType, ReportType, ParticipantType
      <4> QED
        BY <1>2, <1>3, <4>1, <4>2 DEF Numbered
    <3>2. Numbered(m)'
      BY <1>2, <1>3, <1>8 DEF Numbered
    <3>3. node[n].plan # NoPlan => node[n].plan > p - 1
      BY <1>2, <2>4
    <3> QED
      BY <1>3, <2>1, <2>2, <2>3, <3>1, <3>2, <3>3 DEF ParticipantInv, NumberInv
  <2>6. Ordered(toNode[n])'
    <3>1. CASE toNode'[n] = toNode[n]
      BY <2>1, <3>1 DEF ParticipantInv, Ordered, Precedes
    <3>2. CASE toNode'[n] = Append(toNode[n], m)
      <4>1. /\ <<m>> \in Seq(ToNodeType) /\ Append(toNode[n], m) = toNode[n] \o <<m>>
            /\ Range(<<m>>) = {m} /\ Ordered(<<m>>)
        BY <1>8, <2>1 DEF Range, Ordered
      <4>2. \A x \in Range(toNode[n]), y \in Range(<<m>>) : Precedes(x, y)
        BY <1>8, <2>4, <4>1 DEF Precedes
      <4>3. Ordered(toNode[n] \o <<m>>)
        BY <2>1, <4>1, <4>2, OrderedConcat DEF ParticipantInv
      <4> QED
        BY <3>2, <4>1, <4>3 DEF Ordered, Precedes
    <3> QED
      BY <1>9, <3>1, <3>2
  <2>7. HeldInv(n)'
    BY <1>5, <1>8, <2>1, <2>2, <2>3 DEF ParticipantInv, HeldInv
  <2>8. PlanInv(n)'
    <3>1. ASSUME NEW x \in Range(toNode'[n]), x.type = "Plan"
          PROVE  /\ node[n].plan # NoPlan => x.plan < node[n].plan
                 /\ x.plan = p => n \in mgr.senders
      <4>1. CASE x \in Range(toNode[n])
        BY <1>2, <2>1, <2>4, <3>1, <4>1 DEF ParticipantInv, PlanInv
      <4>2. CASE n = s /\ x = m
        BY <1>2, <1>8, <2>4, <4>2
      <4> QED
        BY <2>2, <4>1, <4>2
    <3>2. \A x \in Range(toMgr[n]) : x.type = "PlanAnswer" => x.plan # p
      BY <1>2, <2>4
    <3> QED
      BY <1>5, <2>3, <3>1, <3>2 DEF PlanInv
  <2>9. StartInv(n)'
    BY <1>5, <1>8, <2>1, <2>2, <2>3 DEF ParticipantInv, StartInv, Begun, OfRound
  <2>10. ResultInv(n)' /\ DrainInv(n)'
    BY <1>5, <2>1, <2>3 DEF ParticipantInv, ResultInv, Reported, DrainInv
  <2> QED
    BY <2>5, <2>6, <2>7, <2>8, <2>9, <2>10 DEF ParticipantInv
<1> QED
  BY <1>6, <1>7, <1>10, <1>11 DEF ManagerInv

-----------------------------------------------------------------------------
(* The commands of a broadcast; at most one of them is a start.            *)
Broadcasted == {<<"Start">>, <<"Start", "Stop">>, <<"Pause">>, <<"Resume">>, <<"Stop">>}

Orders(cmds, r, senders) == [i \in DOMAIN cmds |-> Command(cmds[i], r, senders)]

(* What a broadcast puts on a link.                                        *)
LEMMA BroadcastTypes ==
    ASSUME NEW cmds \in Broadcasted, NEW r \in Nat \ {0}, NEW senders \in SUBSET Endpoints,
           NEW s, s = Orders(cmds, r, senders)
    PROVE  /\ s \in Seq(ToNodeType) /\ Ordered(s)
           /\ \A m \in Range(s) :
                 /\ m.type \in {"Start", "Pause", "Resume", "Stop"}
                 /\ m.type = "Start" => cmds \in {<<"Start">>, <<"Start", "Stop">>}
                 /\ m.round = r /\ m.senders = senders
<1> DEFINE N == Len(cmds)
<1>1. /\ N \in Nat /\ DOMAIN cmds = 1 .. N
      /\ \A i \in 1 .. N : cmds[i] \in {"Start", "Pause", "Resume", "Stop"}
      /\ \A i \in 1 .. N : cmds[i] = "Start" => i = 1 /\ cmds \in {<<"Start">>, <<"Start", "Stop">>}
  BY DEF Broadcasted
<1>2. \A i \in 1 .. N : /\ s[i] \in ToNodeType
                        /\ s[i].type = cmds[i] /\ s[i].round = r /\ s[i].senders = senders
  BY <1>1 DEF Command, ToNodeType, Orders
<1>3. s \in [1 .. N -> ToNodeType] /\ DOMAIN s = 1 .. N
  BY <1>1, <1>2 DEF Orders
<1> HIDE DEF N
<1>4. s \in Seq(ToNodeType)
  BY <1>1, <1>3, SeqDef
<1>5. Ordered(s)
  BY <1>1, <1>2, <1>3 DEF Ordered, Precedes
<1>6. \A m \in Range(s) : /\ m.type \in {"Start", "Pause", "Resume", "Stop"}
                          /\ m.type = "Start" => cmds \in {<<"Start">>, <<"Start", "Stop">>}
                          /\ m.round = r /\ m.senders = senders
  BY <1>1, <1>2, <1>3 DEF Range
<1> QED
  BY <1>4, <1>5, <1>6

(* The members of the controller that no round command changes.            *)
SamePreparation(c, d) ==
    /\ d.round = c.round /\ d.parts = c.parts /\ d.senders = c.senders
    /\ d.pend = c.pend /\ d.rejected = c.rejected /\ d.ready = c.ready
    /\ d.planned = c.planned /\ d.pendPlan = c.pendPlan /\ d.planReady = c.planReady
    /\ d.got = c.got /\ d.drained = c.drained /\ d.expected = c.expected

(* The running flags are the only members that the commands change.        *)
LEMMA FlagTypes ==
    ASSUME NEW c \in ControllerType, NEW a \in BOOLEAN, NEW b \in BOOLEAN, NEW d,
           \/ d = c \/ d = [c EXCEPT !.paused = a]
           \/ d = [c EXCEPT !.running = a, !.paused = b]
           \/ c.got = {} /\ d = [c EXCEPT !.got = {}, !.running = a, !.paused = b]
           \/ c.got = {} /\ d = [c EXCEPT !.got = {}]
    PROVE  d \in ControllerType /\ SamePreparation(c, d)
<1> USE DEF ControllerType, SamePreparation
<1>1. CASE d = c
  BY <1>1
<1>2. CASE d = [c EXCEPT !.paused = a]
  BY <1>2
<1>3. CASE d = [c EXCEPT !.running = a, !.paused = b]
  BY <1>3
<1>4. CASE c.got = {} /\ d = [c EXCEPT !.got = {}, !.running = a, !.paused = b]
  <2>1. d \in ControllerType
    BY <1>4
  <2> QED
    BY <1>4, <2>1
<1>5. CASE c.got = {} /\ d = [c EXCEPT !.got = {}]
  <2>1. d \in ControllerType
    BY <1>5
  <2> QED
    BY <1>5, <2>1
<1> QED
  BY <1>1, <1>2, <1>3, <1>4, <1>5

(* A broadcast of the prepared round.  A start comes only while the        *)
(* preparation is current, which it ends, so there is one for a round.     *)
LEMMA BroadcastSound ==
    ASSUME ManagerInv, mgr.round # NoRound, NEW cmds \in Broadcasted, Broadcast(cmds),
           UNCHANGED <<link, toMgr, node>>,
           budget' \in [rounds : Nat, plans : Nat, commands : Nat, breaks : Nat],
           budget'.rounds = budget.rounds, budget'.plans = budget.plans,
           prepared' \in BOOLEAN, prepared' => prepared /\ ~mgr'.running,
           cmds \in {<<"Start">>, <<"Start", "Stop">>} => prepared /\ ~prepared',
           mgr' \in ControllerType, SamePreparation(mgr, mgr')
    PROVE  ManagerInv'
<1>1. /\ RoundTyping /\ ControllerInv /\ AllAccounted /\ PlanInForce
      /\ mgr \in ControllerType /\ mgr.round \in Nat \ {0} /\ mgr.senders \in SUBSET Endpoints
  BY DEF ManagerInv, RoundTyping, ControllerType, NoRound
<1> /\ mgr'.round = mgr.round /\ mgr'.parts = mgr.parts /\ mgr'.senders = mgr.senders
    /\ mgr'.pend = mgr.pend /\ mgr'.rejected = mgr.rejected /\ mgr'.ready = mgr.ready
    /\ mgr'.planned = mgr.planned /\ mgr'.pendPlan = mgr.pendPlan
    /\ mgr'.planReady = mgr.planReady /\ mgr'.got = mgr.got
    /\ mgr'.drained = mgr.drained /\ mgr'.expected = mgr.expected
  BY DEF SamePreparation
<1>2. PICK s : s = Orders(cmds, mgr.round, mgr.senders)
  OBVIOUS
<1>3. /\ s \in Seq(ToNodeType) /\ Ordered(s)
      /\ \A m \in Range(s) :
            /\ m.type \in {"Start", "Pause", "Resume", "Stop"}
            /\ m.type = "Start" => cmds \in {<<"Start">>, <<"Start", "Stop">>}
            /\ m.round = mgr.round /\ m.senders = mgr.senders
  BY <1>1, <1>2, BroadcastTypes
<1>4. toNode' = [n \in Endpoints |-> IF n \in mgr.parts /\ link[n] THEN toNode[n] \o s ELSE toNode[n]]
  BY <1>2 DEF Broadcast, Orders
<1>5. ControllerInv'
  BY <1>1 DEF ControllerInv
<1>6. AllAccounted' /\ PlanInForce'
  BY <1>1 DEF AllAccounted, PlanInForce
<1>7. ASSUME NEW n \in Endpoints
      PROVE  toNode[n] \o s \in Seq(ToNodeType) /\ Range(toNode[n] \o s) = Range(toNode[n]) \cup Range(s)
  BY <1>3, InvFacts, RangeConcat
<1>8. RoundTyping'
  <2>1. toNode' \in [Endpoints -> Seq(ToNodeType)]
    BY <1>4, <1>7, InvFacts
  <2> QED
    BY <1>1, <2>1 DEF RoundTyping
<1>9. ASSUME NEW n \in Endpoints, toNode'[n] = toNode[n]
      PROVE  ParticipantInv(n)'
  <2>1. ParticipantInv(n)
    BY InvFacts
  <2>2. Ordered(toNode[n])'
    BY <1>9, <2>1 DEF ParticipantInv, Ordered, Precedes
  <2> QED
    BY <1>9, <2>1, <2>2, ParticipantFrame
<1>10. ASSUME NEW n \in Endpoints, n \in mgr.parts, toNode'[n] = toNode[n] \o s
       PROVE  ParticipantInv(n)'
  <2>1. /\ ParticipantInv(n) /\ toNode[n] \in Seq(ToNodeType)
        /\ Range(toNode[n]) \subseteq ToNodeType
    BY InvFacts
  <2>2. \A m \in Range(toNode'[n]) : m \in Range(toNode[n]) \/ m \in Range(s)
    BY <1>7, <1>10
  <2>3. mgr.round = budget.rounds + 1 /\ budget.rounds \in Nat
    BY <1>1 DEF ControllerInv, RoundTyping
  <2>4. NumberInv(n)'
    <3>1. \A m \in Range(s) : Numbered(m)'
      BY <1>3, <2>3 DEF Numbered
    <3>2. \A m : Numbered(m)' <=> Numbered(m)
      BY DEF Numbered
    <3> QED
      BY <2>1, <2>2, <3>1, <3>2 DEF ParticipantInv, NumberInv
  <2>5. Ordered(toNode[n])'
    <3>1. ASSUME NEW a \in Range(toNode[n]), NEW b \in Range(s)
          PROVE  Precedes(a, b)
      <4>1. ASSUME a.type = "Start", b.type = "Start"
            PROVE  a.round > b.round
        <5>1. prepared /\ b.round = mgr.round
          BY <1>3, <4>1
        <5>2. a.round # mgr.round
          BY <2>1, <4>1, <5>1 DEF ParticipantInv, StartInv
        <5>3. a.round > budget.rounds /\ a.round \in Nat
          BY <2>1, <4>1 DEF ParticipantInv, NumberInv, Numbered, ToNodeType
        <5> QED
          BY <2>3, <5>1, <5>2, <5>3
      <4> QED
        BY <1>3, <4>1 DEF Precedes
    <3>2. Ordered(toNode[n] \o s)
      BY <1>3, <2>1, <3>1, OrderedConcat DEF ParticipantInv
    <3> QED
      BY <1>10, <3>2 DEF Ordered, Precedes
  <2>6. HeldInv(n)' /\ PlanInv(n)'
    BY <1>3, <2>1, <2>2 DEF ParticipantInv, HeldInv, PlanInv
  <2>7. StartInv(n)'
    <3>1. Begun(n)' => Begun(n)
      BY DEF Begun, OfRound
    <3>2. Begun(n) => ~prepared
      BY <1>1, <2>1 DEF ParticipantInv, StartInv
    <3>3. ASSUME Begun(n)'
          PROVE  /\ ~prepared' /\ \A m \in Range(toNode[n])' : m.type # "Start"
                 /\ \A q \in node'[n].owes : q.round = mgr'.round
      BY <1>3, <2>1, <2>2, <3>1, <3>2, <3>3 DEF ParticipantInv, StartInv
    <3>4. ASSUME NEW m \in Range(toNode[n])', m.type = "Start", m.round = mgr.round
          PROVE  ~prepared' /\ n \in mgr.parts /\ m.senders = mgr.senders
      BY <1>3, <1>10, <2>1, <2>2, <3>4 DEF ParticipantInv, StartInv
    <3> QED
      BY <3>3, <3>4 DEF StartInv
  <2>8. ResultInv(n)' /\ DrainInv(n)'
    BY <2>1 DEF ParticipantInv, ResultInv, Reported, DrainInv
  <2> QED
    BY <2>4, <2>5, <2>6, <2>7, <2>8 DEF ParticipantInv
<1>11. ASSUME NEW n \in Endpoints
       PROVE  ParticipantInv(n)'
  <2>1. toNode'[n] = toNode[n] \/ (n \in mgr.parts /\ toNode'[n] = toNode[n] \o s)
    BY <1>4
  <2> QED
    BY <1>9, <1>10, <2>1
<1> QED
  BY <1>5, <1>6, <1>8, <1>11 DEF ManagerInv

(* The start button ends the preparation, so a round is started once.      *)
LEMMA StartRoundSound == ManagerInv /\ StartRound => ManagerInv'
<1> SUFFICES ASSUME ManagerInv, StartRound PROVE ManagerInv'
  OBVIOUS
<1>1. /\ RoundTyping /\ ControllerInv /\ mgr \in ControllerType
      /\ budget \in [rounds : Nat, plans : Nat, commands : Nat, breaks : Nat]
  BY DEF ManagerInv, RoundTyping
<1>2. /\ prepared /\ mgr.ready /\ ~mgr.running /\ prepared' = FALSE
      /\ UNCHANGED <<link, toMgr, node, budget>>
      /\ \/ UNCHANGED <<mgr, toNode>>
         \/ /\ Broadcast(<<"Start">>)
            /\ mgr' = [mgr EXCEPT !.got = {}, !.running = TRUE, !.paused = FALSE]
         \/ Broadcast(<<"Start", "Stop">>) /\ mgr' = [mgr EXCEPT !.got = {}]
  BY DEF StartRound, StartEnabled
<1>3. mgr.round # NoRound /\ mgr.got = {}
  BY <1>1, <1>2 DEF ControllerInv
<1>4. CASE UNCHANGED <<mgr, toNode>>
  <2>1. EditInputs
    BY <1>2, <1>4 DEF EditInputs
  <2> QED
    BY <2>1, EditInputsSound
<1>5. CASE /\ Broadcast(<<"Start">>)
           /\ mgr' = [mgr EXCEPT !.got = {}, !.running = TRUE, !.paused = FALSE]
  <2>1. mgr' \in ControllerType /\ SamePreparation(mgr, mgr')
    BY <1>1, <1>3, <1>5, FlagTypes
  <2>2. <<"Start">> \in Broadcasted
    BY DEF Broadcasted
  <2> QED
    BY <1>1, <1>2, <1>3, <1>5, <2>1, <2>2, BroadcastSound
<1>6. CASE Broadcast(<<"Start", "Stop">>) /\ mgr' = [mgr EXCEPT !.got = {}]
  <2>1. mgr' \in ControllerType /\ SamePreparation(mgr, mgr')
    BY <1>1, <1>3, <1>6, FlagTypes
  <2>2. <<"Start", "Stop">> \in Broadcasted
    BY DEF Broadcasted
  <2> QED
    BY <1>1, <1>2, <1>3, <1>6, <2>1, <2>2, BroadcastSound
<1> QED
  BY <1>2, <1>4, <1>5, <1>6

(* Pause, resume and stop of a running round.                              *)
LEMMA CommandSound ==
    ASSUME ManagerInv, mgr.running, budget.commands > 0,
           NEW cmds \in {<<"Pause">>, <<"Resume">>, <<"Stop">>}, Broadcast(cmds),
           budget' = [budget EXCEPT !.commands = @ - 1],
           UNCHANGED <<prepared, link, toMgr, node>>,
           \/ mgr' = mgr \/ mgr' = [mgr EXCEPT !.running = FALSE, !.paused = FALSE]
           \/ \E a \in BOOLEAN : mgr' = [mgr EXCEPT !.paused = a]
    PROVE  ManagerInv'
<1>1. /\ RoundTyping /\ ControllerInv /\ mgr \in ControllerType
      /\ budget \in [rounds : Nat, plans : Nat, commands : Nat, breaks : Nat]
  BY DEF ManagerInv, RoundTyping
<1>2. mgr.round # NoRound /\ ~prepared /\ prepared' = FALSE
  BY <1>1 DEF ControllerInv, RoundTyping
<1>3. /\ budget' \in [rounds : Nat, plans : Nat, commands : Nat, breaks : Nat]
      /\ budget'.rounds = budget.rounds /\ budget'.plans = budget.plans
  <2>1. budget.commands - 1 \in Nat
    BY <1>1
  <2> QED
    BY <1>1, <2>1
<1>4. mgr' \in ControllerType /\ SamePreparation(mgr, mgr')
  BY <1>1, FlagTypes
<1>5. cmds \in Broadcasted /\ cmds \notin {<<"Start">>, <<"Start", "Stop">>}
  <2>1. cmds[1] # "Start"
    OBVIOUS
  <2> QED
    BY <2>1 DEF Broadcasted
<1> QED
  BY <1>2, <1>3, <1>4, <1>5, BroadcastSound

(* What the operator does.                                                 *)
LEMMA OperatorSound == ManagerInv /\ Operator => ManagerInv'
<1> SUFFICES ASSUME ManagerInv, Operator PROVE ManagerInv'
  OBVIOUS
<1>1. ASSUME NEW S \in SenderChoices, PrepareRound(S) PROVE ManagerInv'
  BY <1>1, PrepareRoundSound
<1>2. CASE EditInputs
  BY <1>2, EditInputsSound
<1>3. ASSUME NEW s \in Endpoints, ConfigureFaultPlan(s) PROVE ManagerInv'
  BY <1>3, ConfigureFaultPlanSound
<1>4. CASE StartRound
  BY <1>4, StartRoundSound
<1>5. CASE PauseRound
  <2>1. AllReached \in BOOLEAN
    BY DEF AllReached
  <2> QED
    BY <1>5, <2>1, CommandSound DEF PauseRound
<1>6. CASE ResumeRound
  <2>1. (~AllReached) \in BOOLEAN
    BY DEF AllReached
  <2> QED
    BY <1>6, <2>1, CommandSound DEF ResumeRound
<1>7. CASE StopRound
  <2>1. mgr' = mgr \/ mgr' = [mgr EXCEPT !.running = FALSE, !.paused = FALSE]
    BY <1>7 DEF StopRound
  <2> QED
    BY <1>7, <2>1, CommandSound DEF StopRound
<1> QED
  BY <1>1, <1>2, <1>3, <1>4, <1>5, <1>6, <1>7 DEF Operator

(* At first nothing is prepared and nothing under way.                     *)
LEMMA ManagerInvInit == Init => ManagerInv
<1> SUFFICES ASSUME Init PROVE ManagerInv
  OBVIOUS
<1>1. /\ mgr \in ControllerType /\ mgr.round = NoRound /\ mgr.parts = {} /\ mgr.senders = {}
      /\ mgr.pend = {} /\ ~mgr.ready /\ mgr.planned = NoPlan /\ mgr.pendPlan = NoPlan
      /\ ~mgr.planReady /\ mgr.got = {} /\ mgr.drained = {} /\ ~mgr.running
  BY DEF Init, Blank, ControllerType, NoRound, NoPlan
<1>2. RoundTyping
  BY <1>1, NodesAssumption, RangeEmpty DEF Init, RoundTyping, ParticipantType, NoPlan, NoRound
<1>3. ControllerInv
  BY <1>1 DEF Init, ControllerInv
<1>4. AllAccounted /\ PlanInForce
  BY <1>1 DEF AllAccounted, PlanInForce, Requests, SenderRequests, ReceiverRequests, MappingRequests
<1>5. ASSUME NEW n \in Endpoints
      PROVE  ParticipantInv(n)
  <2>1. /\ toNode[n] = <<>> /\ toMgr[n] = <<>> /\ Range(toNode[n]) = {} /\ Range(toMgr[n]) = {}
        /\ node[n].owes = {} /\ node[n].held = {} /\ node[n].plan = NoPlan
        /\ node[n].drain = NoRound /\ node[n].acked = NoRound
    BY RangeEmpty DEF Init
  <2>2. NumberInv(n) /\ Ordered(toNode[n]) /\ HeldInv(n) /\ PlanInv(n)
    BY <2>1 DEF NumberInv, Ordered, HeldInv, PlanInv
  <2>3. StartInv(n) /\ ResultInv(n) /\ DrainInv(n)
    BY <1>1, <2>1 DEF StartInv, ResultInv, DrainInv
  <2> QED
    BY <2>2, <2>3 DEF ParticipantInv
<1> QED
  BY <1>2, <1>3, <1>4, <1>5 DEF ManagerInv

(***************************************************************************)
(* The inductive invariant of the Manager and its participants: what it    *)
(* remembers, what is under way on each link and what each participant     *)
(* holds and owes agree on the round and the plan they belong to.          *)
(***************************************************************************)
THEOREM ManagerInvariant == Spec => []ManagerInv
<1>1. ManagerInv /\ [Next]_vars => ManagerInv'
  <2> SUFFICES ASSUME ManagerInv, [Next]_vars PROVE ManagerInv'
    OBVIOUS
  <2>1. CASE Operator
    BY <2>1, OperatorSound
  <2>2. ASSUME NEW n \in Endpoints,
               \/ ManagerReceives(n) \/ NodeReceives(n) \/ NodeReports(n)
               \/ NodeDrains(n) \/ LinkBreaks(n) \/ LinkRestored(n)
        PROVE  ManagerInv'
    BY <2>2, ManagerReceivesSound, NodeReceivesSound, NodeReportsSound, NodeDrainsSound,
       LinkBreaksSound, LinkRestoredSound
  <2>3. CASE UNCHANGED vars
    BY <2>3, InvStutter
  <2> QED
    BY <2>1, <2>2, <2>3 DEF Next
<1> QED
  BY <1>1, ManagerInvInit, PTL DEF Spec

-----------------------------------------------------------------------------
(* A round that runs has participants, and results to wait for.            *)
LEMMA RunningIsWhole == ManagerInv => RunningRoundIsWhole
<1> SUFFICES ASSUME ManagerInv, mgr.running
             PROVE  mgr.parts # {} /\ mgr.expected > 0
  BY DEF RunningRoundIsWhole
<1>1. ControllerInv /\ mgr \in ControllerType
  BY DEF ManagerInv, RoundTyping
<1>2. /\ mgr.parts \in SUBSET Endpoints /\ mgr.senders \in SUBSET Endpoints
      /\ mgr.senders # {} /\ mgr.senders \subseteq mgr.parts
      /\ mgr.expected = Cardinality(AllKeys(mgr.parts, mgr.senders))
  BY <1>1 DEF ControllerInv, ControllerType, ExpectedResults, AllKeys
<1>3. PICK s \in mgr.senders : s \in mgr.parts /\ s \in Endpoints
  BY <1>2
<1>4. AllKeys(mgr.parts, mgr.senders) # {}
  BY <1>2, <1>3, KeyTypes DEF AllKeys
<1>5. IsFiniteSet(AllKeys(mgr.parts, mgr.senders))
  BY <1>2, KeysFinite
<1>6. Cardinality(AllKeys(mgr.parts, mgr.senders)) # 0
  BY <1>4, <1>5, FS_EmptySet
<1>7. Cardinality(AllKeys(mgr.parts, mgr.senders)) \in Nat
  BY <1>5, FS_CardinalityType
<1> QED
  BY <1>2, <1>3, <1>6, <1>7

(* A preparation that is ready has no request open and none refused.       *)
LEMMA ReadyIsHeld == ManagerInv => ReadyMeansHeld
BY DEF ManagerInv, ControllerInv, AllAccounted, ReadyMeansHeld

(* Only the Manager's reading of an answer, or a command to stop, leaves a *)
(* round, and only the start button enters one.                            *)
LEMMA RunningKept ==
    ASSUME ManagerInv, [Next]_vars
    PROVE  \/ mgr'.running = mgr.running
           \/ StartRound /\ ~mgr.running
           \/ StopRound
           \/ mgr.running /\ \E n \in Endpoints : ManagerReceives(n)
<1>1. mgr \in ControllerType
  BY DEF ManagerInv, RoundTyping
<1>2. ASSUME NEW S \in SenderChoices, PrepareRound(S)
      PROVE  mgr'.running = mgr.running
  <2>1. CASE mgr' = Blank(mgr)
    BY <2>1 DEF Blank
  <2>2. CASE PrepareDone(budget.rounds, Connected, S)
    <3> DEFINE reqs == Requests(budget.rounds, Connected, S)
               e == ExpectedResults(Connected, S)
    <3>1. mgr' = [Blank(mgr) EXCEPT !.round = budget.rounds, !.parts = Connected,
                                    !.senders = S, !.pend = reqs, !.expected = e]
      BY <2>2 DEF PrepareDone
    <3> HIDE DEF reqs, e
    <3> QED
      BY <3>1 DEF Blank
  <2> QED
    BY <1>2, <2>1, <2>2 DEF PrepareRound, PrepareFails
<1>3. CASE EditInputs
  BY <1>3 DEF EditInputs
<1>4. ASSUME NEW s \in Endpoints, ConfigureFaultPlan(s)
      PROVE  mgr'.running = mgr.running
  BY <1>1, <1>4 DEF ConfigureFaultPlan, ControllerType
<1>5. CASE StartRound
  BY <1>5 DEF StartRound, StartEnabled
<1>6. CASE PauseRound \/ ResumeRound
  BY <1>1, <1>6 DEF PauseRound, ResumeRound, ControllerType
<1>7. ASSUME NEW n \in Endpoints, ManagerReceives(n), ~mgr.running
      PROVE  mgr'.running = mgr.running
  <2> DEFINE m == Head(toMgr[n])
  <2>1. m \in ToMgrType /\ mgr' = Handled(n, m)
    BY <1>7, InvFacts, RangeTail DEF ManagerReceives
  <2>2. m.type \in {"Answer", "PlanAnswer", "Result", "Drained"}
    BY <2>1 DEF ToMgrType, ReportType
  <2> HIDE DEF m
  <2>3. CASE m.type = "Answer"
    BY <1>1, <2>1, <2>3 DEF Handled, OnAnswer, ControllerType
  <2>4. CASE m.type = "PlanAnswer"
    BY <1>1, <2>1, <2>4 DEF Handled, OnPlanAnswer, ControllerType
  <2>5. CASE m.type = "Result"
    BY <1>1, <1>7, <2>1, <2>5 DEF Handled, OnResult, Complete, ControllerType
  <2>6. CASE m.type = "Drained"
    BY <1>1, <1>7, <2>1, <2>6 DEF Handled, OnDrained, Complete, ControllerType
  <2> QED
    BY <2>2, <2>3, <2>4, <2>5, <2>6
<1>8. ASSUME NEW n \in Endpoints, LinkBreaks(n)
      PROVE  mgr'.running = mgr.running
  BY <1>1, <1>8 DEF LinkBreaks, Cancelled, ControllerType
<1>9. ASSUME NEW n \in Endpoints,
             NodeReceives(n) \/ NodeReports(n) \/ NodeDrains(n) \/ LinkRestored(n)
      PROVE  mgr'.running = mgr.running
  BY <1>9 DEF NodeReceives, NodeReports, NodeDrains, LinkRestored
<1>10. CASE UNCHANGED vars
  BY <1>10 DEF vars
<1>11. ASSUME NEW n \in Endpoints, ManagerReceives(n), mgr.running
       PROVE  mgr.running /\ \E x \in Endpoints : ManagerReceives(x)
  BY <1>11
<1>12. CASE Operator
  BY <1>2, <1>3, <1>4, <1>5, <1>6, <1>12 DEF Operator, StartRound, StartEnabled
<1>13. ASSUME NEW n \in Endpoints,
              \/ ManagerReceives(n) \/ NodeReceives(n) \/ NodeReports(n)
              \/ NodeDrains(n) \/ LinkBreaks(n) \/ LinkRestored(n)
       PROVE  \/ mgr'.running = mgr.running
              \/ mgr.running /\ \E x \in Endpoints : ManagerReceives(x)
  <2>1. mgr.running \in BOOLEAN
    BY <1>1 DEF ControllerType
  <2> QED
    BY <1>7, <1>8, <1>9, <1>11, <1>13, <2>1
<1> QED
  BY <1>10, <1>12, <1>13 DEF Next

(***************************************************************************)
(* A round starts only on a preparation its participants hold, and with    *)
(* the last fault plan of that preparation in force at some Sender         *)
(* (bStartRound after bPrepareRound and bConfigureFaultPlan).              *)
(***************************************************************************)
THEOREM StartsOnPlan == Spec => StartsAsPlanned
<1>1. ManagerInv /\ [Next]_vars =>
          [Starts => /\ ReadyMeansHeld
                     /\ mgr.planned # NoPlan =>
                            \E s \in mgr.senders : node[s].plan = mgr.planned]_vars
  <2> SUFFICES ASSUME ManagerInv, [Next]_vars, Starts
               PROVE  /\ ReadyMeansHeld
                      /\ mgr.planned # NoPlan =>
                             \E s \in mgr.senders : node[s].plan = mgr.planned
    OBVIOUS
  <2>1. ~mgr.running /\ mgr'.running /\ mgr \in ControllerType
    BY DEF Starts, ManagerInv, RoundTyping
  <2>2. StartRound
    BY <2>1, RunningKept DEF StopRound
  <2>3. StartAllowed
    BY <2>1, <2>2 DEF StartRound
  <2>4. mgr.planned # NoPlan => mgr.planReady
    BY <2>3 DEF StartAllowed, FaultPlanSettled
  <2> QED
    BY <2>4, ReadyIsHeld DEF ManagerInv, PlanInForce
<1> QED
  BY <1>1, ManagerInvariant, PTL DEF Spec, StartsAsPlanned

(* What completeRoundIfReady counts: all the results, and all the drains.  *)
LEMMA AllCounted ==
    ASSUME ManagerInv', mgr'.running = FALSE, NEW c \in ControllerType,
           mgr' = Complete(c), c.running
    PROVE  mgr'.got = AllKeys(mgr'.parts, mgr'.senders) /\ mgr'.drained = mgr'.parts
<1>1. /\ Cardinality(c.got) >= c.expected /\ Cardinality(c.drained) >= Cardinality(c.parts)
  BY DEF Complete
<1>2. /\ mgr'.round = c.round /\ mgr'.parts = c.parts /\ mgr'.senders = c.senders
      /\ mgr'.got = c.got /\ mgr'.drained = c.drained /\ mgr'.expected = c.expected
  BY CompleteTypes
<1>3. ControllerInv'
  BY DEF ManagerInv
<1>4. c.parts \in SUBSET Endpoints /\ c.senders \in SUBSET Endpoints
  BY DEF ControllerType
<1>5. /\ IsFiniteSet(AllKeys(c.parts, c.senders)) /\ IsFiniteSet(c.parts)
  BY <1>4, KeysFinite, NodesAssumption, FS_Subset
<1>6. c.got \subseteq AllKeys(c.parts, c.senders) /\ c.drained \subseteq c.parts
  BY <1>2, <1>3 DEF ControllerInv
<1>7. c.drained = c.parts
  BY <1>1, <1>5, <1>6, FS_Subset, FS_CardinalityType
<1>8. c.got = AllKeys(c.parts, c.senders)
  <2>1. CASE c.round # NoRound
    <3>1. c.expected = Cardinality(AllKeys(c.parts, c.senders))
      BY <1>2, <1>3, <2>1 DEF ControllerInv, ExpectedResults, AllKeys
    <3> QED
      BY <1>1, <1>5, <1>6, <3>1, FS_Subset, FS_CardinalityType
  <2>2. CASE c.round = NoRound
    <3>1. c.parts = {}
      BY <1>2, <1>3, <2>2 DEF ControllerInv
    <3> QED
      BY <1>6, <3>1 DEF AllKeys
  <2> QED
    BY <2>1, <2>2
<1> QED
  BY <1>2, <1>7, <1>8

(***************************************************************************)
(* The Manager leaves a round by itself only when every participant has    *)
(* reported all it owes and confirmed its drain in this very round, while  *)
(* the round still has its participants (completeRoundIfReady).            *)
(***************************************************************************)
THEOREM CompletionEarned == Spec => CompletionIsEarned
<1>1. ASSUME ManagerInv, [Next]_vars, Completes
      PROVE  /\ RunningRoundIsWhole
             /\ \A n \in mgr.parts : node[n].owes = {} /\ node[n].acked = mgr.round
  <2>1. mgr.running /\ ~mgr'.running /\ toNode' = toNode /\ mgr \in ControllerType
    BY <1>1 DEF Completes, ManagerInv, RoundTyping
  <2>2. mgr.round # NoRound /\ RunningRoundIsWhole
    BY <1>1, <2>1, RunningIsWhole DEF ManagerInv, ControllerInv
  <2>3. ~StopRound
    <3> SUFFICES ASSUME StopRound PROVE FALSE
      OBVIOUS
    <3>1. Broadcast(<<"Stop">>) /\ AllReached
      BY <2>1 DEF StopRound
    <3>2. PICK n \in mgr.parts : n \in Endpoints /\ link[n]
      BY <2>1, <2>2, <3>1 DEF AllReached, RunningRoundIsWhole, ControllerType
    <3>3. toNode[n] = toNode[n] \o Orders(<<"Stop">>, mgr.round, mgr.senders)
      BY <2>1, <3>1, <3>2 DEF Broadcast, Orders
    <3>4. /\ Orders(<<"Stop">>, mgr.round, mgr.senders) \in Seq(ToNodeType)
          /\ Len(Orders(<<"Stop">>, mgr.round, mgr.senders)) = 1
      <4>1. <<"Stop">> \in Broadcasted /\ mgr.round \in Nat \ {0} /\ mgr.senders \in SUBSET Endpoints
        BY <2>1, <2>2 DEF Broadcasted, ControllerType, NoRound
      <4>2. DOMAIN Orders(<<"Stop">>, mgr.round, mgr.senders) = 1 .. 1
        BY DEF Orders
      <4>3. Orders(<<"Stop">>, mgr.round, mgr.senders) \in Seq(ToNodeType)
        BY <4>1, BroadcastTypes
      <4> QED
        BY <4>2, <4>3
    <3>5. toNode[n] \in Seq(ToNodeType)
      BY <1>1, <3>2, InvFacts
    <3> DEFINE stop == Orders(<<"Stop">>, mgr.round, mgr.senders)
    <3> HIDE DEF stop
    <3>6. /\ Len(toNode[n] \o stop) = Len(toNode[n]) + Len(stop)
          /\ Len(toNode[n]) \in Nat /\ Len(stop) = 1
      BY <3>4, <3>5, ConcatProperties, LenProperties DEF stop
    <3>7. toNode[n] \o stop = toNode[n]
      BY <3>3 DEF stop
    <3> QED
      BY <3>6, <3>7
  <2>4. PICK n \in Endpoints : ManagerReceives(n)
    BY <1>1, <2>1, <2>3, RunningKept DEF StartRound, StartEnabled
  <2>5. ManagerInv'
    BY <1>1, <2>4, ManagerReceivesSound
  <2>6. /\ mgr'.round = mgr.round /\ mgr'.parts = mgr.parts /\ mgr'.senders = mgr.senders
        /\ mgr'.got = AllKeys(mgr'.parts, mgr'.senders) /\ mgr'.drained = mgr'.parts
        /\ node' = node
    <3> DEFINE m == Head(toMgr[n])
    <3>1. m \in ToMgrType /\ mgr' = Handled(n, m) /\ node' = node
      BY <1>1, <2>4, InvFacts, RangeTail DEF ManagerReceives
    <3>2. m.type \in {"Answer", "PlanAnswer", "Result", "Drained"}
      BY <3>1 DEF ToMgrType, ReportType
    <3>3. mgr'.running \in BOOLEAN
      BY <2>5 DEF ManagerInv, RoundTyping, ControllerType
    <3> HIDE DEF m
    <3>4. m.type \notin {"Answer", "PlanAnswer"}
      BY <2>1, <3>1 DEF Handled, OnAnswer, OnPlanAnswer, ControllerType
    <3>5. PICK c \in ControllerType :
             /\ mgr' = Complete(c) /\ c.running
             /\ c.round = mgr.round /\ c.parts = mgr.parts /\ c.senders = mgr.senders
      <4>1. CASE m.type = "Result"
        <5>1. m.key \in KeyType
          BY <3>1, <4>1 DEF ToMgrType, ReportType
        <5>2. mgr' = Complete([mgr EXCEPT !.got = @ \cup {m.key}])
          BY <2>1, <3>1, <4>1 DEF Handled, OnResult
        <5>3. [mgr EXCEPT !.got = @ \cup {m.key}] \in ControllerType
          BY <2>1, <5>1 DEF ControllerType
        <5> QED
          BY <2>1, <5>2, <5>3 DEF ControllerType
      <4>2. CASE m.type = "Drained"
        <5>1. mgr' = Complete([mgr EXCEPT !.drained = @ \cup {n}])
          BY <2>1, <3>1, <4>2 DEF Handled, OnDrained
        <5>2. [mgr EXCEPT !.drained = @ \cup {n}] \in ControllerType
          BY <2>1 DEF ControllerType
        <5> QED
          BY <2>1, <5>1, <5>2 DEF ControllerType
      <4> QED
        BY <3>2, <3>4, <4>1, <4>2
    <3>6. mgr'.round = mgr.round /\ mgr'.parts = mgr.parts /\ mgr'.senders = mgr.senders
      BY <3>5, CompleteTypes
    <3> QED
      BY <2>1, <2>5, <3>1, <3>3, <3>5, <3>6, AllCounted
  <2>7. ASSUME NEW x \in mgr.parts
        PROVE  node[x].owes = {} /\ node[x].acked = mgr.round
    <3>1. x \in Endpoints /\ mgr.senders \in SUBSET Endpoints
      BY <2>1 DEF ControllerType
    <3>2. ParticipantInv(x)' /\ node'[x] = node[x]
      BY <2>5, <2>6, <3>1 DEF ManagerInv
    <3>3. node[x].acked = mgr.round
      BY <2>2, <2>6, <3>2 DEF ParticipantInv, DrainInv
    <3>4. Begun(x)'
      BY <2>6, <3>2, <3>3 DEF Begun
    <3>5. ASSUME NEW q \in node[x].owes
          PROVE  FALSE
      <4>1. q.round = mgr.round
        BY <2>2, <2>6, <3>2, <3>4, <3>5 DEF ParticipantInv, StartInv
      <4>2. q.key \in ResultsOf(x, mgr.senders) /\ ~Reported(x, q.key)'
        BY <2>6, <3>2, <3>5, <4>1 DEF ParticipantInv, ResultInv
      <4>3. q.key \in mgr'.got
        BY <2>6, <4>2 DEF AllKeys
      <4> QED
        BY <4>2, <4>3 DEF Reported
    <3> QED
      BY <3>3, <3>5
  <2> QED
    BY <2>2, <2>7
<1>2. ManagerInv /\ [Next]_vars =>
          [Completes => /\ RunningRoundIsWhole
                        /\ \A n \in mgr.parts :
                              node[n].owes = {} /\ node[n].acked = mgr.round]_vars
  BY <1>1
<1> QED
  BY <1>2, ManagerInvariant, PTL DEF Spec, CompletionIsEarned

(***************************************************************************)
(* What the two theorems above say of a step holds of the states as well:  *)
(* a ready preparation is held, and a round that runs is whole.            *)
(***************************************************************************)
THEOREM RoundIsWhole == Spec => [](ReadyMeansHeld /\ RunningRoundIsWhole)
<1>1. ManagerInv => ReadyMeansHeld /\ RunningRoundIsWhole
  BY ReadyIsHeld, RunningIsWhole
<1> QED
  BY <1>1, ManagerInvariant, PTL
=============================================================================
