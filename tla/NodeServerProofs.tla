-------------------------- MODULE NodeServerProofs --------------------------
(***************************************************************************)
(* The management server of a node, for every set of clients, every number *)
(* of requests and every size of its queues: the answers on a connection   *)
(* come in the order of the requests, nothing outlives stop, the limits on *)
(* clients and queued messages hold, and a drain that is acknowledged is   *)
(* written.                                                                *)
(*                                                                         *)
(* That the answers of a connection are 1, 2, 3, ... is not inductive:     *)
(* between a request and its answer lie the inbox of the connection, the   *)
(* thread that serves it, the queue of the writer and the message the      *)
(* writer holds. Chain lines them up. There is a number h such that the    *)
(* requests up to h have been handed over: those already answered, the one *)
(* being written, and in the queue exactly the rest up to h. The request   *)
(* after h may be in the hands of the thread, and the inbox holds exactly  *)
(* the ones behind it. FramesRise and AnswersRise say that inbox and queue *)
(* are sorted, so that the next one taken is the next one due. While the   *)
(* server stops, the queue may be cleared, which breaks the chain; since   *)
(* nothing is then written to a Monitor, LiveInv asks for it only of a     *)
(* client that is InStep.                                                  *)
(*                                                                         *)
(* For the drain, Outstanding is the set of rounds with telemetry anywhere *)
(* between a runtime and the socket. It may gain a round only when that    *)
(* round begins (OutstandingStep), so the drainer, once it has seen that   *)
(* nothing of its round is left, may act on what it saw: DrainInv says     *)
(* what each of its places has established. The proof needs a node with a  *)
(* single role. With two, the acknowledgement may fall between the cleared *)
(* flag of the receiver and its metrics, and the property fails.           *)
(***************************************************************************)
EXTENDS MCNodeServer, FiniteSetTheorems, SequenceTheorems, WellFoundedInduction, TLAPS

(* What a client sends: a hello, a message that cannot be read, or its     *)
(* n-th request.                                                           *)
FrameType == [kind : {"hello", "junk", "ask"}, n : Nat]
(* Where the thread of a connection is, and with which request.            *)
ThreadType == [at : {"none", "reads", "answers", "ended"}, n : Nat]
(* An answer on its way to a client.                                       *)
AnswerType == [client : Clients, n : Nat]
(* Where the writer or the acceptor is, with whom and with what.           *)
PostType(ats) == [at : ats, client : Clients \cup {NoClient}, n : Nat]

(* The types of the variables of the connections.                          *)
ConnectionTypes ==
    /\ running \in BOOLEAN /\ listening \in BOOLEAN
    /\ socket \in [Clients -> {"none", "open", "closed"}]
    /\ peer \in [Clients -> {"away", "here", "deaf", "left"}]
    /\ role \in [Clients -> {"none", "Manager", "Monitor"}]
    /\ thread \in [Clients -> ThreadType]
    /\ inbox \in [Clients -> Seq(FrameType)]
    /\ asked \in [Clients -> Nat] /\ replies \in [Clients -> Seq(Nat)]
    /\ queue \in Seq(AnswerType) /\ backlog \in Seq(Clients)
    /\ writer \in PostType({"waits", "writes", "ended"})
    /\ acceptor \in PostType({"waits", "adds", "ended"})
    /\ writer.at = "writes" => writer.client \in Clients
    /\ acceptor.at = "adds" => acceptor.client \in Clients

(* The requests in an inbox.                                               *)
AskedIn(s) == {s[i].n : i \in {j \in 1 .. Len(s) : s[j].kind = "ask"}}
(* An inbox is sorted.                                                     *)
FramesRise(s) == \A i, j \in 1 .. Len(s) : i < j => s[i].n < s[j].n

(* The answers to client c in a queue.                                     *)
OwedIn(q, c) == {q[i].n : i \in {j \in 1 .. Len(q) : q[j].client = c}}
(* The answers to client c are sorted in a queue.                          *)
AnswersRise(q, c) ==
    \A i, j \in 1 .. Len(q) : i < j /\ q[i].client = c /\ q[j].client = c => q[i].n < q[j].n

(* The thread of c has a request in its hands.                             *)
Answering(c) == thread[c].at = "answers"
(* The writer has an answer to c in its hands.                             *)
Writing(c) == writer.at = "writes" /\ writer.client = c
(* The number of answers c has got or is being sent.                       *)
Given(c) == Len(replies[c]) + (IF Writing(c) THEN 1 ELSE 0)
(* The number of requests that have left the inbox, when h were handed     *)
(* over.                                                                   *)
Taken(c, h) == h + (IF Answering(c) THEN 1 ELSE 0)

(* The requests of c up to h are handed over: answered, in the writer's    *)
(* hands or queued; the next may be in the thread's hands, and the others  *)
(* are in the inbox.                                                       *)
Chain(c, h) ==
    /\ Given(c) <= h /\ Taken(c, h) <= asked[c]
    /\ Answering(c) => thread[c].n = h + 1
    /\ AskedIn(inbox[c]) = Taken(c, h) + 1 .. asked[c]
    /\ OwedIn(queue, c) = Given(c) + 1 .. h

(* The queue to c cannot have been cleared.                                *)
InStep(c) == running \/ role[c] # "Monitor"

(* What holds of an open connection: the answer in hand is the next one,   *)
(* and as long as the client is in step its requests form a chain.         *)
LiveInv(c) ==
    /\ Writing(c) => writer.n = Len(replies[c]) + 1
    /\ Answering(c) /\ role[c] = "Manager" => thread[c].n = Len(replies[c]) + 1
    /\ InStep(c) => /\ FramesRise(inbox[c]) /\ AnswersRise(queue, c)
                    /\ \E h \in Nat : Chain(c, h)

(* A connection takes its role from its first message, and only Monitors   *)
(* are answered through the queue.                                         *)
FrontInv(c) ==
    /\ socket[c] = "none" => thread[c].at = "none" /\ role[c] = "none"
    /\ role[c] \in {"none", RoleOf[c]}
    /\ Answering(c) => role[c] # "none"
    /\ \A i \in 1 .. Len(inbox[c]) :
           inbox[c][i].kind # "ask" => i = 1 /\ role[c] = "none" /\ inbox[c][i].n = 0
    /\ Writing(c) => role[c] = "Monitor"
    /\ \A i \in 1 .. Len(queue) : queue[i].client = c => role[c] = "Monitor"

(* Who waits in the backlog or is being added is a client that has come,   *)
(* once, and has no connection yet.                                        *)
BacklogInv ==
    /\ acceptor.at = "adds" =>
           /\ socket[acceptor.client] = "none" /\ peer[acceptor.client] # "away"
           /\ \A i \in 1 .. Len(backlog) : backlog[i] # acceptor.client
    /\ \A i \in 1 .. Len(backlog) : socket[backlog[i]] = "none" /\ peer[backlog[i]] # "away"
    /\ \A i, j \in 1 .. Len(backlog) : i # j => backlog[i] # backlog[j]
    /\ \A c \in Clients : peer[c] = "away" => socket[c] = "none"

(* What stop has done when it has reached each of its places.              *)
StopInv ==
    /\ running = (stopper = "none")
    /\ acceptor.at = "ended" => acceptor = Connections!Ended
    /\ stopper \in {"threads", "done"} => acceptor = Connections!Ended /\ Connections!Open = {}
    /\ stopper = "done" => Connections!ThreadsGone

(* The inductive invariant of the connections.                             *)
ConnectionInv ==
    /\ ConnectionTypes /\ BacklogInv /\ StopInv
    /\ \A c \in Clients : FrontInv(c)
    /\ \A c \in Clients : socket[c] # "closed" => LiveInv(c)
    /\ Connections!AnswersInOrder

(* No more connections than the limit, no more queued answers than the     *)
(* queue may hold.                                                         *)
LimitInv ==
    /\ limit \in Nat /\ IsFiniteSet(Connections!Open)
    /\ Cardinality(Connections!Open) <= limit
    /\ Len(queue) <= QueueLimit
-----------------------------------------------------------------------------
(* An answer to d that is put at the end of the queue leaves those to the  *)
(* others as they were, and those to d sorted if it is larger than all of  *)
(* them.                                                                   *)
LEMMA QueueAppended ==
    ASSUME NEW q \in Seq(AnswerType), NEW d \in Clients, NEW m \in Nat
    PROVE  LET r == Append(q, [client |-> d, n |-> m])
           IN  /\ Len(r) = Len(q) + 1
               /\ \A i \in 1 .. Len(r) :
                      (r[i] = q[i] /\ i \in 1 .. Len(q)) \/ r[i].client = d
               /\ \A c \in Clients \ {d} :
                      /\ OwedIn(r, c) = OwedIn(q, c)
                      /\ AnswersRise(q, c) => AnswersRise(r, c)
               /\ OwedIn(r, d) = OwedIn(q, d) \cup {m}
               /\ AnswersRise(q, d) /\ (\A x \in OwedIn(q, d) : x < m) => AnswersRise(r, d)
<1> DEFINE L == Len(q)
           last == [client |-> d, n |-> m]
           r == Append(q, [client |-> d, n |-> m])
<1>0. last \in AnswerType /\ last.client = d /\ last.n = m
  BY DEF AnswerType
<1> HIDE DEF last
<1>1. /\ L \in Nat /\ Len(r) = L + 1
      /\ \A i \in 1 .. L : r[i] = q[i] /\ q[i] \in AnswerType
      /\ r[L + 1] = last
  BY <1>0 DEF last
<1> HIDE DEF r
<1>2. \A i \in 1 .. L + 1 : i \in 1 .. L \/ i = L + 1
  BY <1>1
<1>3. \A c : AnswersRise(q, c) = (\A i, j \in 1 .. L :
        i < j /\ q[i].client = c /\ q[j].client = c => q[i].n < q[j].n)
  BY DEF AnswersRise
<1>4. \A c : AnswersRise(r, c) = (\A i, j \in 1 .. L + 1 :
        i < j /\ r[i].client = c /\ r[j].client = c => r[i].n < r[j].n)
  BY <1>1 DEF AnswersRise
<1>5. \A c, x : x \in OwedIn(q, c) <=> \E i \in 1 .. L : q[i].client = c /\ x = q[i].n
  BY DEF OwedIn
<1>6. \A c, x : x \in OwedIn(r, c) <=> \E i \in 1 .. L + 1 : r[i].client = c /\ x = r[i].n
  BY <1>1 DEF OwedIn
<1> HIDE DEF L
<1>7. ASSUME NEW c \in Clients \ {d}
      PROVE  OwedIn(r, c) = OwedIn(q, c) /\ (AnswersRise(q, c) => AnswersRise(r, c))
  <2>0. r[L + 1].client # c
    BY <1>0, <1>1
  <2>1. \A i \in 1 .. L + 1 : r[i].client = c => i \in 1 .. L
    BY <1>2, <2>0
  <2>2. \A x : x \in OwedIn(r, c) <=> x \in OwedIn(q, c)
    BY <1>1, <1>2, <1>5, <1>6, <2>1
  <2>3. ASSUME AnswersRise(q, c), NEW i \in 1 .. L + 1, NEW j \in 1 .. L + 1,
               i < j, r[i].client = c, r[j].client = c
        PROVE  r[i].n < r[j].n
    <3>1. i \in 1 .. L /\ j \in 1 .. L
      BY <2>1, <2>3
    <3>2. r[i] = q[i] /\ r[j] = q[j]
      BY <1>1, <3>1
    <3> QED
      BY <1>3, <2>3, <3>1, <3>2
  <2> QED
    BY <1>4, <2>2, <2>3
<1>8. \A x : x \in OwedIn(r, d) <=> x \in OwedIn(q, d) \cup {m}
  BY <1>0, <1>1, <1>2, <1>5, <1>6
<1>9. AnswersRise(q, d) /\ (\A x \in OwedIn(q, d) : x < m) => AnswersRise(r, d)
  <2> SUFFICES ASSUME AnswersRise(q, d), \A x \in OwedIn(q, d) : x < m,
                      NEW i \in 1 .. L + 1, NEW j \in 1 .. L + 1,
                      i < j, r[i].client = d, r[j].client = d
               PROVE  r[i].n < r[j].n
    BY <1>4
  <2>1. i \in 1 .. L
    BY <1>1
  <2>2. CASE j \in 1 .. L
    BY <1>1, <1>3, <2>1, <2>2
  <2>3. CASE j = L + 1
    BY <1>0, <1>1, <1>5, <2>1, <2>3
  <2> QED
    BY <1>2, <2>2, <2>3
<1>10. /\ Len(r) = Len(q) + 1
       /\ \A i \in 1 .. Len(r) : (r[i] = q[i] /\ i \in 1 .. Len(q)) \/ r[i].client = d
  BY <1>0, <1>1, <1>2 DEF L
<1>11. OwedIn(r, d) = OwedIn(q, d) \cup {m}
  BY <1>8
<1> QED
  BY <1>7, <1>9, <1>10, <1>11 DEF r

(* The answer taken from the queue is the smallest one to its client.      *)
LEMMA QueueTaken ==
    ASSUME NEW q \in Seq(AnswerType), q # <<>>, NEW r, r = Tail(q)
    PROVE  /\ Head(q) \in AnswerType
           /\ \A c \in Clients : AnswersRise(q, c) => AnswersRise(r, c)
           /\ \A c \in Clients : c # Head(q).client => OwedIn(r, c) = OwedIn(q, c)
           /\ \A c \in Clients : c = Head(q).client /\ AnswersRise(q, c) =>
                  /\ OwedIn(r, c) = OwedIn(q, c) \ {Head(q).n}
                  /\ Head(q).n \in OwedIn(q, c)
                  /\ \A x \in OwedIn(q, c) : Head(q).n <= x
<1> DEFINE L == Len(q)
<1>1. /\ L \in Nat \ {0} /\ Len(r) = L - 1
      /\ \A i \in 1 .. L : q[i] \in AnswerType
      /\ \A i \in 1 .. L - 1 : r[i] = q[i + 1]
      /\ Head(q) = q[1]
  OBVIOUS
<1>2. \A i \in 1 .. L : i # 1 => i - 1 \in 1 .. L - 1 /\ r[i - 1] = q[i]
  BY <1>1
<1>3. \A c : AnswersRise(q, c) = (\A i, j \in 1 .. L :
        i < j /\ q[i].client = c /\ q[j].client = c => q[i].n < q[j].n)
  BY DEF AnswersRise
<1>4. \A c : AnswersRise(r, c) = (\A i, j \in 1 .. L - 1 :
        i < j /\ r[i].client = c /\ r[j].client = c => r[i].n < r[j].n)
  BY <1>1 DEF AnswersRise
<1>5. \A c, x : x \in OwedIn(q, c) <=> \E i \in 1 .. L : q[i].client = c /\ x = q[i].n
  BY DEF OwedIn
<1>6. \A c, x : x \in OwedIn(r, c) <=> \E i \in 1 .. L - 1 : r[i].client = c /\ x = r[i].n
  BY <1>1 DEF OwedIn
<1> HIDE DEF L
<1>7. ASSUME NEW c \in Clients, AnswersRise(q, c) PROVE AnswersRise(r, c)
  <2>1. ASSUME NEW i \in 1 .. L - 1, NEW j \in 1 .. L - 1,
               i < j, r[i].client = c, r[j].client = c
        PROVE  r[i].n < r[j].n
    <3>1. /\ i + 1 \in 1 .. L /\ j + 1 \in 1 .. L /\ i + 1 < j + 1
          /\ r[i] = q[i + 1] /\ r[j] = q[j + 1]
      BY <1>1, <2>1
    <3>2. q[i + 1].client = c /\ q[j + 1].client = c
      BY <2>1, <3>1
    <3>3. q[i + 1].n < q[j + 1].n
      BY <1>3, <1>7, <3>1, <3>2
    <3> QED
      BY <3>1, <3>3
  <2> QED
    BY <1>4, <2>1
<1>8. \A i \in 1 .. L - 1 : i + 1 \in 1 .. L /\ i + 1 # 1
  BY <1>1
<1>9. ASSUME NEW c \in Clients, c # Head(q).client
      PROVE  OwedIn(r, c) = OwedIn(q, c)
  <2>1. \A x : x \in OwedIn(r, c) => x \in OwedIn(q, c)
    BY <1>1, <1>5, <1>6, <1>8
  <2>2. \A i \in 1 .. L : q[i].client = c => i - 1 \in 1 .. L - 1 /\ r[i - 1] = q[i]
    BY <1>1, <1>2, <1>9
  <2>3. \A x : x \in OwedIn(q, c) => x \in OwedIn(r, c)
    <3> SUFFICES ASSUME NEW x, x \in OwedIn(q, c)
                 PROVE  x \in OwedIn(r, c)
      OBVIOUS
    <3>1. PICK i \in 1 .. L : q[i].client = c /\ x = q[i].n
      BY <1>5
    <3>2. i - 1 \in 1 .. L - 1 /\ r[i - 1] = q[i]
      BY <2>2, <3>1
    <3> QED
      BY <1>6, <3>1, <3>2
  <2> QED
    BY <2>1, <2>3
<1>10. ASSUME NEW c \in Clients, c = Head(q).client, AnswersRise(q, c)
       PROVE  /\ OwedIn(r, c) = OwedIn(q, c) \ {Head(q).n}
              /\ Head(q).n \in OwedIn(q, c)
              /\ \A x \in OwedIn(q, c) : Head(q).n <= x
  <2>0. 1 \in 1 .. L /\ q[1].n \in Nat
    BY <1>1 DEF AnswerType
  <2>1. Head(q).n \in OwedIn(q, c)
    BY <1>1, <1>5, <1>10, <2>0
  <2>2. \A i \in 1 .. L : i # 1 /\ q[i].client = c => q[1].n < q[i].n
    <3> SUFFICES ASSUME NEW i \in 1 .. L, i # 1, q[i].client = c
                 PROVE  q[1].n < q[i].n
      OBVIOUS
    <3>1. 1 < i /\ q[1].client = c
      BY <1>1, <1>10
    <3> QED
      BY <1>3, <1>10, <2>0, <3>1
  <2>3. \A x \in OwedIn(q, c) : Head(q).n <= x
    BY <1>1, <1>5, <2>0, <2>2 DEF AnswerType
  <2>4. \A x : x \in OwedIn(r, c) => x \in OwedIn(q, c) /\ x # Head(q).n
    <3> SUFFICES ASSUME NEW x, x \in OwedIn(r, c)
                 PROVE  x \in OwedIn(q, c) /\ x # Head(q).n
      OBVIOUS
    <3>0. PICK i \in 1 .. L - 1 : r[i].client = c /\ x = r[i].n
      BY <1>1, <1>6
    <3>1. i + 1 \in 1 .. L /\ i + 1 # 1 /\ r[i] = q[i + 1]
      BY <1>1, <1>8
    <3>2. q[1].n < x /\ x \in Nat
      BY <1>1, <2>2, <3>0, <3>1 DEF AnswerType
    <3> QED
      BY <1>1, <1>5, <2>0, <3>0, <3>1, <3>2
  <2>5. \A x : x \in OwedIn(q, c) /\ x # Head(q).n => x \in OwedIn(r, c)
    <3> SUFFICES ASSUME NEW x, x \in OwedIn(q, c), x # Head(q).n
                 PROVE  x \in OwedIn(r, c)
      OBVIOUS
    <3>1. PICK i \in 1 .. L : q[i].client = c /\ x = q[i].n
      BY <1>1, <1>5
    <3>2. i - 1 \in 1 .. L - 1 /\ r[i - 1] = q[i]
      BY <1>1, <1>2, <3>1
    <3> QED
      BY <1>1, <1>6, <3>1, <3>2
  <2> QED
    BY <2>1, <2>3, <2>4, <2>5
<1> QED
  BY <1>1, <1>7, <1>9, <1>10

(* A frame larger than all in the inbox leaves the inbox sorted.           *)
LEMMA InboxAppended ==
    ASSUME NEW s \in Seq(FrameType), NEW f \in FrameType, FramesRise(s),
           \A i \in 1 .. Len(s) : s[i].n < f.n
    PROVE  /\ FramesRise(Append(s, f))
           /\ f.kind = "ask" => AskedIn(Append(s, f)) = AskedIn(s) \cup {f.n}
           /\ f.kind # "ask" => AskedIn(Append(s, f)) = AskedIn(s)
<1> DEFINE L == Len(s)
           t == Append(s, f)
<1>1. /\ L \in Nat /\ Len(t) = L + 1 /\ t \in Seq(FrameType)
      /\ \A i \in 1 .. L : t[i] = s[i] /\ s[i] \in FrameType
      /\ t[L + 1] = f
  OBVIOUS
<1> HIDE DEF t
<1>2. \A i \in 1 .. L + 1 : i \in 1 .. L \/ i = L + 1
  BY <1>1
<1>3. FramesRise(s) = (\A i, j \in 1 .. L : i < j => s[i].n < s[j].n)
  BY DEF FramesRise
<1>4. FramesRise(t) = (\A i, j \in 1 .. L + 1 : i < j => t[i].n < t[j].n)
  BY <1>1 DEF FramesRise
<1>5. \A x : x \in AskedIn(s) <=> \E i \in 1 .. L : s[i].kind = "ask" /\ x = s[i].n
  BY DEF AskedIn
<1>6. \A x : x \in AskedIn(t) <=> \E i \in 1 .. L + 1 : t[i].kind = "ask" /\ x = t[i].n
  BY <1>1 DEF AskedIn
<1> HIDE DEF L
<1>7. f.kind = "ask" => \A x : x \in AskedIn(t) <=> x \in AskedIn(s) \cup {f.n}
  BY <1>1, <1>2, <1>5, <1>6
<1>8. f.kind # "ask" => \A x : x \in AskedIn(t) <=> x \in AskedIn(s)
  BY <1>1, <1>2, <1>5, <1>6
<1>00. \A i \in 1 .. L : s[i].n < f.n
  BY DEF L
<1> HIDE DEF L
<1>9. ASSUME NEW i \in 1 .. L + 1, NEW j \in 1 .. L + 1, i < j
      PROVE  t[i].n < t[j].n
  <2>1. i \in 1 .. L
    BY <1>1, <1>9
  <2>2. CASE j \in 1 .. L
    BY <1>1, <1>3, <1>9, <2>1, <2>2
  <2>3. CASE j = L + 1
    BY <1>00, <1>1, <2>1, <2>3
  <2> QED
    BY <1>2, <2>2, <2>3
<1> QED
  BY <1>4, <1>7, <1>8, <1>9 DEF t

(* The request taken from a sorted inbox is the smallest in it.            *)
LEMMA InboxTaken ==
    ASSUME NEW s \in Seq(FrameType), s # <<>>, NEW t, t = Tail(s)
    PROVE  /\ Head(s) \in FrameType /\ Head(s) = s[1] /\ t \in Seq(FrameType)
           /\ Len(t) = Len(s) - 1 /\ 1 \in 1 .. Len(s)
           /\ \A i \in 1 .. Len(t) : i + 1 \in 1 .. Len(s) /\ i + 1 # 1 /\ t[i] = s[i + 1]
           /\ FramesRise(s) =>
                  /\ FramesRise(t)
                  /\ Head(s).kind # "ask" => AskedIn(t) = AskedIn(s)
                  /\ Head(s).kind = "ask" =>
                         /\ AskedIn(t) = AskedIn(s) \ {Head(s).n}
                         /\ Head(s).n \in AskedIn(s)
                         /\ \A x \in AskedIn(s) : Head(s).n <= x
<1> DEFINE L == Len(s)
<1>1. /\ L \in Nat \ {0} /\ Len(t) = L - 1 /\ t \in Seq(FrameType)
      /\ \A i \in 1 .. L : s[i] \in FrameType
      /\ \A i \in 1 .. L - 1 : t[i] = s[i + 1]
      /\ Head(s) = s[1]
  OBVIOUS
<1>2. \A i \in 1 .. L : i # 1 => i - 1 \in 1 .. L - 1 /\ t[i - 1] = s[i]
  BY <1>1
<1>3. FramesRise(s) = (\A i, j \in 1 .. L : i < j => s[i].n < s[j].n)
  BY DEF FramesRise
<1>4. FramesRise(t) = (\A i, j \in 1 .. L - 1 : i < j => t[i].n < t[j].n)
  BY <1>1 DEF FramesRise
<1>5. \A x : x \in AskedIn(s) <=> \E i \in 1 .. L : s[i].kind = "ask" /\ x = s[i].n
  BY DEF AskedIn
<1>6. \A x : x \in AskedIn(t) <=> \E i \in 1 .. L - 1 : t[i].kind = "ask" /\ x = t[i].n
  BY <1>1 DEF AskedIn
<1> HIDE DEF L
<1>7. \A i \in 1 .. L - 1 : i + 1 \in 1 .. L /\ i + 1 # 1
  BY <1>1
<1>8. 1 \in 1 .. L /\ s[1].n \in Nat /\ Head(s) \in FrameType
  BY <1>1 DEF FrameType
<1>9. ASSUME FramesRise(s)
      PROVE  /\ FramesRise(t)
             /\ Head(s).kind # "ask" => AskedIn(t) = AskedIn(s)
             /\ Head(s).kind = "ask" => /\ AskedIn(t) = AskedIn(s) \ {Head(s).n}
                                        /\ Head(s).n \in AskedIn(s)
                                        /\ \A x \in AskedIn(s) : Head(s).n <= x
  <2>1. ASSUME NEW i \in 1 .. L - 1, NEW j \in 1 .. L - 1, i < j
        PROVE  t[i].n < t[j].n
    <3>1. /\ i + 1 \in 1 .. L /\ j + 1 \in 1 .. L /\ i + 1 < j + 1
          /\ t[i] = s[i + 1] /\ t[j] = s[j + 1]
      BY <1>1, <2>1
    <3>2. s[i + 1].n < s[j + 1].n
      BY <1>3, <1>9, <3>1
    <3> QED
      BY <3>1, <3>2
  <2>2. \A i \in 1 .. L : i # 1 => s[1].n < s[i].n
    <3> SUFFICES ASSUME NEW i \in 1 .. L, i # 1 PROVE s[1].n < s[i].n
      OBVIOUS
    <3>1. 1 < i
      OBVIOUS
    <3> QED
      BY <1>3, <1>8, <1>9, <3>1
  <2>3. \A i \in 1 .. L : s[i].n \in Nat
    BY <1>1 DEF FrameType
  <2>4. \A x \in AskedIn(s) : Head(s).n <= x
    BY <1>1, <1>5, <1>8, <2>2, <2>3
  <2>5. \A x : x \in AskedIn(t) => x \in AskedIn(s) /\ x # Head(s).n
    <3> SUFFICES ASSUME NEW x, x \in AskedIn(t) PROVE x \in AskedIn(s) /\ x # Head(s).n
      OBVIOUS
    <3>0. PICK i \in 1 .. L - 1 : t[i].kind = "ask" /\ x = t[i].n
      BY <1>6
    <3>1. i + 1 \in 1 .. L /\ i + 1 # 1 /\ t[i] = s[i + 1]
      BY <1>1, <1>7
    <3>2. s[1].n < x /\ x \in Nat
      BY <2>2, <2>3, <3>0, <3>1
    <3> QED
      BY <1>1, <1>5, <1>8, <3>0, <3>1, <3>2
  <2>6. \A x : x \in AskedIn(s) /\ x # Head(s).n => x \in AskedIn(t)
    <3> SUFFICES ASSUME NEW x, x \in AskedIn(s), x # Head(s).n PROVE x \in AskedIn(t)
      OBVIOUS
    <3>1. PICK i \in 1 .. L : s[i].kind = "ask" /\ x = s[i].n
      BY <1>5
    <3>2. i - 1 \in 1 .. L - 1 /\ t[i - 1] = s[i]
      BY <1>1, <1>2, <3>1
    <3> QED
      BY <1>6, <3>1, <3>2
  <2>7. Head(s).kind = "ask" => Head(s).n \in AskedIn(s)
    BY <1>1, <1>5, <1>8
  <2>8. Head(s).kind # "ask" => Head(s).n \notin AskedIn(s)
    <3> SUFFICES ASSUME Head(s).kind # "ask", Head(s).n \in AskedIn(s) PROVE FALSE
      OBVIOUS
    <3>1. PICK i \in 1 .. L : s[i].kind = "ask" /\ Head(s).n = s[i].n
      BY <1>5
    <3>2. i # 1
      BY <1>1, <3>1
    <3> QED
      BY <1>1, <1>8, <2>2, <2>3, <3>1, <3>2
  <2>9. Head(s).kind # "ask" => AskedIn(t) = AskedIn(s)
    BY <2>5, <2>6, <2>8
  <2>10. AskedIn(t) = AskedIn(s) \ {Head(s).n}
    BY <2>5, <2>6
  <2> QED
    BY <1>4, <2>1, <2>4, <2>7, <2>9, <2>10
<1> QED
  BY <1>1, <1>7, <1>8, <1>9 DEF L

(* At the end of its turn a thread reads again or ends and closes its      *)
(* socket.                                                                 *)
LEMMA LoopTurns ==
    ASSUME NEW d \in Clients, ConnectionTypes,
           Connections!Continues(d) \/ Connections!LeavesLoop(d)
    PROVE  /\ thread' \in [Clients -> ThreadType]
           /\ socket' \in [Clients -> {"none", "open", "closed"}]
           /\ \A c \in Clients \ {d} : thread'[c] = thread[c] /\ socket'[c] = socket[c]
           /\ \/ thread'[d].at = "reads" /\ running /\ socket' = socket
              \/ thread'[d].at = "ended" /\ socket'[d] = "closed"
<1>1. CASE running /\ Connections!Continues(d)
  <2>1. thread' = [thread EXCEPT ![d] = Connections!Reading] /\ UNCHANGED socket
    BY <1>1 DEF Connections!Continues
  <2>2. Connections!Reading \in ThreadType /\ Connections!Reading.at = "reads"
    BY DEF Connections!Reading, ThreadType
  <2> QED
    BY <1>1, <2>1, <2>2 DEF ConnectionTypes
<1>2. CASE Connections!LeavesLoop(d)
  BY <1>2 DEF ConnectionTypes, Connections!LeavesLoop, ThreadType
<1> QED
  BY <1>1, <1>2 DEF Connections!Continues

(* Every step keeps the types.                                             *)
LEMMA TypesKept ==
    ASSUME ConnectionInv, [Connections!Next]_(Connections!vars)
    PROVE  ConnectionTypes'
<1>0. ConnectionTypes
  BY DEF ConnectionInv
<1>1. ASSUME NEW d \in Clients, Connections!ClientConnects(d)
      PROVE  ConnectionTypes'
  BY <1>0, <1>1 DEF ConnectionTypes, Connections!ClientConnects, Connections!clientVars
<1>2. ASSUME NEW d \in Clients, NEW f \in Connections!Frames,
             Connections!ClientSends(d, f)
      PROVE  ConnectionTypes'
  <2>1. f \in FrameType
    BY ConnectionsAssumption DEF Connections!Frames, Connections!LimitAssumption,
       FrameType
  <2>2. inbox' \in [Clients -> Seq(FrameType)] /\ asked' \in [Clients -> Nat]
    BY <1>0, <1>2, <2>1 DEF ConnectionTypes, Connections!ClientSends, FrameType
  <2> QED
    BY <1>0, <1>2, <2>2 DEF ConnectionTypes, Connections!ClientSends
<1>3. ASSUME NEW d \in Clients, Connections!ClientFallsDeaf(d)
      PROVE  ConnectionTypes'
  BY <1>0, <1>3 DEF ConnectionTypes, Connections!ClientFallsDeaf, Connections!clientVars
<1>4. ASSUME NEW d \in Clients, Connections!ClientLeaves(d)
      PROVE  ConnectionTypes'
  BY <1>0, <1>4 DEF ConnectionTypes, Connections!ClientLeaves, Connections!clientVars
<1>5. ASSUME Connections!AcceptReturns
      PROVE  ConnectionTypes'
  <2>1. backlog' \in Seq(Clients)
    <3>1. CASE backlog' = backlog
      BY <1>0, <3>1 DEF ConnectionTypes
    <3>2. CASE backlog # <<>> /\ backlog' = Tail(backlog)
      BY <1>0, <3>2 DEF ConnectionTypes
    <3> QED
      BY <1>5, <3>1, <3>2 DEF Connections!AcceptReturns
  <2>2. /\ acceptor' \in PostType({"waits", "adds", "ended"})
        /\ acceptor'.at = "adds" => acceptor'.client \in Clients
    <3>1. CASE acceptor' = Connections!Ended
      BY <3>1 DEF Connections!Idle, Connections!Ended, PostType
    <3>2. CASE /\ backlog # <<>>
               /\ acceptor' = [Connections!Idle EXCEPT !.at = "adds", !.client = Head(backlog)]
      <4>1. Head(backlog) \in Clients
        BY <1>0, <3>2 DEF ConnectionTypes
      <4> QED
        BY <3>2, <4>1 DEF Connections!Idle, PostType
    <3> QED
      BY <1>5, <3>1, <3>2 DEF Connections!AcceptReturns
  <2> QED
    BY <1>0, <1>5, <2>1, <2>2 DEF ConnectionTypes, Connections!AcceptReturns,
       Connections!clientVars
<1>6. ASSUME Connections!AcceptAdds
      PROVE  ConnectionTypes'
  <2>1. socket' \in [Clients -> {"none", "open", "closed"}]
    BY <1>0, <1>6 DEF ConnectionTypes, Connections!AcceptAdds
  <2>2. thread' \in [Clients -> ThreadType]
    <3>1. CASE thread' = thread
      BY <1>0, <3>1 DEF ConnectionTypes
    <3>2. CASE thread' = [thread EXCEPT ![acceptor.client].at =
                              IF running THEN "reads" ELSE "ended"]
      <4>1. acceptor.client \in Clients /\ thread[acceptor.client] \in ThreadType
        BY <1>0, <1>6 DEF ConnectionTypes, Connections!AcceptAdds
      <4>2. \A v \in {"reads", "ended"} :
               [thread[acceptor.client] EXCEPT !.at = v] \in ThreadType
        BY <4>1 DEF ThreadType
      <4> QED
        BY <1>0, <3>2, <4>1, <4>2 DEF ConnectionTypes
    <3> QED
      BY <1>6, <3>1, <3>2 DEF Connections!AcceptAdds
  <2>3. acceptor' \in PostType({"waits", "adds", "ended"}) /\ acceptor'.at # "adds"
    BY <1>0, <1>6 DEF ConnectionTypes, Connections!AcceptAdds, Connections!Idle,
       PostType
  <2> QED
    BY <1>0, <1>6, <2>1, <2>2, <2>3 DEF ConnectionTypes, Connections!AcceptAdds
<1>7. ASSUME NEW d \in Clients, Connections!ReadFails(d)
      PROVE  ConnectionTypes'
  BY <1>0, <1>7 DEF ConnectionTypes, Connections!ReadFails, Connections!LeavesLoop,
     ThreadType
<1>8. ASSUME NEW d \in Clients, Connections!ReadFrame(d)
      PROVE  ConnectionTypes'
  <2>1. /\ inbox[d] \in Seq(FrameType) /\ inbox[d] # <<>>
        /\ Head(inbox[d]) \in FrameType /\ Tail(inbox[d]) \in Seq(FrameType)
    BY <1>0, <1>8 DEF ConnectionTypes, Connections!ReadFrame
  <2>2. inbox' \in [Clients -> Seq(FrameType)]
    BY <1>0, <1>8, <2>1 DEF ConnectionTypes, Connections!ReadFrame
  <2>3. role' \in [Clients -> {"none", "Manager", "Monitor"}]
    BY <1>0, <1>8, ConnectionsAssumption
       DEF ConnectionTypes, Connections!ReadFrame, Connections!LimitAssumption
  <2>4. /\ thread' \in [Clients -> ThreadType]
        /\ socket' \in [Clients -> {"none", "open", "closed"}]
    <3>1. CASE Connections!Continues(d) \/ Connections!LeavesLoop(d)
      BY <1>0, <3>1, LoopTurns
    <3>2. CASE /\ thread' = [thread EXCEPT ![d] = [at |-> "answers", n |-> Head(inbox[d]).n]]
               /\ UNCHANGED socket
      BY <1>0, <2>1, <3>2 DEF ConnectionTypes, FrameType, ThreadType
    <3> QED
      BY <1>8, <3>1, <3>2 DEF Connections!ReadFrame
  <2> QED
    BY <1>0, <1>8, <2>2, <2>3, <2>4 DEF ConnectionTypes, Connections!ReadFrame
<1>9. ASSUME NEW d \in Clients, Connections!AnswerManager(d)
      PROVE  ConnectionTypes'
  <2>1. thread[d].n \in Nat
    BY <1>0 DEF ConnectionTypes, ThreadType
  <2>2. replies' \in [Clients -> Seq(Nat)]
    <3>1. CASE replies' = replies
      BY <1>0, <3>1 DEF ConnectionTypes
    <3>2. CASE Connections!Wrote(d, thread[d].n)
      <4>1. replies[d] \in Seq(Nat)
        BY <1>0 DEF ConnectionTypes
      <4>2. Append(replies[d], thread[d].n) \in Seq(Nat)
        BY <2>1, <4>1
      <4> QED
        BY <1>0, <3>2, <4>2 DEF ConnectionTypes, Connections!Wrote
    <3> QED
      BY <1>9, <3>1, <3>2 DEF Connections!AnswerManager
  <2>3. /\ thread' \in [Clients -> ThreadType]
        /\ socket' \in [Clients -> {"none", "open", "closed"}]
    BY <1>0, <1>9, LoopTurns DEF Connections!AnswerManager
  <2> QED
    BY <1>0, <1>9, <2>2, <2>3 DEF ConnectionTypes, Connections!AnswerManager
<1>10. ASSUME NEW d \in Clients, Connections!AnswerMonitor(d)
      PROVE  ConnectionTypes'
  <2>1. [client |-> d, n |-> thread[d].n] \in AnswerType
    BY <1>0 DEF ConnectionTypes, ThreadType, AnswerType
  <2>2. queue' \in Seq(AnswerType)
    <3>1. CASE queue' = queue
      BY <1>0, <3>1 DEF ConnectionTypes
    <3>2. CASE queue' = Append(queue, [client |-> d, n |-> thread[d].n])
      BY <1>0, <2>1, <3>2 DEF ConnectionTypes
    <3> QED
      BY <1>10, <3>1, <3>2 DEF Connections!AnswerMonitor
  <2>3. /\ thread' \in [Clients -> ThreadType]
        /\ socket' \in [Clients -> {"none", "open", "closed"}]
    BY <1>0, <1>10, LoopTurns DEF Connections!AnswerMonitor
  <2> QED
    BY <1>0, <1>10, <2>2, <2>3 DEF ConnectionTypes, Connections!AnswerMonitor
<1>11. ASSUME Connections!WriterTakes
      PROVE  ConnectionTypes'
  <2>1. Head(queue) \in AnswerType /\ queue' \in Seq(AnswerType)
    BY <1>0, <1>11 DEF ConnectionTypes, Connections!WriterTakes
  <2>2. /\ writer' \in PostType({"waits", "writes", "ended"})
        /\ writer'.client \in Clients
    BY <1>11, <2>1 DEF Connections!WriterTakes, AnswerType, PostType
  <2> QED
    BY <1>0, <1>11, <2>1, <2>2 DEF ConnectionTypes, Connections!WriterTakes,
       Connections!clientVars
<1>12. ASSUME Connections!WriterWrites
      PROVE  ConnectionTypes'
  <2>1. writer' \in PostType({"waits", "writes", "ended"}) /\ writer'.at = "waits"
    BY <1>12 DEF Connections!WriterWrites, Connections!Idle, PostType
  <2>2. writer.client \in Clients /\ writer.n \in Nat
    BY <1>0, <1>12 DEF ConnectionTypes, Connections!WriterWrites, PostType
  <2>3. /\ replies' \in [Clients -> Seq(Nat)]
        /\ socket' \in [Clients -> {"none", "open", "closed"}]
    <3>1. CASE UNCHANGED replies /\ socket' = [socket EXCEPT ![writer.client] = "closed"]
      BY <1>0, <3>1 DEF ConnectionTypes
    <3>2. CASE Connections!Wrote(writer.client, writer.n) /\ UNCHANGED socket
      <4>1. Append(replies[writer.client], writer.n) \in Seq(Nat)
        BY <1>0, <2>2 DEF ConnectionTypes
      <4> QED
        BY <1>0, <3>2, <4>1 DEF ConnectionTypes, Connections!Wrote
    <3> QED
      BY <1>12, <3>1, <3>2 DEF Connections!WriterWrites
  <2> QED
    BY <1>0, <1>12, <2>1, <2>3 DEF ConnectionTypes, Connections!WriterWrites
<1>13. ASSUME Connections!WriterEnds
      PROVE  ConnectionTypes'
  <2>1. writer' \in PostType({"waits", "writes", "ended"}) /\ writer'.at = "ended"
    BY <1>13 DEF Connections!WriterEnds, Connections!Ended, Connections!Idle, PostType
  <2> QED
    BY <1>0, <1>13, <2>1 DEF ConnectionTypes, Connections!WriterEnds,
       Connections!clientVars
<1>14. ASSUME Connections!StopBegins
      PROVE  ConnectionTypes'
  BY <1>0, <1>14 DEF ConnectionTypes, Connections!StopBegins, Connections!clientVars
<1>15. ASSUME Connections!StopClosesListener
      PROVE  ConnectionTypes'
  <2>0. queue' = <<>> /\ listening' = FALSE
    BY <1>15 DEF Connections!StopClosesListener
  <2>1. queue' \in Seq(AnswerType)
    BY <2>0
  <2>2. listening' \in BOOLEAN
    BY <2>0
  <2> QED
    BY <1>0, <1>15, <2>1, <2>2 DEF ConnectionTypes, Connections!StopClosesListener,
       Connections!clientVars
<1>16. ASSUME Connections!StopClosesClients
      PROVE  ConnectionTypes'
  <2>1. socket' \in [Clients -> {"none", "open", "closed"}]
    BY <1>0, <1>16 DEF ConnectionTypes, Connections!StopClosesClients
  <2> QED
    BY <1>0, <1>16, <2>1 DEF ConnectionTypes, Connections!StopClosesClients
<1>17. ASSUME Connections!StopJoinsThreads
      PROVE  ConnectionTypes'
  BY <1>0, <1>17 DEF ConnectionTypes, Connections!StopJoinsThreads,
     Connections!clientVars
<1>18. CASE UNCHANGED Connections!vars
  BY <1>0, <1>18 DEF ConnectionTypes, Connections!vars, Connections!clientVars
<1> QED
  BY <1>1, <1>2, <1>3, <1>4, <1>5, <1>6, <1>7, <1>8, <1>9, <1>10, <1>11, <1>12, <1>13,
     <1>14, <1>15, <1>16, <1>17, <1>18
  DEF Connections!Next, Connections!ClientNext, Connections!AcceptNext,
       Connections!ThreadNext, Connections!WriterNext, Connections!StopNext

(* Steps that leave backlog and acceptor alone and add no connection.      *)
LEMMA BacklogStays ==
    ASSUME ConnectionTypes, BacklogInv, UNCHANGED <<backlog, acceptor>>,
           \A c \in Clients : socket[c] = "none" => socket'[c] = "none",
           \A c \in Clients : peer'[c] = "away" <=> peer[c] = "away"
    PROVE  BacklogInv'
<1>1. \A i \in 1 .. Len(backlog) : backlog[i] \in Clients
  BY DEF ConnectionTypes
<1> QED
  BY <1>1 DEF ConnectionTypes, BacklogInv

(* Every step keeps BacklogInv.                                            *)
LEMMA BacklogKept ==
    ASSUME ConnectionInv, [Connections!Next]_(Connections!vars)
    PROVE  BacklogInv'
<1>0. ConnectionTypes /\ BacklogInv /\ \A c \in Clients : FrontInv(c)
  BY DEF ConnectionInv
<1>1. ASSUME NEW d \in Clients, Connections!ClientConnects(d)
      PROVE  BacklogInv'
  <2>1. /\ UNCHANGED <<acceptor, socket>> /\ peer[d] = "away" /\ socket[d] = "none"
        /\ peer'[d] = "here" /\ \A c \in Clients \ {d} : peer'[c] = peer[c]
    BY <1>0, <1>1 DEF ConnectionTypes, BacklogInv, Connections!ClientConnects,
       Connections!clientVars
  <2>2. /\ \A i \in 1 .. Len(backlog) : backlog'[i] = backlog[i] /\ backlog[i] \in Clients
        /\ \A i \in 1 .. Len(backlog') : i \in 1 .. Len(backlog) \/ backlog'[i] = d
        /\ \A i, j \in 1 .. Len(backlog') :
               i # j => i \in 1 .. Len(backlog) \/ j \in 1 .. Len(backlog)
    BY <1>0, <1>1 DEF ConnectionTypes, Connections!ClientConnects
  <2>3. \A i \in 1 .. Len(backlog) : backlog[i] # d
    BY <1>0, <2>1 DEF BacklogInv
  <2>4. acceptor.at = "adds" => acceptor.client \in Clients \ {d}
    BY <1>0, <2>1 DEF BacklogInv, ConnectionTypes
  <2> QED
    BY <1>0, <2>1, <2>2, <2>3, <2>4 DEF BacklogInv
<1>2. ASSUME NEW d \in Clients, NEW f \in Connections!Frames,
             Connections!ClientSends(d, f)
      PROVE  BacklogInv'
  <2>1. UNCHANGED <<backlog, acceptor>>
    BY <1>2 DEF Connections!ClientSends, Connections!clientVars
  <2>2. \A c \in Clients : socket[c] = "none" => socket'[c] = "none"
    BY <1>0, <1>2 DEF Connections!ClientSends, Connections!clientVars
  <2>3. \A c \in Clients : peer'[c] = "away" <=> peer[c] = "away"
    BY <1>0, <1>2 DEF ConnectionTypes, Connections!ClientSends
  <2> QED
    BY <1>0, <2>1, <2>2, <2>3, BacklogStays
<1>3. ASSUME NEW d \in Clients, Connections!ClientFallsDeaf(d)
      PROVE  BacklogInv'
  <2>1. UNCHANGED <<backlog, acceptor>>
    BY <1>3 DEF Connections!ClientFallsDeaf, Connections!clientVars
  <2>2. \A c \in Clients : socket[c] = "none" => socket'[c] = "none"
    BY <1>0, <1>3 DEF Connections!ClientFallsDeaf, Connections!clientVars
  <2>3. \A c \in Clients : peer'[c] = "away" <=> peer[c] = "away"
    BY <1>0, <1>3 DEF ConnectionTypes, Connections!ClientFallsDeaf
  <2> QED
    BY <1>0, <2>1, <2>2, <2>3, BacklogStays
<1>4. ASSUME NEW d \in Clients, Connections!ClientLeaves(d)
      PROVE  BacklogInv'
  <2>1. UNCHANGED <<backlog, acceptor>>
    BY <1>4 DEF Connections!ClientLeaves, Connections!clientVars
  <2>2. \A c \in Clients : socket[c] = "none" => socket'[c] = "none"
    BY <1>0, <1>4 DEF Connections!ClientLeaves, Connections!clientVars
  <2>3. \A c \in Clients : peer'[c] = "away" <=> peer[c] = "away"
    BY <1>0, <1>4 DEF ConnectionTypes, Connections!ClientLeaves
  <2> QED
    BY <1>0, <2>1, <2>2, <2>3, BacklogStays
<1>5. ASSUME Connections!AcceptReturns
      PROVE  BacklogInv'
  <2>1. UNCHANGED <<socket, peer>>
    BY <1>5 DEF Connections!AcceptReturns, Connections!clientVars
  <2>2. CASE acceptor' = Connections!Ended /\ UNCHANGED backlog
    BY <1>0, <2>1, <2>2 DEF BacklogInv, Connections!Ended, Connections!Idle
  <2>3. CASE /\ backlog # <<>> /\ backlog' = Tail(backlog)
             /\ acceptor' = [Connections!Idle EXCEPT !.at = "adds", !.client = Head(backlog)]
    <3>0. backlog \in Seq(Clients) /\ Len(backlog) \in Nat \ {0}
      BY <1>0, <2>3 DEF ConnectionTypes
    <3>1. /\ Len(backlog') = Len(backlog) - 1 /\ Head(backlog) = backlog[1]
          /\ \A i \in 1 .. Len(backlog') : backlog'[i] = backlog[i + 1]
      BY <2>3, <3>0
    <3>2. acceptor'.client = backlog[1] /\ 1 \in 1 .. Len(backlog)
      BY <2>3, <3>0, <3>1 DEF Connections!Idle
    <3>3. \A i \in 1 .. Len(backlog') : i + 1 \in 1 .. Len(backlog) /\ i + 1 # 1
      BY <3>0, <3>1
    <3>4. \A i, j \in 1 .. Len(backlog') : i # j => i + 1 # j + 1
      BY <3>0, <3>1
    <3>5. \A i, j \in 1 .. Len(backlog) : i # j => backlog[i] # backlog[j]
      BY <1>0 DEF BacklogInv
    <3>6. \A i \in 1 .. Len(backlog) : socket[backlog[i]] = "none" /\ peer[backlog[i]] # "away"
      BY <1>0 DEF BacklogInv
    <3>7. \A i \in 1 .. Len(backlog') : backlog'[i] # acceptor'.client
      BY <3>1, <3>2, <3>3, <3>5
    <3>8. \A i, j \in 1 .. Len(backlog') : i # j => backlog'[i] # backlog'[j]
      BY <3>1, <3>3, <3>4, <3>5
    <3>9. \A i \in 1 .. Len(backlog') :
             socket'[backlog'[i]] = "none" /\ peer'[backlog'[i]] # "away"
      BY <2>1, <3>1, <3>3, <3>6
    <3> QED
      BY <1>0, <2>1, <3>2, <3>6, <3>7, <3>8, <3>9 DEF BacklogInv
  <2> QED
    BY <1>5, <2>2, <2>3 DEF Connections!AcceptReturns
<1>6. ASSUME Connections!AcceptAdds
      PROVE  BacklogInv'
  <2>1. /\ UNCHANGED <<backlog, peer>> /\ acceptor'.at = "waits" /\ acceptor.at = "adds"
        /\ \A c \in Clients \ {acceptor.client} : socket'[c] = socket[c]
        /\ acceptor.client \in Clients
    BY <1>0, <1>6 DEF ConnectionTypes, Connections!AcceptAdds, Connections!Idle
  <2>2. \A i \in 1 .. Len(backlog) : backlog[i] \in Clients \ {acceptor.client}
    BY <1>0, <2>1 DEF ConnectionTypes, BacklogInv
  <2> QED
    BY <1>0, <2>1, <2>2 DEF BacklogInv
<1>7. ASSUME NEW d \in Clients, Connections!ReadFails(d)
      PROVE  BacklogInv'
  <2>1. UNCHANGED <<backlog, acceptor>>
    BY <1>7 DEF Connections!ReadFails, Connections!clientVars
  <2>2. UNCHANGED socket \/ \A c \in Clients \ {d} : socket'[c] = socket[c]
    BY <1>0, <1>7, LoopTurns DEF Connections!ReadFails, Connections!LeavesLoop
  <2>3. socket[d] # "none"
    BY <1>0, <1>7 DEF FrontInv, Connections!ReadFails
  <2>4. UNCHANGED peer
    BY <1>7 DEF Connections!ReadFails
  <2> QED
    BY <1>0, <2>1, <2>2, <2>3, <2>4, BacklogStays
<1>8. ASSUME NEW d \in Clients, Connections!ReadFrame(d)
      PROVE  BacklogInv'
  <2>1. UNCHANGED <<backlog, acceptor>>
    BY <1>8 DEF Connections!ReadFrame, Connections!clientVars
  <2>2. UNCHANGED socket \/ \A c \in Clients \ {d} : socket'[c] = socket[c]
    BY <1>0, <1>8, LoopTurns DEF Connections!ReadFrame, Connections!LeavesLoop
  <2>3. socket[d] # "none"
    BY <1>0, <1>8 DEF FrontInv, Connections!ReadFrame
  <2>4. UNCHANGED peer
    BY <1>8 DEF Connections!ReadFrame
  <2> QED
    BY <1>0, <2>1, <2>2, <2>3, <2>4, BacklogStays
<1>9. ASSUME NEW d \in Clients, Connections!AnswerManager(d)
      PROVE  BacklogInv'
  <2>1. UNCHANGED <<backlog, acceptor>>
    BY <1>9 DEF Connections!AnswerManager, Connections!clientVars
  <2>2. UNCHANGED socket \/ \A c \in Clients \ {d} : socket'[c] = socket[c]
    BY <1>0, <1>9, LoopTurns DEF Connections!AnswerManager, Connections!LeavesLoop
  <2>3. socket[d] # "none"
    BY <1>0, <1>9 DEF FrontInv, Connections!AnswerManager
  <2>4. UNCHANGED peer
    BY <1>9 DEF Connections!AnswerManager
  <2> QED
    BY <1>0, <2>1, <2>2, <2>3, <2>4, BacklogStays
<1>10. ASSUME NEW d \in Clients, Connections!AnswerMonitor(d)
      PROVE  BacklogInv'
  <2>1. UNCHANGED <<backlog, acceptor>>
    BY <1>10 DEF Connections!AnswerMonitor, Connections!clientVars
  <2>2. UNCHANGED socket \/ \A c \in Clients \ {d} : socket'[c] = socket[c]
    BY <1>0, <1>10, LoopTurns DEF Connections!AnswerMonitor, Connections!LeavesLoop
  <2>3. socket[d] # "none"
    BY <1>0, <1>10 DEF FrontInv, Connections!AnswerMonitor
  <2>4. UNCHANGED peer
    BY <1>10 DEF Connections!AnswerMonitor
  <2> QED
    BY <1>0, <2>1, <2>2, <2>3, <2>4, BacklogStays
<1>11. ASSUME Connections!WriterTakes
      PROVE  BacklogInv'
  <2>1. UNCHANGED <<backlog, acceptor>>
    BY <1>11 DEF Connections!WriterTakes, Connections!clientVars
  <2>2. \A c \in Clients : socket[c] = "none" => socket'[c] = "none"
    BY <1>0, <1>11 DEF Connections!WriterTakes, Connections!clientVars
  <2>3. \A c \in Clients : peer'[c] = "away" <=> peer[c] = "away"
    BY <1>0, <1>11 DEF ConnectionTypes, Connections!WriterTakes
  <2> QED
    BY <1>0, <2>1, <2>2, <2>3, BacklogStays
<1>12. ASSUME Connections!WriterWrites
      PROVE  BacklogInv'
  <2>1. UNCHANGED <<backlog, acceptor>>
    BY <1>12 DEF Connections!WriterWrites, Connections!clientVars
  <2>2. UNCHANGED socket \/ \A c \in Clients \ {writer.client} : socket'[c] = socket[c]
    BY <1>0, <1>12 DEF ConnectionTypes, Connections!WriterWrites
  <2>3. socket[writer.client] # "none"
    BY <1>0, <1>12 DEF ConnectionTypes, FrontInv, Writing, Connections!WriterWrites
  <2>4. UNCHANGED peer
    BY <1>12 DEF Connections!WriterWrites
  <2> QED
    BY <1>0, <2>1, <2>2, <2>3, <2>4, BacklogStays
<1>13. ASSUME Connections!WriterEnds
      PROVE  BacklogInv'
  <2>1. UNCHANGED <<backlog, acceptor>>
    BY <1>13 DEF Connections!WriterEnds, Connections!clientVars
  <2>2. \A c \in Clients : socket[c] = "none" => socket'[c] = "none"
    BY <1>0, <1>13 DEF Connections!WriterEnds, Connections!clientVars
  <2>3. \A c \in Clients : peer'[c] = "away" <=> peer[c] = "away"
    BY <1>0, <1>13 DEF ConnectionTypes, Connections!WriterEnds
  <2> QED
    BY <1>0, <2>1, <2>2, <2>3, BacklogStays
<1>14. ASSUME Connections!StopBegins
      PROVE  BacklogInv'
  <2>1. UNCHANGED <<backlog, acceptor>>
    BY <1>14 DEF Connections!StopBegins, Connections!clientVars
  <2>2. \A c \in Clients : socket[c] = "none" => socket'[c] = "none"
    BY <1>0, <1>14 DEF Connections!StopBegins, Connections!clientVars
  <2>3. \A c \in Clients : peer'[c] = "away" <=> peer[c] = "away"
    BY <1>0, <1>14 DEF ConnectionTypes, Connections!StopBegins
  <2> QED
    BY <1>0, <2>1, <2>2, <2>3, BacklogStays
<1>15. ASSUME Connections!StopClosesListener
      PROVE  BacklogInv'
  <2>1. UNCHANGED <<backlog, acceptor>>
    BY <1>15 DEF Connections!StopClosesListener, Connections!clientVars
  <2>2. \A c \in Clients : socket[c] = "none" => socket'[c] = "none"
    BY <1>0, <1>15 DEF Connections!StopClosesListener, Connections!clientVars
  <2>3. \A c \in Clients : peer'[c] = "away" <=> peer[c] = "away"
    BY <1>0, <1>15 DEF ConnectionTypes, Connections!StopClosesListener
  <2> QED
    BY <1>0, <2>1, <2>2, <2>3, BacklogStays
<1>16. ASSUME Connections!StopClosesClients
      PROVE  BacklogInv'
  <2>1. UNCHANGED <<backlog, acceptor>>
    BY <1>16 DEF Connections!StopClosesClients, Connections!clientVars
  <2>2. \A c \in Clients : socket[c] = "none" => socket'[c] = "none"
    BY <1>0, <1>16 DEF Connections!StopClosesClients, Connections!clientVars
  <2>3. \A c \in Clients : peer'[c] = "away" <=> peer[c] = "away"
    BY <1>0, <1>16 DEF ConnectionTypes, Connections!StopClosesClients
  <2> QED
    BY <1>0, <2>1, <2>2, <2>3, BacklogStays
<1>17. ASSUME Connections!StopJoinsThreads
      PROVE  BacklogInv'
  <2>1. UNCHANGED <<backlog, acceptor>>
    BY <1>17 DEF Connections!StopJoinsThreads, Connections!clientVars
  <2>2. \A c \in Clients : socket[c] = "none" => socket'[c] = "none"
    BY <1>0, <1>17 DEF Connections!StopJoinsThreads, Connections!clientVars
  <2>3. \A c \in Clients : peer'[c] = "away" <=> peer[c] = "away"
    BY <1>0, <1>17 DEF ConnectionTypes, Connections!StopJoinsThreads
  <2> QED
    BY <1>0, <2>1, <2>2, <2>3, BacklogStays
<1>18. CASE UNCHANGED Connections!vars
  BY <1>0, <1>18, BacklogStays DEF Connections!vars
<1> QED
  BY <1>1, <1>2, <1>3, <1>4, <1>5, <1>6, <1>7, <1>8, <1>9, <1>10, <1>11, <1>12, <1>13,
     <1>14, <1>15, <1>16, <1>17, <1>18
  DEF Connections!Next, Connections!ClientNext, Connections!AcceptNext,
       Connections!ThreadNext, Connections!WriterNext, Connections!StopNext

(* Every step keeps FrontInv.                                              *)
LEMMA FrontKept ==
    ASSUME ConnectionInv, [Connections!Next]_(Connections!vars)
    PROVE  \A c \in Clients : FrontInv(c)'
<1>0. ConnectionTypes /\ BacklogInv /\ \A c \in Clients : FrontInv(c)
  BY DEF ConnectionInv
<1>1. ASSUME NEW d \in Clients, Connections!ClientConnects(d)
      PROVE  \A c \in Clients : FrontInv(c)'
  <2> SUFFICES ASSUME NEW c \in Clients PROVE FrontInv(c)'
    OBVIOUS
  <2>1. UNCHANGED <<inbox, role, thread, queue, writer, socket>>
    BY <1>1 DEF Connections!ClientConnects, Connections!clientVars
  <2> QED
    BY <1>0, <2>1 DEF FrontInv, Answering, Writing
<1>2. ASSUME NEW d \in Clients, NEW f \in Connections!Frames,
             Connections!ClientSends(d, f)
      PROVE  \A c \in Clients : FrontInv(c)'
  <2> SUFFICES ASSUME NEW c \in Clients PROVE FrontInv(c)'
    OBVIOUS
  <2>1. UNCHANGED <<role, thread, queue, writer, socket>>
    BY <1>2 DEF Connections!ClientSends
  <2>2. CASE c # d
    <3>1. inbox'[c] = inbox[c]
      BY <1>0, <1>2, <2>2 DEF ConnectionTypes, Connections!ClientSends
    <3> QED
      BY <1>0, <2>1, <3>1 DEF FrontInv, Answering, Writing
  <2>3. CASE c = d
    <3>1. inbox[c] \in Seq(FrameType) /\ inbox'[c] = Append(inbox[c], f)
      BY <1>0, <1>2, <2>3 DEF ConnectionTypes, Connections!ClientSends
    <3>2. f.kind # "ask" => f.n = 0 /\ inbox[c] = <<>> /\ role[c] = "none"
      BY <1>2, <2>3 DEF Connections!ClientSends, Connections!Frames
    <3>3. \A i \in 1 .. Len(inbox'[c]) :
             IF i \in 1 .. Len(inbox[c]) THEN inbox'[c][i] = inbox[c][i]
                                        ELSE inbox'[c][i] = f /\ i = Len(inbox[c]) + 1
      BY <3>1
    <3>4. \A i \in 1 .. Len(inbox'[c]) :
             inbox'[c][i].kind # "ask" => i = 1 /\ role[c] = "none" /\ inbox'[c][i].n = 0
      <4> SUFFICES ASSUME NEW i \in 1 .. Len(inbox'[c]), inbox'[c][i].kind # "ask"
                   PROVE  i = 1 /\ role[c] = "none" /\ inbox'[c][i].n = 0
        OBVIOUS
      <4>1. CASE i \in 1 .. Len(inbox[c])
        BY <1>0, <3>3, <4>1 DEF FrontInv
      <4>2. CASE i \notin 1 .. Len(inbox[c])
        <5>1. inbox'[c][i] = f /\ i = Len(inbox[c]) + 1 /\ inbox[c] = <<>>
          BY <3>2, <3>3, <4>2
        <5> QED
          BY <3>2, <5>1
      <4> QED
        BY <4>1, <4>2
    <3> QED
      BY <1>0, <2>1, <3>4 DEF FrontInv, Answering, Writing
  <2> QED
    BY <2>2, <2>3
<1>3. ASSUME NEW d \in Clients, Connections!ClientFallsDeaf(d)
      PROVE  \A c \in Clients : FrontInv(c)'
  <2> SUFFICES ASSUME NEW c \in Clients PROVE FrontInv(c)'
    OBVIOUS
  <2>1. UNCHANGED <<inbox, role, thread, queue, writer, socket>>
    BY <1>3 DEF Connections!ClientFallsDeaf, Connections!clientVars
  <2> QED
    BY <1>0, <2>1 DEF FrontInv, Answering, Writing
<1>4. ASSUME NEW d \in Clients, Connections!ClientLeaves(d)
      PROVE  \A c \in Clients : FrontInv(c)'
  <2> SUFFICES ASSUME NEW c \in Clients PROVE FrontInv(c)'
    OBVIOUS
  <2>1. UNCHANGED <<inbox, role, thread, queue, writer, socket>>
    BY <1>4 DEF Connections!ClientLeaves, Connections!clientVars
  <2> QED
    BY <1>0, <2>1 DEF FrontInv, Answering, Writing
<1>5. ASSUME Connections!AcceptReturns
      PROVE  \A c \in Clients : FrontInv(c)'
  <2> SUFFICES ASSUME NEW c \in Clients PROVE FrontInv(c)'
    OBVIOUS
  <2>1. UNCHANGED <<inbox, role, thread, queue, writer, socket>>
    BY <1>5 DEF Connections!AcceptReturns, Connections!clientVars
  <2> QED
    BY <1>0, <2>1 DEF FrontInv, Answering, Writing
<1>6. ASSUME Connections!AcceptAdds
      PROVE  \A c \in Clients : FrontInv(c)'
  <2> SUFFICES ASSUME NEW c \in Clients PROVE FrontInv(c)'
    OBVIOUS
  <2>1. UNCHANGED <<role, inbox, queue, writer>>
    BY <1>6 DEF Connections!AcceptAdds
  <2>2. CASE c # acceptor.client
    <3>1. socket'[c] = socket[c] /\ thread'[c] = thread[c]
      BY <1>0, <1>6, <2>2 DEF ConnectionTypes, Connections!AcceptAdds
    <3> QED
      BY <1>0, <2>1, <3>1 DEF FrontInv, Answering, Writing
  <2>3. CASE c = acceptor.client
    <3>0. c \in Clients /\ acceptor.at = "adds" /\ thread[c] \in ThreadType
      BY <1>0, <1>6 DEF ConnectionTypes, Connections!AcceptAdds
    <3>1. /\ socket'[c] # "none"
          /\ thread' = thread \/ thread'[c].at # "answers"
      <4>1. CASE thread' = thread
        BY <1>0, <1>6, <2>3, <4>1 DEF ConnectionTypes, Connections!AcceptAdds
      <4>2. CASE thread' = [thread EXCEPT ![c].at = IF running THEN "reads" ELSE "ended"]
        BY <1>0, <1>6, <2>3, <3>0, <4>2
           DEF ConnectionTypes, ThreadType, Connections!AcceptAdds
      <4> QED
        BY <1>6, <2>3, <4>1, <4>2 DEF Connections!AcceptAdds
    <3> QED
      BY <1>0, <2>1, <3>1 DEF FrontInv, Answering, Writing
  <2> QED
    BY <2>2, <2>3
<1>7. ASSUME NEW d \in Clients, Connections!ReadFails(d)
      PROVE  \A c \in Clients : FrontInv(c)'
  <2> SUFFICES ASSUME NEW c \in Clients PROVE FrontInv(c)'
    OBVIOUS
  <2>1. UNCHANGED <<role, writer>>
    BY <1>7 DEF Connections!ReadFails
  <2>2. CASE c # d
    <3>1. thread'[c] = thread[c] /\ socket'[c] = socket[c] /\ inbox'[c] = inbox[c]
      BY <1>0, <1>7, <2>2, LoopTurns DEF Connections!ReadFails
    <3>2. \A i \in 1 .. Len(queue') : queue'[i].client = c => role[c] = "Monitor"
      BY <1>0, <1>7 DEF FrontInv, Connections!ReadFails
    <3> QED
      BY <1>0, <2>1, <3>1, <3>2 DEF FrontInv, Answering, Writing
  <2>3. CASE c = d
    <3>1. /\ socket'[c] # "none" /\ thread'[c].at # "answers"
          /\ UNCHANGED inbox
      BY <1>0, <1>7, <2>3, LoopTurns
         DEF FrontInv, ConnectionTypes, Connections!ReadFails
    <3>2. \A i \in 1 .. Len(queue') : queue'[i].client = c => role[c] = "Monitor"
      BY <1>0, <1>7 DEF FrontInv, Connections!ReadFails
    <3> QED
      BY <1>0, <2>1, <3>1, <3>2 DEF FrontInv, Answering, Writing
  <2> QED
    BY <2>2, <2>3
<1>8. ASSUME NEW d \in Clients, Connections!ReadFrame(d)
      PROVE  \A c \in Clients : FrontInv(c)'
  <2> SUFFICES ASSUME NEW c \in Clients PROVE FrontInv(c)'
    OBVIOUS
  <2>1. UNCHANGED <<queue, writer>>
    BY <1>8 DEF Connections!ReadFrame
  <2>2. CASE c # d
    <3>1. inbox'[c] = inbox[c] /\ role'[c] = role[c]
      BY <1>0, <1>8, <2>2 DEF ConnectionTypes, Connections!ReadFrame
    <3>2. thread'[c] = thread[c] /\ socket'[c] = socket[c]
      <4>1. CASE Connections!Continues(d) \/ Connections!LeavesLoop(d)
        BY <1>0, <2>2, <4>1, LoopTurns
      <4>2. CASE /\ thread' = [thread EXCEPT ![d] = [at |-> "answers", n |-> Head(inbox[d]).n]]
                 /\ UNCHANGED socket
        BY <1>0, <2>2, <4>2 DEF ConnectionTypes
      <4> QED
        BY <1>8, <4>1, <4>2 DEF Connections!ReadFrame
    <3> QED
      BY <1>0, <2>1, <3>1, <3>2 DEF FrontInv, Answering, Writing
  <2>3. CASE c = d
    <3>0. inbox[c] \in Seq(FrameType) /\ inbox[c] # <<>> /\ inbox'[c] = Tail(inbox[c])
      BY <1>0, <1>8, <2>3 DEF ConnectionTypes, Connections!ReadFrame
    <3>1. \A i \in 1 .. Len(inbox'[c]) : inbox'[c][i].kind = "ask"
      <4>1. \A i \in 1 .. Len(inbox'[c]) :
               i + 1 \in 1 .. Len(inbox[c]) /\ i + 1 # 1 /\ inbox'[c][i] = inbox[c][i + 1]
        BY <3>0, InboxTaken
      <4> QED
        BY <1>0, <4>1 DEF FrontInv
    <3>2. /\ role'[c] \in {role[c], RoleOf[c]}
          /\ role'[c] # role[c] => role[c] = "none"
          /\ role[c] = "none" => thread'[c].at # "answers"
      BY <1>0, <1>8, <2>3, LoopTurns DEF ConnectionTypes, Connections!ReadFrame
    <3>3. socket[c] = "open" /\ RoleOf[c] # "none" /\ socket'[c] # "none"
      <4>1. socket[c] = "open"
        BY <1>8, <2>3 DEF Connections!ReadFrame
      <4>2. CASE Connections!Continues(d) \/ Connections!LeavesLoop(d)
        BY <1>0, <2>3, <4>1, <4>2, LoopTurns, ConnectionsAssumption
        DEF Connections!LimitAssumption
      <4>3. CASE UNCHANGED socket
        BY <1>0, <4>1, <4>3, ConnectionsAssumption DEF Connections!LimitAssumption
      <4> QED
        BY <1>8, <4>2, <4>3 DEF Connections!ReadFrame
    <3>4. /\ role[c] # "none" => role'[c] = role[c]
          /\ thread'[c].at = "answers" => role'[c] # "none"
          /\ role'[c] \in {"none", RoleOf[c]}
      BY <1>0, <3>2 DEF FrontInv
    <3>5. Writing(c)' => role'[c] = "Monitor"
      BY <1>0, <2>1, <3>4 DEF FrontInv, Writing
    <3>6. \A i \in 1 .. Len(queue') : queue'[i].client = c => role'[c] = "Monitor"
      BY <1>0, <2>1, <3>4 DEF FrontInv
    <3> QED
      BY <3>1, <3>3, <3>4, <3>5, <3>6 DEF FrontInv, Answering
  <2> QED
    BY <2>2, <2>3
<1>9. ASSUME NEW d \in Clients, Connections!AnswerManager(d)
      PROVE  \A c \in Clients : FrontInv(c)'
  <2> SUFFICES ASSUME NEW c \in Clients PROVE FrontInv(c)'
    OBVIOUS
  <2>1. UNCHANGED <<role, writer>>
    BY <1>9 DEF Connections!AnswerManager
  <2>2. CASE c # d
    <3>1. thread'[c] = thread[c] /\ socket'[c] = socket[c] /\ inbox'[c] = inbox[c]
      BY <1>0, <1>9, <2>2, LoopTurns DEF Connections!AnswerManager
    <3>2. \A i \in 1 .. Len(queue') : queue'[i].client = c => role[c] = "Monitor"
      BY <1>0, <1>9 DEF FrontInv, Connections!AnswerManager
    <3> QED
      BY <1>0, <2>1, <3>1, <3>2 DEF FrontInv, Answering, Writing
  <2>3. CASE c = d
    <3>1. /\ socket'[c] # "none" /\ thread'[c].at # "answers"
          /\ UNCHANGED inbox
      BY <1>0, <1>9, <2>3, LoopTurns
         DEF FrontInv, ConnectionTypes, Connections!AnswerManager
    <3>2. \A i \in 1 .. Len(queue') : queue'[i].client = c => role[c] = "Monitor"
      BY <1>0, <1>9 DEF FrontInv, Connections!AnswerManager
    <3> QED
      BY <1>0, <2>1, <3>1, <3>2 DEF FrontInv, Answering, Writing
  <2> QED
    BY <2>2, <2>3
<1>10. ASSUME NEW d \in Clients, Connections!AnswerMonitor(d)
      PROVE  \A c \in Clients : FrontInv(c)'
  <2> SUFFICES ASSUME NEW c \in Clients PROVE FrontInv(c)'
    OBVIOUS
  <2>1. UNCHANGED <<role, writer>>
    BY <1>10 DEF Connections!AnswerMonitor
  <2>2. CASE c # d
    <3>1. thread'[c] = thread[c] /\ socket'[c] = socket[c] /\ inbox'[c] = inbox[c]
      BY <1>0, <1>10, <2>2, LoopTurns DEF Connections!AnswerMonitor
    <3>2. \A i \in 1 .. Len(queue') : queue'[i].client = c => role[c] = "Monitor"
      <4>1. CASE UNCHANGED queue
        BY <1>0, <4>1 DEF FrontInv
      <4>2. CASE queue' = Append(queue, [client |-> d, n |-> thread[d].n])
        <5>0. thread[d].n \in Nat /\ queue \in Seq(AnswerType)
          BY <1>0 DEF ConnectionTypes, ThreadType
        <5>1. \A i \in 1 .. Len(queue') :
                 (queue'[i] = queue[i] /\ i \in 1 .. Len(queue)) \/ queue'[i].client = d
          BY <4>2, <5>0, QueueAppended
        <5>2. role[d] = "Monitor"
          BY <1>10 DEF Connections!AnswerMonitor
        <5> QED
          BY <1>0, <5>1, <5>2 DEF FrontInv
      <4> QED
        BY <1>10, <4>1, <4>2 DEF Connections!AnswerMonitor
    <3> QED
      BY <1>0, <2>1, <3>1, <3>2 DEF FrontInv, Answering, Writing
  <2>3. CASE c = d
    <3>1. /\ socket'[c] # "none" /\ thread'[c].at # "answers"
          /\ UNCHANGED inbox
      BY <1>0, <1>10, <2>3, LoopTurns
         DEF FrontInv, ConnectionTypes, Connections!AnswerMonitor
    <3>2. \A i \in 1 .. Len(queue') : queue'[i].client = c => role[c] = "Monitor"
      <4>1. CASE UNCHANGED queue
        BY <1>0, <4>1 DEF FrontInv
      <4>2. CASE queue' = Append(queue, [client |-> d, n |-> thread[d].n])
        <5>0. thread[d].n \in Nat /\ queue \in Seq(AnswerType)
          BY <1>0 DEF ConnectionTypes, ThreadType
        <5>1. \A i \in 1 .. Len(queue') :
                 (queue'[i] = queue[i] /\ i \in 1 .. Len(queue)) \/ queue'[i].client = d
          BY <4>2, <5>0, QueueAppended
        <5>2. role[d] = "Monitor"
          BY <1>10 DEF Connections!AnswerMonitor
        <5> QED
          BY <1>0, <5>1, <5>2 DEF FrontInv
      <4> QED
        BY <1>10, <4>1, <4>2 DEF Connections!AnswerMonitor
    <3> QED
      BY <1>0, <2>1, <3>1, <3>2 DEF FrontInv, Answering, Writing
  <2> QED
    BY <2>2, <2>3
<1>11. ASSUME Connections!WriterTakes
      PROVE  \A c \in Clients : FrontInv(c)'
  <2> SUFFICES ASSUME NEW c \in Clients PROVE FrontInv(c)'
    OBVIOUS
  <2>1. UNCHANGED <<inbox, role, thread, socket>>
    BY <1>11 DEF Connections!WriterTakes, Connections!clientVars
  <2>2. queue \in Seq(AnswerType) /\ queue # <<>> /\ queue' = Tail(queue)
    BY <1>0, <1>11 DEF ConnectionTypes, Connections!WriterTakes
  <2>3. /\ 1 \in 1 .. Len(queue) /\ Head(queue) = queue[1]
        /\ \A i \in 1 .. Len(queue') : i + 1 \in 1 .. Len(queue) /\ queue'[i] = queue[i + 1]
    BY <2>2
  <2>4. writer'.client = queue[1].client
    BY <1>11, <2>3 DEF Connections!WriterTakes
  <2>5. \A i \in 1 .. Len(queue) : queue[i].client = c => role[c] = "Monitor"
    BY <1>0 DEF FrontInv
  <2>6. \A i \in 1 .. Len(queue') : queue'[i].client = c => role[c] = "Monitor"
    BY <2>3, <2>5
  <2>7. writer'.client = c => role[c] = "Monitor"
    BY <2>3, <2>4, <2>5
  <2> QED
    BY <1>0, <2>1, <2>6, <2>7 DEF FrontInv, Answering, Writing
<1>12. ASSUME Connections!WriterWrites
      PROVE  \A c \in Clients : FrontInv(c)'
  <2> SUFFICES ASSUME NEW c \in Clients PROVE FrontInv(c)'
    OBVIOUS
  <2>1. UNCHANGED <<inbox, role, thread, queue>> /\ writer'.at = "waits"
    BY <1>12 DEF Connections!WriterWrites, Connections!Idle
  <2>2. socket'[c] = socket[c] \/ socket'[c] = "closed"
    BY <1>0, <1>12 DEF ConnectionTypes, Connections!WriterWrites
  <2> QED
    BY <1>0, <2>1, <2>2 DEF FrontInv, Answering, Writing
<1>13. ASSUME Connections!WriterEnds
      PROVE  \A c \in Clients : FrontInv(c)'
  <2> SUFFICES ASSUME NEW c \in Clients PROVE FrontInv(c)'
    OBVIOUS
  <2>1. UNCHANGED <<inbox, role, thread, queue, socket>> /\ writer'.at = "ended"
    BY <1>13 DEF Connections!WriterEnds, Connections!Ended, Connections!Idle,
       Connections!clientVars
  <2> QED
    BY <1>0, <2>1 DEF FrontInv, Answering, Writing
<1>14. ASSUME Connections!StopBegins
      PROVE  \A c \in Clients : FrontInv(c)'
  <2> SUFFICES ASSUME NEW c \in Clients PROVE FrontInv(c)'
    OBVIOUS
  <2>1. UNCHANGED <<inbox, role, thread, queue, writer, socket>>
    BY <1>14 DEF Connections!StopBegins, Connections!clientVars
  <2> QED
    BY <1>0, <2>1 DEF FrontInv, Answering, Writing
<1>15. ASSUME Connections!StopClosesListener
      PROVE  \A c \in Clients : FrontInv(c)'
  <2> SUFFICES ASSUME NEW c \in Clients PROVE FrontInv(c)'
    OBVIOUS
  <2>1. UNCHANGED <<inbox, role, thread, writer, socket>> /\ queue' = <<>>
    BY <1>15 DEF Connections!StopClosesListener, Connections!clientVars
  <2> QED
    BY <1>0, <2>1 DEF FrontInv, Answering, Writing
<1>16. ASSUME Connections!StopClosesClients
      PROVE  \A c \in Clients : FrontInv(c)'
  <2> SUFFICES ASSUME NEW c \in Clients PROVE FrontInv(c)'
    OBVIOUS
  <2>1. /\ UNCHANGED <<inbox, role, thread, writer, queue>>
        /\ socket'[c] = "none" => socket[c] = "none"
    BY <1>16 DEF Connections!StopClosesClients
  <2> QED
    BY <1>0, <2>1 DEF FrontInv, Answering, Writing
<1>17. ASSUME Connections!StopJoinsThreads
      PROVE  \A c \in Clients : FrontInv(c)'
  <2> SUFFICES ASSUME NEW c \in Clients PROVE FrontInv(c)'
    OBVIOUS
  <2>1. UNCHANGED <<inbox, role, thread, writer, socket>> /\ queue' = <<>>
    BY <1>17 DEF Connections!StopJoinsThreads, Connections!clientVars
  <2> QED
    BY <1>0, <2>1 DEF FrontInv, Answering, Writing
<1>18. CASE UNCHANGED Connections!vars
  <2> SUFFICES ASSUME NEW c \in Clients PROVE FrontInv(c)'
    OBVIOUS
  <2>1. UNCHANGED <<inbox, role, thread, queue, writer, socket>>
    BY <1>18 DEF Connections!vars, Connections!clientVars
  <2> QED
    BY <1>0, <2>1 DEF FrontInv, Answering, Writing
<1> QED
  BY <1>1, <1>2, <1>3, <1>4, <1>5, <1>6, <1>7, <1>8, <1>9, <1>10, <1>11, <1>12, <1>13,
     <1>14, <1>15, <1>16, <1>17, <1>18
  DEF Connections!Next, Connections!ClientNext, Connections!AcceptNext,
       Connections!ThreadNext, Connections!WriterNext, Connections!StopNext

(* Every step keeps StopInv.                                               *)
LEMMA StopKept ==
    ASSUME ConnectionInv, [Connections!Next]_(Connections!vars)
    PROVE  StopInv'
<1>0. ConnectionTypes /\ StopInv
  BY DEF ConnectionInv
<1>1. ASSUME NEW d \in Clients, Connections!ClientConnects(d)
      PROVE  StopInv'
  BY <1>0, <1>1 DEF StopInv, Connections!ClientConnects, Connections!clientVars,
     Connections!Open, Connections!ThreadsGone
<1>2. ASSUME NEW d \in Clients, NEW f \in Connections!Frames,
             Connections!ClientSends(d, f)
      PROVE  StopInv'
  BY <1>0, <1>2 DEF StopInv, Connections!ClientSends, Connections!clientVars,
     Connections!Open, Connections!ThreadsGone
<1>3. ASSUME NEW d \in Clients, Connections!ClientFallsDeaf(d)
      PROVE  StopInv'
  BY <1>0, <1>3 DEF StopInv, Connections!ClientFallsDeaf, Connections!clientVars,
     Connections!Open, Connections!ThreadsGone
<1>4. ASSUME NEW d \in Clients, Connections!ClientLeaves(d)
      PROVE  StopInv'
  BY <1>0, <1>4 DEF StopInv, Connections!ClientLeaves, Connections!clientVars,
     Connections!Open, Connections!ThreadsGone
<1>5. ASSUME Connections!AcceptReturns
      PROVE  StopInv'
  <2>1. acceptor # Connections!Ended
    BY <1>5 DEF Connections!AcceptReturns, Connections!Ended, Connections!Idle
  <2>2. acceptor'.at = "ended" => acceptor' = Connections!Ended
    BY <1>5 DEF Connections!AcceptReturns, Connections!Ended, Connections!Idle
  <2> QED
    BY <1>0, <1>5, <2>1, <2>2 DEF StopInv, Connections!AcceptReturns
<1>6. ASSUME Connections!AcceptAdds
      PROVE  StopInv'
  <2>1. acceptor # Connections!Ended
    BY <1>6 DEF Connections!AcceptAdds, Connections!Ended, Connections!Idle
  <2>2. acceptor'.at = "ended" => acceptor' = Connections!Ended
    BY <1>6 DEF Connections!AcceptAdds, Connections!Ended, Connections!Idle
  <2> QED
    BY <1>0, <1>6, <2>1, <2>2 DEF StopInv, Connections!AcceptAdds
<1>7. ASSUME NEW d \in Clients, Connections!ReadFails(d)
      PROVE  StopInv'
  <2>1. stopper # "done" /\ UNCHANGED <<running, stopper, acceptor>>
    BY <1>0, <1>7 DEF StopInv, Connections!ReadFails, Connections!ThreadsGone
  <2>2. \A c \in Clients : socket'[c] = "open" => socket[c] = "open"
    BY <1>0, <1>7, LoopTurns DEF Connections!ReadFails
  <2> QED
    BY <1>0, <2>1, <2>2 DEF StopInv, Connections!Open
<1>8. ASSUME NEW d \in Clients, Connections!ReadFrame(d)
      PROVE  StopInv'
  <2>1. stopper # "done" /\ UNCHANGED <<running, stopper, acceptor>>
    BY <1>0, <1>8 DEF StopInv, Connections!ReadFrame, Connections!ThreadsGone
  <2>2. \A c \in Clients : socket'[c] = "open" => socket[c] = "open"
    BY <1>0, <1>8, LoopTurns DEF Connections!ReadFrame
  <2> QED
    BY <1>0, <2>1, <2>2 DEF StopInv, Connections!Open
<1>9. ASSUME NEW d \in Clients, Connections!AnswerManager(d)
      PROVE  StopInv'
  <2>1. stopper # "done" /\ UNCHANGED <<running, stopper, acceptor>>
    BY <1>0, <1>9 DEF StopInv, Connections!AnswerManager, Connections!ThreadsGone
  <2>2. \A c \in Clients : socket'[c] = "open" => socket[c] = "open"
    BY <1>0, <1>9, LoopTurns DEF Connections!AnswerManager
  <2> QED
    BY <1>0, <2>1, <2>2 DEF StopInv, Connections!Open
<1>10. ASSUME NEW d \in Clients, Connections!AnswerMonitor(d)
      PROVE  StopInv'
  <2>1. stopper # "done" /\ UNCHANGED <<running, stopper, acceptor>>
    BY <1>0, <1>10 DEF StopInv, Connections!AnswerMonitor, Connections!ThreadsGone
  <2>2. \A c \in Clients : socket'[c] = "open" => socket[c] = "open"
    BY <1>0, <1>10, LoopTurns DEF Connections!AnswerMonitor
  <2> QED
    BY <1>0, <2>1, <2>2 DEF StopInv, Connections!Open
<1>11. ASSUME Connections!WriterTakes
      PROVE  StopInv'
  <2>1. stopper = "none"
    BY <1>0, <1>11 DEF StopInv, Connections!WriterTakes
  <2> QED
    BY <1>0, <1>11, <2>1 DEF StopInv, Connections!WriterTakes
<1>12. ASSUME Connections!WriterWrites
      PROVE  StopInv'
  <2>1. stopper # "done"
    BY <1>0, <1>12 DEF StopInv, Connections!WriterWrites, Connections!ThreadsGone,
       Connections!Ended, Connections!Idle
  <2>2. \A c \in Clients : socket'[c] = "open" => socket[c] = "open"
    BY <1>0, <1>12 DEF ConnectionTypes, Connections!WriterWrites
  <2> QED
    BY <1>0, <1>12, <2>1, <2>2 DEF StopInv, Connections!WriterWrites, Connections!Open
<1>13. ASSUME Connections!WriterEnds
      PROVE  StopInv'
  <2>1. stopper # "done"
    BY <1>0, <1>13 DEF StopInv, Connections!WriterEnds, Connections!ThreadsGone,
       Connections!Ended, Connections!Idle
  <2> QED
    BY <1>0, <1>13, <2>1 DEF StopInv, Connections!WriterEnds, Connections!Open,
       Connections!clientVars
<1>14. ASSUME Connections!StopBegins
      PROVE  StopInv'
  BY <1>0, <1>14 DEF StopInv, Connections!StopBegins, Connections!clientVars,
     Connections!Open, Connections!ThreadsGone
<1>15. ASSUME Connections!StopClosesListener
      PROVE  StopInv'
  BY <1>0, <1>15 DEF StopInv, Connections!StopClosesListener, Connections!clientVars,
     Connections!Open, Connections!ThreadsGone
<1>16. ASSUME Connections!StopClosesClients
      PROVE  StopInv'
  <2>1. Connections!Open' = {}
    BY <1>0, <1>16 DEF ConnectionTypes, Connections!StopClosesClients, Connections!Open
  <2>2. acceptor = Connections!Ended
    BY <1>0, <1>16 DEF ConnectionTypes, PostType, StopInv,
       Connections!StopClosesClients, Connections!AcceptorGone
  <2> QED
    BY <1>0, <1>16, <2>1, <2>2 DEF StopInv, Connections!StopClosesClients
<1>17. ASSUME Connections!StopJoinsThreads
      PROVE  StopInv'
  BY <1>0, <1>17 DEF StopInv, Connections!StopJoinsThreads, Connections!clientVars,
     Connections!Open, Connections!ThreadsGone
<1>18. CASE UNCHANGED Connections!vars
  BY <1>0, <1>18 DEF StopInv, Connections!vars, Connections!Open,
     Connections!ThreadsGone
<1> QED
  BY <1>1, <1>2, <1>3, <1>4, <1>5, <1>6, <1>7, <1>8, <1>9, <1>10, <1>11, <1>12, <1>13,
     <1>14, <1>15, <1>16, <1>17, <1>18
  DEF Connections!Next, Connections!ClientNext, Connections!AcceptNext,
       Connections!ThreadNext, Connections!WriterNext, Connections!StopNext

(* A step that neither takes nor adds a request or an answer of c.         *)
LEMMA LiveStays ==
    ASSUME NEW c \in Clients, LiveInv(c),
           running' => running, role'[c] = role[c],
           inbox'[c] = inbox[c], asked'[c] = asked[c], replies'[c] = replies[c],
           \/ thread'[c] = thread[c]
           \/ thread'[c].at # "answers" /\ thread[c].at # "answers",
           \/ UNCHANGED writer
           \/ ~Writing(c) /\ ~Writing(c)',
           running' \/ role[c] # "Monitor" =>
               /\ OwedIn(queue', c) = OwedIn(queue, c)
               /\ AnswersRise(queue, c) => AnswersRise(queue', c)
    PROVE  LiveInv(c)'
<1>1. /\ Answering(c)' <=> Answering(c)
      /\ Answering(c) => thread'[c].n = thread[c].n
      /\ Writing(c)' <=> Writing(c)
      /\ Writing(c) => writer'.n = writer.n
  BY DEF Answering, Writing
<1>2. InStep(c)' => InStep(c) /\ (running' \/ role[c] # "Monitor")
  BY DEF InStep
<1>3. ASSUME NEW h \in Nat, Chain(c, h), OwedIn(queue', c) = OwedIn(queue, c)
      PROVE  Chain(c, h)'
  <2>1. Given(c)' = Given(c) /\ Taken(c, h)' = Taken(c, h)
    BY <1>1 DEF Given, Taken
  <2> QED
    BY <1>1, <1>3, <2>1 DEF Chain
<1> QED
  BY <1>1, <1>2, <1>3 DEF LiveInv

(* A Manager is answered by its own thread, so nothing is owed to it.      *)
LEMMA ManagerOwedNothing ==
    ASSUME NEW c \in Clients, FrontInv(c), role[c] = "Manager", replies[c] \in Seq(Nat),
           NEW h \in Nat, Chain(c, h)
    PROVE  Len(replies[c]) = h /\ ~Writing(c) /\ OwedIn(queue, c) = {}
<1>1. ~Writing(c) /\ OwedIn(queue, c) = {}
  BY DEF FrontInv, OwedIn
<1>2. Len(replies[c]) \in Nat /\ Given(c) = Len(replies[c])
  BY <1>1 DEF Given
<1>3. Len(replies[c]) + 1 .. h = {} /\ Len(replies[c]) <= h
  BY <1>1, <1>2 DEF Chain
<1> QED
  BY <1>1, <1>2, <1>3

(* An interval that grows or shrinks by one at an end.                     *)
LEMMA IntervalEnds ==
    ASSUME NEW a \in Nat, NEW b \in Nat, a <= b
    PROVE  /\ (a + 1 .. b) \cup {b + 1} = a + 1 .. b + 1
           /\ (a .. b) \ {a} = a + 1 .. b
OBVIOUS

(* Every step keeps the chain of every connection that stays open.         *)
LEMMA LiveKept ==
    ASSUME ConnectionInv, [Connections!Next]_(Connections!vars)
    PROVE  \A c \in Clients : socket'[c] # "closed" => LiveInv(c)'
<1>0. /\ ConnectionTypes /\ BacklogInv /\ StopInv /\ \A c \in Clients : FrontInv(c)
      /\ \A c \in Clients : socket[c] # "closed" => LiveInv(c)
  BY DEF ConnectionInv
<1>1. ASSUME NEW d \in Clients, Connections!ClientConnects(d)
      PROVE  \A c \in Clients : socket'[c] # "closed" => LiveInv(c)'
  <2> SUFFICES ASSUME NEW c \in Clients, socket'[c] # "closed" PROVE LiveInv(c)'
    OBVIOUS
  <2>1. UNCHANGED <<socket, inbox, role, thread, queue, writer, asked, replies, running>>
    BY <1>1 DEF Connections!ClientConnects, Connections!clientVars
  <2>2. LiveInv(c)
    BY <1>0, <2>1
  <2> QED
    BY <2>1, <2>2, LiveStays
<1>2. ASSUME NEW d \in Clients, NEW f \in Connections!Frames,
             Connections!ClientSends(d, f)
      PROVE  \A c \in Clients : socket'[c] # "closed" => LiveInv(c)'
  <2> SUFFICES ASSUME NEW c \in Clients, socket'[c] # "closed" PROVE LiveInv(c)'
    OBVIOUS
  <2>1. UNCHANGED <<socket, role, thread, queue, writer, replies, running>>
    BY <1>2 DEF Connections!ClientSends
  <2>2. LiveInv(c) /\ FrontInv(c)
    BY <1>0, <2>1
  <2>3. CASE c # d
    <3>1. inbox'[c] = inbox[c] /\ asked'[c] = asked[c]
      BY <1>0, <1>2, <2>3 DEF ConnectionTypes, Connections!ClientSends
    <3> QED
      BY <2>1, <2>2, <3>1, LiveStays
  <2>4. CASE c = d
    <3>0. f \in FrameType
      BY ConnectionsAssumption DEF Connections!Frames, Connections!LimitAssumption,
         FrameType
    <3>1. /\ inbox[c] \in Seq(FrameType) /\ inbox'[c] = Append(inbox[c], f)
          /\ asked[c] \in Nat
          /\ asked'[c] = IF f.kind = "ask" THEN f.n ELSE asked[c]
      BY <1>0, <1>2, <2>4 DEF ConnectionTypes, Connections!ClientSends
    <3>2. /\ f.kind = "ask" => f.n = asked[c] + 1
          /\ f.kind # "ask" => inbox[c] = <<>>
      BY <1>2, <2>4 DEF Connections!ClientSends
    <3> SUFFICES ASSUME InStep(c)
                 PROVE  FramesRise(inbox'[c]) /\ \E h \in Nat : Chain(c, h)'
      BY <2>1, <2>2 DEF LiveInv, InStep, Answering, Writing
    <3>3. FramesRise(inbox[c])
      BY <2>2 DEF LiveInv
    <3>4. PICK h \in Nat : Chain(c, h)
      BY <2>2 DEF LiveInv
    <3>5. Given(c)' = Given(c) /\ Taken(c, h)' = Taken(c, h) /\ Taken(c, h) \in Nat
      BY <2>1 DEF Given, Taken, Writing, Answering
    <3>6. CASE f.kind = "ask"
      <4>1. \A i \in 1 .. Len(inbox[c]) : inbox[c][i].n < f.n
        <5> SUFFICES ASSUME NEW i \in 1 .. Len(inbox[c]) PROVE inbox[c][i].n < f.n
          OBVIOUS
        <5>1. CASE inbox[c][i].kind = "ask"
          <6>1. inbox[c][i].n \in AskedIn(inbox[c])
            BY <5>1 DEF AskedIn
          <6> QED
            BY <3>1, <3>2, <3>4, <3>5, <3>6, <6>1 DEF Chain
        <5>2. CASE inbox[c][i].kind # "ask"
          BY <2>2, <3>1, <3>2, <3>6, <5>2 DEF FrontInv
        <5> QED
          BY <5>1, <5>2
      <4>2. /\ FramesRise(inbox'[c])
            /\ AskedIn(inbox'[c]) = AskedIn(inbox[c]) \cup {f.n}
        <5>1. /\ FramesRise(Append(inbox[c], f))
              /\ AskedIn(Append(inbox[c], f)) = AskedIn(inbox[c]) \cup {f.n}
          BY <3>0, <3>1, <3>3, <3>6, <4>1, InboxAppended
        <5> QED
          BY <3>1, <5>1
      <4>3. AskedIn(inbox'[c]) = Taken(c, h) + 1 .. asked'[c]
        <5>1. AskedIn(inbox[c]) = Taken(c, h) + 1 .. asked[c] /\ Taken(c, h) <= asked[c]
          BY <3>4 DEF Chain
        <5>2. asked'[c] = asked[c] + 1 /\ f.n = asked[c] + 1
          BY <3>1, <3>2, <3>6
        <5>3. (Taken(c, h) + 1 .. asked[c]) \cup {asked[c] + 1}
                  = Taken(c, h) + 1 .. asked[c] + 1
          BY <3>1, <3>5, <5>1, IntervalEnds
        <5>4. AskedIn(inbox'[c]) = Taken(c, h) + 1 .. asked[c] + 1
          BY <4>2, <5>1, <5>2, <5>3
        <5> QED
          BY <5>2, <5>4
      <4>4. Taken(c, h) <= asked'[c]
        BY <3>1, <3>2, <3>4, <3>5, <3>6 DEF Chain
      <4>5. Chain(c, h)'
        BY <2>1, <3>4, <3>5, <4>3, <4>4 DEF Chain, Answering
      <4> QED
        BY <4>2, <4>5
    <3>7. CASE f.kind # "ask"
      <4>1. FramesRise(inbox'[c]) /\ AskedIn(inbox'[c]) = AskedIn(inbox[c])
        <5>1. \A i \in 1 .. Len(inbox[c]) : inbox[c][i].n < f.n
          BY <3>2, <3>7
        <5>2. /\ FramesRise(Append(inbox[c], f))
              /\ AskedIn(Append(inbox[c], f)) = AskedIn(inbox[c])
          BY <3>0, <3>1, <3>3, <3>7, <5>1, InboxAppended
        <5> QED
          BY <3>1, <5>2
      <4>2. Chain(c, h)'
        BY <2>1, <3>1, <3>4, <3>5, <3>7, <4>1 DEF Chain, Answering
      <4> QED
        BY <4>1, <4>2
    <3> QED
      BY <3>6, <3>7
  <2> QED
    BY <2>3, <2>4
<1>3. ASSUME NEW d \in Clients, Connections!ClientFallsDeaf(d)
      PROVE  \A c \in Clients : socket'[c] # "closed" => LiveInv(c)'
  <2> SUFFICES ASSUME NEW c \in Clients, socket'[c] # "closed" PROVE LiveInv(c)'
    OBVIOUS
  <2>1. UNCHANGED <<socket, inbox, role, thread, queue, writer, asked, replies, running>>
    BY <1>3 DEF Connections!ClientFallsDeaf, Connections!clientVars
  <2>2. LiveInv(c)
    BY <1>0, <2>1
  <2> QED
    BY <2>1, <2>2, LiveStays
<1>4. ASSUME NEW d \in Clients, Connections!ClientLeaves(d)
      PROVE  \A c \in Clients : socket'[c] # "closed" => LiveInv(c)'
  <2> SUFFICES ASSUME NEW c \in Clients, socket'[c] # "closed" PROVE LiveInv(c)'
    OBVIOUS
  <2>1. UNCHANGED <<socket, inbox, role, thread, queue, writer, asked, replies, running>>
    BY <1>4 DEF Connections!ClientLeaves, Connections!clientVars
  <2>2. LiveInv(c)
    BY <1>0, <2>1
  <2> QED
    BY <2>1, <2>2, LiveStays
<1>5. ASSUME Connections!AcceptReturns
      PROVE  \A c \in Clients : socket'[c] # "closed" => LiveInv(c)'
  <2> SUFFICES ASSUME NEW c \in Clients, socket'[c] # "closed" PROVE LiveInv(c)'
    OBVIOUS
  <2>1. UNCHANGED <<socket, inbox, role, thread, queue, writer, asked, replies, running>>
    BY <1>5 DEF Connections!AcceptReturns, Connections!clientVars
  <2>2. LiveInv(c)
    BY <1>0, <2>1
  <2> QED
    BY <2>1, <2>2, LiveStays
<1>6. ASSUME Connections!AcceptAdds
      PROVE  \A c \in Clients : socket'[c] # "closed" => LiveInv(c)'
  <2> SUFFICES ASSUME NEW c \in Clients, socket'[c] # "closed" PROVE LiveInv(c)'
    OBVIOUS
  <2>1. UNCHANGED <<inbox, role, queue, writer, asked, replies, running>>
    BY <1>6 DEF Connections!AcceptAdds
  <2>2. CASE c # acceptor.client
    <3>1. socket'[c] = socket[c] /\ thread'[c] = thread[c]
      BY <1>0, <1>6, <2>2 DEF ConnectionTypes, Connections!AcceptAdds
    <3>2. LiveInv(c)
      BY <1>0, <3>1
    <3> QED
      BY <2>1, <3>1, <3>2, LiveStays
  <2>3. CASE c = acceptor.client
    <3>1. thread' = thread \/ thread'[c].at # "answers"
      BY <1>0, <1>6, <2>3 DEF ConnectionTypes, ThreadType, Connections!AcceptAdds
    <3>2. socket[c] = "none" /\ thread[c].at = "none"
      BY <1>0, <1>6, <2>3 DEF BacklogInv, FrontInv, Connections!AcceptAdds
    <3>3. LiveInv(c)
      BY <1>0, <3>2
    <3> QED
      BY <2>1, <3>1, <3>2, <3>3, LiveStays
  <2> QED
    BY <2>2, <2>3
<1>7. ASSUME NEW d \in Clients, Connections!ReadFails(d)
      PROVE  \A c \in Clients : socket'[c] # "closed" => LiveInv(c)'
  <2> SUFFICES ASSUME NEW c \in Clients, socket'[c] # "closed" PROVE LiveInv(c)'
    OBVIOUS
  <2>1. UNCHANGED <<inbox, role, queue, writer, asked, replies, running>>
    BY <1>7 DEF Connections!ReadFails
  <2>2. /\ c # d /\ thread'[c] = thread[c] /\ socket'[c] = socket[c]
    BY <1>0, <1>7 DEF ConnectionTypes, Connections!ReadFails, Connections!LeavesLoop
  <2>3. LiveInv(c)
    BY <1>0, <2>2
  <2> QED
    BY <2>1, <2>2, <2>3, LiveStays
<1>8. ASSUME NEW d \in Clients, Connections!ReadFrame(d)
      PROVE  \A c \in Clients : socket'[c] # "closed" => LiveInv(c)'
  <2> SUFFICES ASSUME NEW c \in Clients, socket'[c] # "closed" PROVE LiveInv(c)'
    OBVIOUS
  <2>1. UNCHANGED <<queue, writer, asked, replies, running>>
    BY <1>8 DEF Connections!ReadFrame
  <2>2. CASE c # d
    <3>1. inbox'[c] = inbox[c] /\ role'[c] = role[c]
      BY <1>0, <1>8, <2>2 DEF ConnectionTypes, Connections!ReadFrame
    <3>2. thread'[c] = thread[c] /\ socket'[c] = socket[c]
      <4>1. CASE Connections!Continues(d) \/ Connections!LeavesLoop(d)
        BY <1>0, <2>2, <4>1, LoopTurns
      <4>2. CASE /\ thread' = [thread EXCEPT ![d] = [at |-> "answers", n |-> Head(inbox[d]).n]]
                 /\ UNCHANGED socket
        BY <1>0, <2>2, <4>2 DEF ConnectionTypes
      <4> QED
        BY <1>8, <4>1, <4>2 DEF Connections!ReadFrame
    <3>3. LiveInv(c)
      BY <1>0, <3>2
    <3> QED
      BY <2>1, <3>1, <3>2, <3>3, LiveStays
  <2>3. CASE c = d
    <3>0. /\ inbox[c] \in Seq(FrameType) /\ inbox[c] # <<>>
          /\ inbox'[c] = Tail(inbox[c])
          /\ socket[c] = "open" /\ ~Answering(c)
          /\ asked[c] \in Nat /\ replies[c] \in Seq(Nat)
      BY <1>0, <1>8, <2>3 DEF ConnectionTypes, Connections!ReadFrame, Answering
    <3>1. LiveInv(c) /\ FrontInv(c)
      BY <1>0, <3>0
    <3>2. CASE role[c] = "none"
      <4>0. Head(inbox[c]).kind = "hello" /\ Connections!Continues(d)
        BY <1>0, <1>8, <2>3, <3>2
           DEF ConnectionTypes, Connections!ReadFrame, Connections!LeavesLoop
      <4>1. /\ Head(inbox[c]).kind # "ask" /\ running /\ ~Answering(c)'
        BY <1>0, <2>3, <4>0, LoopTurns DEF Answering
      <4>2. /\ FramesRise(inbox'[c]) /\ AskedIn(inbox'[c]) = AskedIn(inbox[c])
            /\ AnswersRise(queue, c)
        BY <3>0, <3>1, <4>1, InboxTaken DEF LiveInv, InStep
      <4>3. PICK h \in Nat : Chain(c, h)
        BY <3>1, <4>1 DEF LiveInv, InStep
      <4>4. Given(c)' = Given(c) /\ Taken(c, h)' = Taken(c, h)
        BY <2>1, <3>0, <4>1 DEF Given, Taken, Writing
      <4>5. Chain(c, h)'
        BY <2>1, <4>1, <4>2, <4>3, <4>4 DEF Chain
      <4> QED
        BY <2>1, <3>1, <4>1, <4>2, <4>5 DEF LiveInv, Writing
    <3>3. CASE role[c] # "none"
      <4>1. /\ role' = role /\ UNCHANGED socket
            /\ thread'[c] = [at |-> "answers", n |-> Head(inbox[c]).n]
        BY <1>0, <1>8, <2>3, <3>3 DEF ConnectionTypes, Connections!ReadFrame
      <4>2. Head(inbox[c]) = inbox[c][1] /\ 1 \in 1 .. Len(inbox[c])
        BY <3>0, InboxTaken
      <4>3. Head(inbox[c]).kind = "ask"
        BY <3>1, <3>3, <4>2 DEF FrontInv
      <4>4. Answering(c)' /\ (Writing(c)' <=> Writing(c)) /\ (InStep(c)' <=> InStep(c))
        BY <2>1, <4>1 DEF Answering, Writing, InStep
      <4>5. ASSUME InStep(c)
            PROVE  /\ FramesRise(inbox'[c]) /\ AnswersRise(queue, c)
                   /\ \E h \in Nat : Chain(c, h)'
                   /\ role[c] = "Manager" => thread'[c].n = Len(replies[c]) + 1
        <5>1. PICK h \in Nat : Chain(c, h)
          BY <3>1, <4>5 DEF LiveInv
        <5>2. /\ FramesRise(inbox[c]) /\ AnswersRise(queue, c)
          BY <3>1, <4>5 DEF LiveInv
        <5>3. /\ FramesRise(inbox'[c])
              /\ AskedIn(inbox'[c]) = AskedIn(inbox[c]) \ {Head(inbox[c]).n}
              /\ Head(inbox[c]).n \in AskedIn(inbox[c])
              /\ \A x \in AskedIn(inbox[c]) : Head(inbox[c]).n <= x
          BY <3>0, <4>3, <5>2, InboxTaken
        <5>4. AskedIn(inbox[c]) = h + 1 .. asked[c]
          BY <3>0, <5>1 DEF Chain, Taken
        <5>5. Head(inbox[c]).n = h + 1 /\ h + 1 <= asked[c]
          <6>1. Head(inbox[c]).n \in h + 1 .. asked[c]
            BY <5>3, <5>4
          <6>2. h + 1 \in AskedIn(inbox[c])
            BY <3>0, <5>4, <6>1
          <6>3. Head(inbox[c]).n <= h + 1
            BY <5>3, <6>2
          <6> QED
            BY <3>0, <6>1, <6>3
        <5>6. AskedIn(inbox'[c]) = (h + 1) + 1 .. asked[c]
          <6>1. ((h + 1) .. asked[c]) \ {h + 1} = (h + 1) + 1 .. asked[c]
            BY <3>0, <5>5, h + 1 \in Nat, IntervalEnds
          <6> QED
            BY <5>3, <5>4, <5>5, <6>1
        <5>7. Given(c)' = Given(c) /\ Taken(c, h)' = h + 1
          BY <2>1, <4>4 DEF Given, Taken, Writing
        <5>8. Chain(c, h)'
          BY <2>1, <4>1, <5>1, <5>5, <5>6, <5>7 DEF Chain
        <5>9. role[c] = "Manager" => Len(replies[c]) = h
          BY <3>0, <3>1, <5>1, ManagerOwedNothing
        <5> QED
          BY <4>1, <5>2, <5>3, <5>5, <5>8, <5>9
      <4>6. role[c] = "Manager" => InStep(c)
        BY DEF InStep
      <4> QED
        BY <2>1, <3>1, <4>1, <4>4, <4>5, <4>6 DEF LiveInv, Writing
    <3> QED
      BY <3>2, <3>3
  <2> QED
    BY <2>2, <2>3
<1>9. ASSUME NEW d \in Clients, Connections!AnswerManager(d)
      PROVE  \A c \in Clients : socket'[c] # "closed" => LiveInv(c)'
  <2> SUFFICES ASSUME NEW c \in Clients, socket'[c] # "closed" PROVE LiveInv(c)'
    OBVIOUS
  <2>1. UNCHANGED <<inbox, role, queue, writer, asked, running>>
    BY <1>9 DEF Connections!AnswerManager
  <2>2. CASE c # d
    <3>1. thread'[c] = thread[c] /\ socket'[c] = socket[c]
      BY <1>0, <1>9, <2>2, LoopTurns DEF Connections!AnswerManager
    <3>2. replies'[c] = replies[c]
      BY <1>0, <1>9, <2>2 DEF ConnectionTypes, Connections!AnswerManager,
         Connections!Wrote
    <3>3. LiveInv(c)
      BY <1>0, <3>1
    <3> QED
      BY <2>1, <3>1, <3>2, <3>3, LiveStays
  <2>3. CASE c = d
    <3>0. socket[c] # "closed" /\ thread'[c].at = "reads"
      BY <1>0, <1>9, <2>3, LoopTurns
         DEF ConnectionTypes, Connections!AnswerManager, Connections!CanWrite
    <3>1. LiveInv(c) /\ FrontInv(c) /\ Answering(c) /\ role[c] = "Manager" /\ InStep(c)
      BY <1>0, <1>9, <2>3, <3>0 DEF Connections!AnswerManager, Answering, InStep
    <3>2. /\ replies[c] \in Seq(Nat) /\ thread[c].n = Len(replies[c]) + 1
      BY <1>0, <3>1 DEF ConnectionTypes, LiveInv
    <3>3. replies'[c] = Append(replies[c], thread[c].n)
      BY <1>0, <1>9, <2>3, <3>0
         DEF ConnectionTypes, Connections!AnswerManager, Connections!LeavesLoop,
         Connections!Wrote
    <3>4. Len(replies'[c]) = Len(replies[c]) + 1 /\ Len(replies[c]) \in Nat
      BY <3>2, <3>3
    <3>5. PICK h \in Nat : Chain(c, h)
      BY <3>1 DEF LiveInv
    <3>6. Len(replies[c]) = h /\ ~Writing(c) /\ OwedIn(queue, c) = {}
      BY <3>1, <3>2, <3>5, ManagerOwedNothing
    <3>7. ~Answering(c)' /\ ~Writing(c)' /\ role'[c] = "Manager"
      BY <2>1, <3>0, <3>1, <3>6 DEF Answering, Writing
    <3>8. Given(c)' = h + 1 /\ Taken(c, h + 1)' = h + 1 /\ Taken(c, h) = h + 1
      BY <3>1, <3>4, <3>6, <3>7 DEF Given, Taken
    <3>9. OwedIn(queue, c) = Given(c)' + 1 .. h + 1
      BY <3>6, <3>8
    <3>10. Chain(c, h + 1)'
      BY <2>1, <3>5, <3>7, <3>8, <3>9 DEF Chain
    <3> QED
      BY <2>1, <3>1, <3>7, <3>10 DEF LiveInv
  <2> QED
    BY <2>2, <2>3
<1>10. ASSUME NEW d \in Clients, Connections!AnswerMonitor(d)
      PROVE  \A c \in Clients : socket'[c] # "closed" => LiveInv(c)'
  <2> SUFFICES ASSUME NEW c \in Clients, socket'[c] # "closed" PROVE LiveInv(c)'
    OBVIOUS
  <2>1. UNCHANGED <<inbox, role, replies, writer, asked, running>>
    BY <1>10 DEF Connections!AnswerMonitor
  <2>2. thread[d].n \in Nat /\ queue \in Seq(AnswerType)
    BY <1>0 DEF ConnectionTypes, ThreadType
  <2>3. CASE c # d
    <3>1. thread'[c] = thread[c] /\ socket'[c] = socket[c]
      BY <1>0, <1>10, <2>3, LoopTurns DEF Connections!AnswerMonitor
    <3>2. /\ OwedIn(queue', c) = OwedIn(queue, c)
          /\ AnswersRise(queue, c) => AnswersRise(queue', c)
      <4>1. CASE queue' = Append(queue, [client |-> d, n |-> thread[d].n])
        <5>1. c \in Clients \ {d}
          BY <2>3
        <5> QED
          BY <2>2, <4>1, <5>1, QueueAppended
      <4>2. CASE queue' = queue
        BY <4>2
      <4> QED
        BY <1>10, <4>1, <4>2 DEF Connections!AnswerMonitor
    <3>3. LiveInv(c)
      BY <1>0, <3>1
    <3> QED
      BY <2>1, <3>1, <3>2, <3>3, LiveStays
  <2>4. CASE c = d
    <3>0. /\ thread'[c].at = "reads" /\ running /\ socket' = socket
          /\ queue' = Append(queue, [client |-> d, n |-> thread[d].n])
      BY <1>0, <1>10, <2>4, LoopTurns
         DEF ConnectionTypes, Connections!AnswerMonitor, Connections!LeavesLoop
    <3>1. LiveInv(c) /\ Answering(c) /\ InStep(c) /\ role[c] = "Monitor"
      BY <1>0, <1>10, <2>4, <3>0 DEF Connections!AnswerMonitor, Answering, InStep
    <3>2. PICK h \in Nat : Chain(c, h)
      BY <3>1 DEF LiveInv
    <3>3. thread[c].n = h + 1 /\ OwedIn(queue, c) = Given(c) + 1 .. h /\ Given(c) <= h
      BY <3>1, <3>2 DEF Chain
    <3>4. Given(c) \in Nat /\ AnswersRise(queue, c) /\ FramesRise(inbox[c])
      BY <1>0, <3>1 DEF LiveInv, Given, ConnectionTypes
    <3>5. \A x \in OwedIn(queue, c) : x < h + 1
      BY <3>3, <3>4
    <3>6. AnswersRise(queue', c) /\ OwedIn(queue', c) = OwedIn(queue, c) \cup {h + 1}
      <4>1. /\ OwedIn(queue', d) = OwedIn(queue, d) \cup {thread[d].n}
            /\ AnswersRise(queue, d) /\ (\A x \in OwedIn(queue, d) : x < thread[d].n) =>
                   AnswersRise(queue', d)
        BY <2>2, <3>0, QueueAppended
      <4> QED
        BY <2>4, <3>3, <3>4, <3>5, <4>1
    <3>7. OwedIn(queue', c) = Given(c) + 1 .. h + 1
      BY <3>3, <3>4, <3>6
    <3>8. ~Answering(c)' /\ (Writing(c)' <=> Writing(c))
      BY <2>1, <3>0 DEF Answering, Writing
    <3>9. Given(c)' = Given(c) /\ Taken(c, h + 1)' = h + 1 /\ Taken(c, h) = h + 1
      <4>1. Given(c)' = Given(c)
        BY <2>1, <3>8 DEF Given
      <4>2. Taken(c, h + 1)' = h + 1
        BY <3>8 DEF Taken
      <4>3. Taken(c, h) = h + 1
        BY <3>1 DEF Taken
      <4> QED
        BY <4>1, <4>2, <4>3
    <3>10. Chain(c, h + 1)'
      BY <2>1, <3>2, <3>3, <3>4, <3>7, <3>8, <3>9 DEF Chain
    <3> QED
      BY <2>1, <3>1, <3>4, <3>6, <3>8, <3>10 DEF LiveInv, Writing
  <2> QED
    BY <2>3, <2>4
<1>11. ASSUME Connections!WriterTakes
      PROVE  \A c \in Clients : socket'[c] # "closed" => LiveInv(c)'
  <2> SUFFICES ASSUME NEW c \in Clients, socket'[c] # "closed" PROVE LiveInv(c)'
    OBVIOUS
  <2>1. UNCHANGED <<socket, inbox, role, thread, replies, asked, running>> /\ running
    BY <1>11 DEF Connections!WriterTakes, Connections!clientVars
  <2>2. LiveInv(c) /\ InStep(c)
    BY <1>0, <2>1 DEF InStep
  <2>3. /\ queue \in Seq(AnswerType) /\ queue # <<>> /\ queue' = Tail(queue)
        /\ writer'.at = "writes" /\ writer'.client = Head(queue).client
        /\ writer'.n = Head(queue).n /\ ~Writing(c)
    BY <1>0, <1>11 DEF ConnectionTypes, Connections!WriterTakes, Writing
  <2>4. AnswersRise(queue, c) /\ FramesRise(inbox[c])
    BY <2>2 DEF LiveInv
  <2>5. CASE c # Head(queue).client
    <3>1. OwedIn(queue', c) = OwedIn(queue, c) /\ AnswersRise(queue', c)
      BY <2>3, <2>4, <2>5, QueueTaken
    <3>2. ~Writing(c)'
      BY <2>3, <2>5 DEF Writing
    <3> QED
      BY <2>1, <2>2, <2>3, <3>1, <3>2, LiveStays
  <2>6. CASE c = Head(queue).client
    <3>1. /\ AnswersRise(queue', c)
          /\ OwedIn(queue', c) = OwedIn(queue, c) \ {Head(queue).n}
          /\ Head(queue).n \in OwedIn(queue, c)
          /\ \A x \in OwedIn(queue, c) : Head(queue).n <= x
      BY <2>3, <2>4, <2>6, QueueTaken
    <3>2. PICK h \in Nat : Chain(c, h)
      BY <2>2 DEF LiveInv
    <3>3. Len(replies[c]) \in Nat
      BY <1>0 DEF ConnectionTypes
    <3>4. Given(c) = Len(replies[c]) /\ OwedIn(queue, c) = Len(replies[c]) + 1 .. h
      BY <2>3, <3>2, <3>3 DEF Given, Chain
    <3>5. Head(queue).n = Len(replies[c]) + 1 /\ Len(replies[c]) + 1 <= h
      BY <3>1, <3>3, <3>4
    <3>6. Writing(c)' /\ Given(c)' = Len(replies[c]) + 1
      BY <2>1, <2>3, <2>6 DEF Given, Writing
    <3>7. OwedIn(queue', c) = Given(c)' + 1 .. h
      BY <3>1, <3>3, <3>4, <3>5, <3>6
    <3>8. Taken(c, h)' = Taken(c, h) /\ (Answering(c)' <=> Answering(c))
      BY <2>1 DEF Taken, Answering
    <3>9. Chain(c, h)'
      BY <2>1, <3>2, <3>5, <3>6, <3>7, <3>8 DEF Chain
    <3> QED
      BY <2>1, <2>2, <2>3, <2>4, <3>1, <3>5, <3>8, <3>9 DEF LiveInv
  <2> QED
    BY <2>5, <2>6
<1>12. ASSUME Connections!WriterWrites
      PROVE  \A c \in Clients : socket'[c] # "closed" => LiveInv(c)'
  <2> SUFFICES ASSUME NEW c \in Clients, socket'[c] # "closed" PROVE LiveInv(c)'
    OBVIOUS
  <2>1. UNCHANGED <<inbox, role, thread, queue, asked, running>> /\ ~Writing(c)'
    BY <1>12 DEF Connections!WriterWrites, Connections!Idle, Writing
  <2>2. socket[c] # "closed"
    BY <1>0, <1>12 DEF ConnectionTypes, Connections!WriterWrites
  <2>3. LiveInv(c) /\ FrontInv(c)
    BY <1>0, <2>2
  <2>4. CASE c # writer.client
    <3>1. replies'[c] = replies[c] /\ ~Writing(c)
      BY <1>0, <1>12, <2>4 DEF ConnectionTypes, Connections!WriterWrites,
         Connections!Wrote, Writing
    <3> QED
      BY <2>1, <2>3, <3>1, LiveStays
  <2>5. CASE c = writer.client
    <3>1. Writing(c) /\ role[c] = "Monitor"
      BY <2>3, <1>12, <2>5 DEF Connections!WriterWrites, Writing, FrontInv
    <3>2. replies[c] \in Seq(Nat) /\ replies'[c] = Append(replies[c], writer.n)
      BY <1>0, <1>12, <2>5 DEF ConnectionTypes, Connections!WriterWrites,
         Connections!Wrote
    <3>3. Given(c)' = Given(c)
      BY <2>1, <3>1, <3>2 DEF Given
    <3>4. ASSUME NEW h \in Nat, Chain(c, h) PROVE Chain(c, h)'
      BY <2>1, <3>3, <3>4 DEF Chain, Taken, Answering
    <3> QED
      BY <2>1, <2>3, <3>1, <3>4 DEF LiveInv, InStep
  <2> QED
    BY <2>4, <2>5
<1>13. ASSUME Connections!WriterEnds
      PROVE  \A c \in Clients : socket'[c] # "closed" => LiveInv(c)'
  <2> SUFFICES ASSUME NEW c \in Clients, socket'[c] # "closed" PROVE LiveInv(c)'
    OBVIOUS
  <2>1. /\ UNCHANGED <<socket, inbox, role, thread, queue, asked, replies, running>>
        /\ ~Writing(c) /\ ~Writing(c)'
    BY <1>13 DEF Connections!WriterEnds, Connections!clientVars, Connections!Ended,
       Connections!Idle, Writing
  <2>2. LiveInv(c)
    BY <1>0, <2>1
  <2> QED
    BY <2>1, <2>2, LiveStays
<1>14. ASSUME Connections!StopBegins
      PROVE  \A c \in Clients : socket'[c] # "closed" => LiveInv(c)'
  <2> SUFFICES ASSUME NEW c \in Clients, socket'[c] # "closed" PROVE LiveInv(c)'
    OBVIOUS
  <2>1. /\ UNCHANGED <<socket, inbox, role, thread, queue, writer, asked, replies>>
        /\ running' = FALSE
    BY <1>14 DEF Connections!StopBegins, Connections!clientVars
  <2>2. LiveInv(c)
    BY <1>0, <2>1
  <2> QED
    BY <2>1, <2>2, LiveStays
<1>15. ASSUME Connections!StopClosesListener
      PROVE  \A c \in Clients : socket'[c] # "closed" => LiveInv(c)'
  <2> SUFFICES ASSUME NEW c \in Clients, socket'[c] # "closed" PROVE LiveInv(c)'
    OBVIOUS
  <2>1. /\ UNCHANGED <<socket, inbox, role, thread, writer, asked, replies, running>>
        /\ queue' = <<>> /\ ~running
    BY <1>0, <1>15 DEF StopInv, Connections!StopClosesListener, Connections!clientVars
  <2>2. LiveInv(c) /\ FrontInv(c)
    BY <1>0, <2>1
  <2>3. role[c] # "Monitor" => OwedIn(queue, c) = {}
    BY <2>2 DEF FrontInv, OwedIn
  <2>4. OwedIn(queue', c) = {} /\ AnswersRise(queue', c)
    BY <2>1 DEF OwedIn, AnswersRise
  <2> QED
    BY <2>1, <2>2, <2>3, <2>4, LiveStays
<1>16. ASSUME Connections!StopClosesClients
      PROVE  \A c \in Clients : socket'[c] # "closed" => LiveInv(c)'
  <2> SUFFICES ASSUME NEW c \in Clients, socket'[c] # "closed" PROVE LiveInv(c)'
    OBVIOUS
  <2>1. UNCHANGED <<inbox, role, thread, queue, writer, asked, replies, running>>
    BY <1>16 DEF Connections!StopClosesClients
  <2>2. socket[c] # "closed"
    BY <1>0, <1>16 DEF ConnectionTypes, Connections!StopClosesClients
  <2>3. LiveInv(c)
    BY <1>0, <2>2
  <2> QED
    BY <2>1, <2>3, LiveStays
<1>17. ASSUME Connections!StopJoinsThreads
      PROVE  \A c \in Clients : socket'[c] # "closed" => LiveInv(c)'
  <2> SUFFICES ASSUME NEW c \in Clients, socket'[c] # "closed" PROVE LiveInv(c)'
    OBVIOUS
  <2>1. /\ UNCHANGED <<socket, inbox, role, thread, writer, asked, replies, running>>
        /\ queue' = <<>> /\ ~running
    BY <1>0, <1>17 DEF StopInv, Connections!StopJoinsThreads, Connections!clientVars
  <2>2. LiveInv(c) /\ FrontInv(c)
    BY <1>0, <2>1
  <2>3. role[c] # "Monitor" => OwedIn(queue, c) = {}
    BY <2>2 DEF FrontInv, OwedIn
  <2>4. OwedIn(queue', c) = {} /\ AnswersRise(queue', c)
    BY <2>1 DEF OwedIn, AnswersRise
  <2> QED
    BY <2>1, <2>2, <2>3, <2>4, LiveStays
<1>18. CASE UNCHANGED Connections!vars
  <2> SUFFICES ASSUME NEW c \in Clients, socket'[c] # "closed" PROVE LiveInv(c)'
    OBVIOUS
  <2>1. UNCHANGED <<socket, inbox, role, thread, queue, writer, asked, replies, running>>
    BY <1>18 DEF Connections!vars, Connections!clientVars
  <2>2. LiveInv(c)
    BY <1>0, <2>1
  <2> QED
    BY <2>1, <2>2, LiveStays
<1> QED
  BY <1>1, <1>2, <1>3, <1>4, <1>5, <1>6, <1>7, <1>8, <1>9, <1>10, <1>11, <1>12, <1>13,
     <1>14, <1>15, <1>16, <1>17, <1>18
  DEF Connections!Next, Connections!ClientNext, Connections!AcceptNext,
       Connections!ThreadNext, Connections!WriterNext, Connections!StopNext

(* The next number keeps the answers in order.                             *)
LEMMA OneMoreAnswer ==
    ASSUME ConnectionTypes, Connections!AnswersInOrder, NEW c \in Clients,
           replies' = [replies EXCEPT ![c] = Append(@, Len(replies[c]) + 1)]
    PROVE  Connections!AnswersInOrder'
<1>1. ASSUME NEW s \in Seq(Nat), NEW t, s = [i \in 1 .. Len(s) |-> i],
             t = Append(s, Len(s) + 1)
      PROVE  t = [i \in 1 .. Len(t) |-> i]
  <2>1. /\ Len(s) \in Nat /\ Len(t) = Len(s) + 1 /\ t \in Seq(Nat)
        /\ \A i \in 1 .. Len(s) : t[i] = i
        /\ t[Len(s) + 1] = Len(s) + 1
    <3>1. Len(s) \in Nat /\ \A i \in 1 .. Len(s) : s[i] = i
      BY <1>1
    <3> QED
      BY <1>1, <3>1
  <2>2. \A i \in 1 .. Len(t) : t[i] = i
    BY <2>1
  <2>3. t = [i \in 1 .. Len(t) |-> t[i]]
    BY <2>1
  <2> QED
    BY <2>2, <2>3
<1>2. /\ replies \in [Clients -> Seq(Nat)]
      /\ \A d \in Clients : replies[d] = [i \in 1 .. Len(replies[d]) |-> i]
  BY DEF ConnectionTypes, Connections!AnswersInOrder
<1>3. \A d \in Clients \ {c} : replies'[d] = replies[d]
  BY <1>2
<1>4. replies'[c] = Append(replies[c], Len(replies[c]) + 1)
  BY <1>2
<1>5. replies'[c] = [i \in 1 .. Len(replies'[c]) |-> i]
  BY <1>1, <1>2, <1>4
<1> QED
  BY <1>2, <1>3, <1>5 DEF Connections!AnswersInOrder

(* No step answers out of turn.                                            *)
LEMMA AnswersKept ==
    ASSUME ConnectionInv, [Connections!Next]_(Connections!vars)
    PROVE  Connections!AnswersInOrder'
<1>0. /\ ConnectionTypes /\ Connections!AnswersInOrder
      /\ \A c \in Clients : socket[c] # "closed" => LiveInv(c)
  BY DEF ConnectionInv
<1>1. ASSUME NEW d \in Clients, Connections!ClientConnects(d)
      PROVE  Connections!AnswersInOrder'
  BY <1>0, <1>1 DEF Connections!AnswersInOrder, Connections!ClientConnects,
     Connections!clientVars
<1>2. ASSUME NEW d \in Clients, NEW f \in Connections!Frames,
             Connections!ClientSends(d, f)
      PROVE  Connections!AnswersInOrder'
  BY <1>0, <1>2 DEF Connections!AnswersInOrder, Connections!ClientSends,
     Connections!clientVars
<1>3. ASSUME NEW d \in Clients, Connections!ClientFallsDeaf(d)
      PROVE  Connections!AnswersInOrder'
  BY <1>0, <1>3 DEF Connections!AnswersInOrder, Connections!ClientFallsDeaf,
     Connections!clientVars
<1>4. ASSUME NEW d \in Clients, Connections!ClientLeaves(d)
      PROVE  Connections!AnswersInOrder'
  BY <1>0, <1>4 DEF Connections!AnswersInOrder, Connections!ClientLeaves,
     Connections!clientVars
<1>5. ASSUME Connections!AcceptReturns
      PROVE  Connections!AnswersInOrder'
  BY <1>0, <1>5 DEF Connections!AnswersInOrder, Connections!AcceptReturns,
     Connections!clientVars
<1>6. ASSUME Connections!AcceptAdds
      PROVE  Connections!AnswersInOrder'
  BY <1>0, <1>6 DEF Connections!AnswersInOrder, Connections!AcceptAdds,
     Connections!clientVars
<1>7. ASSUME NEW d \in Clients, Connections!ReadFails(d)
      PROVE  Connections!AnswersInOrder'
  BY <1>0, <1>7 DEF Connections!AnswersInOrder, Connections!ReadFails,
     Connections!clientVars
<1>8. ASSUME NEW d \in Clients, Connections!ReadFrame(d)
      PROVE  Connections!AnswersInOrder'
  BY <1>0, <1>8 DEF Connections!AnswersInOrder, Connections!ReadFrame,
     Connections!clientVars
<1>9. ASSUME NEW d \in Clients, Connections!AnswerManager(d)
      PROVE  Connections!AnswersInOrder'
  <2>1. CASE UNCHANGED replies
    BY <1>0, <2>1 DEF Connections!AnswersInOrder
  <2>2. CASE Connections!CanWrite(d) /\ Connections!Wrote(d, thread[d].n)
    <3>1. LiveInv(d) /\ Answering(d) /\ role[d] = "Manager"
      BY <1>0, <1>9, <2>2 DEF Connections!AnswerManager, Connections!CanWrite, Answering
    <3>2. thread[d].n = Len(replies[d]) + 1
      BY <3>1 DEF LiveInv
    <3> QED
      BY <1>0, <2>2, <3>2, OneMoreAnswer DEF Connections!Wrote
  <2> QED
    BY <1>9, <2>1, <2>2 DEF Connections!AnswerManager
<1>10. ASSUME NEW d \in Clients, Connections!AnswerMonitor(d)
      PROVE  Connections!AnswersInOrder'
  BY <1>0, <1>10 DEF Connections!AnswersInOrder, Connections!AnswerMonitor,
     Connections!clientVars
<1>11. ASSUME Connections!WriterTakes
      PROVE  Connections!AnswersInOrder'
  BY <1>0, <1>11 DEF Connections!AnswersInOrder, Connections!WriterTakes,
     Connections!clientVars
<1>12. ASSUME Connections!WriterWrites
      PROVE  Connections!AnswersInOrder'
  <2>1. CASE UNCHANGED replies
    BY <1>0, <2>1 DEF Connections!AnswersInOrder
  <2>2. CASE Connections!CanWrite(writer.client) /\ Connections!Wrote(writer.client, writer.n)
    <3>0. writer.client \in Clients
      BY <1>0, <1>12 DEF ConnectionTypes, Connections!WriterWrites
    <3>1. LiveInv(writer.client) /\ Writing(writer.client)
      BY <1>0, <1>12, <2>2, <3>0
         DEF Connections!WriterWrites, Connections!CanWrite, Writing
    <3>2. writer.n = Len(replies[writer.client]) + 1
      BY <3>1 DEF LiveInv
    <3> QED
      BY <1>0, <2>2, <3>0, <3>2, OneMoreAnswer DEF Connections!Wrote
  <2> QED
    BY <1>12, <2>1, <2>2 DEF Connections!WriterWrites
<1>13. ASSUME Connections!WriterEnds
      PROVE  Connections!AnswersInOrder'
  BY <1>0, <1>13 DEF Connections!AnswersInOrder, Connections!WriterEnds,
     Connections!clientVars
<1>14. ASSUME Connections!StopBegins
      PROVE  Connections!AnswersInOrder'
  BY <1>0, <1>14 DEF Connections!AnswersInOrder, Connections!StopBegins,
     Connections!clientVars
<1>15. ASSUME Connections!StopClosesListener
      PROVE  Connections!AnswersInOrder'
  BY <1>0, <1>15 DEF Connections!AnswersInOrder, Connections!StopClosesListener,
     Connections!clientVars
<1>16. ASSUME Connections!StopClosesClients
      PROVE  Connections!AnswersInOrder'
  BY <1>0, <1>16 DEF Connections!AnswersInOrder, Connections!StopClosesClients,
     Connections!clientVars
<1>17. ASSUME Connections!StopJoinsThreads
      PROVE  Connections!AnswersInOrder'
  BY <1>0, <1>17 DEF Connections!AnswersInOrder, Connections!StopJoinsThreads,
     Connections!clientVars
<1>18. CASE UNCHANGED Connections!vars
  BY <1>0, <1>18 DEF Connections!AnswersInOrder, Connections!vars,
     Connections!clientVars
<1> QED
  BY <1>1, <1>2, <1>3, <1>4, <1>5, <1>6, <1>7, <1>8, <1>9, <1>10, <1>11, <1>12, <1>13,
     <1>14, <1>15, <1>16, <1>17, <1>18
  DEF Connections!Next, Connections!ClientNext, Connections!AcceptNext,
       Connections!ThreadNext, Connections!WriterNext, Connections!StopNext

(* Every step keeps the invariant.                                         *)
LEMMA ConnectionInvKept ==
    ASSUME ConnectionInv, [Connections!Next]_(Connections!vars)
    PROVE  ConnectionInv'
BY TypesKept, BacklogKept, StopKept, FrontKept, LiveKept, AnswersKept DEF ConnectionInv

(* It holds at first.                                                      *)
LEMMA ConnectionInvAtFirst ==
    ASSUME Connections!Init
    PROVE  ConnectionInv
<1> USE DEF Connections!Init
<1>1. /\ Connections!Idle \in PostType({"waits", "writes", "ended"})
      /\ Connections!Idle \in PostType({"waits", "adds", "ended"})
      /\ Connections!Idle.at = "waits"
      /\ Connections!Asleep \in ThreadType /\ Connections!Asleep.at = "none"
  BY DEF Connections!Idle, Connections!Asleep, PostType, ThreadType
<1>2. ConnectionTypes
  BY <1>1 DEF ConnectionTypes
<1>3. BacklogInv /\ StopInv
  <2>1. backlog = <<>> /\ Len(backlog) = 0
    OBVIOUS
  <2>2. 1 .. Len(backlog) = {}
    BY <2>1
  <2>3. BacklogInv
    BY <1>1, <2>2 DEF BacklogInv
  <2> QED
    BY <1>1, <2>3 DEF StopInv
<1>4. Connections!AnswersInOrder
  BY DEF Connections!AnswersInOrder
<1>5. ASSUME NEW c \in Clients PROVE FrontInv(c) /\ LiveInv(c)
  <2>1. ~Answering(c) /\ ~Writing(c)
    BY <1>1 DEF Answering, Writing
  <2>2. /\ AskedIn(inbox[c]) = {} /\ OwedIn(queue, c) = {}
        /\ FramesRise(inbox[c]) /\ AnswersRise(queue, c)
    BY DEF AskedIn, OwedIn, FramesRise, AnswersRise
  <2>3. Given(c) = 0 /\ Taken(c, 0) = 0
    BY <2>1 DEF Given, Taken
  <2>4. Chain(c, 0)
    <3>1. asked[c] = 0
      OBVIOUS
    <3>2. Taken(c, 0) + 1 .. asked[c] = {} /\ Given(c) + 1 .. 0 = {}
      BY <2>3, <3>1
    <3> QED
      <4>1. Given(c) <= 0 /\ Taken(c, 0) <= asked[c]
        BY <2>3, <3>1
      <4>2. /\ AskedIn(inbox[c]) = Taken(c, 0) + 1 .. asked[c]
            /\ OwedIn(queue, c) = Given(c) + 1 .. 0
        BY <2>2, <3>2
      <4> QED
        BY <2>1, <4>1, <4>2 DEF Chain
  <2>5. LiveInv(c)
    BY <2>1, <2>2, <2>4 DEF LiveInv
  <2>6. FrontInv(c)
    BY <1>1, <2>1 DEF FrontInv
  <2> QED
    BY <2>5, <2>6
<1> QED
  BY <1>2, <1>3, <1>4, <1>5 DEF ConnectionInv

(* It holds always.                                                        *)
LEMMA ConnectionsHold == Connections!Spec => []ConnectionInv
<1>1. ConnectionInv /\ [Connections!Next]_(Connections!vars) => ConnectionInv'
  BY ConnectionInvKept
<1> QED
  BY ConnectionInvAtFirst, <1>1, PTL DEF Connections!Spec

(* The answers of a connection are the answers to its first requests, in   *)
(* their order, for every number of clients and requests                   *)
(* (bSendControlMessage, monitorBroadcastLoop).                            *)
THEOREM ConnectionsInOrder == Connections!Spec => []Connections!AnswersInOrder
<1>1. ConnectionInv => Connections!AnswersInOrder
  BY DEF ConnectionInv
<1> QED
  BY ConnectionsHold, <1>1, PTL

(* When stop has returned, every thread has ended and every socket is      *)
(* closed (stop).                                                          *)
THEOREM NothingOutlivesStop == Connections!Spec => []Connections!NoThreadOutlivesStop
<1>1. ConnectionInv => Connections!NoThreadOutlivesStop
  BY DEF ConnectionInv, StopInv, Connections!NoThreadOutlivesStop,
     Connections!ThreadsGone
<1> QED
  BY ConnectionsHold, <1>1, PTL

(* The same of the run: the answers keep their order in the half it calls  *)
(* connections.                                                            *)
THEOREM AnswersKeepOrder == MCSpec => []AnswersInOrder
<1> DEFINE Looked == half = "connections" => ConnectionInv
<1>1. MCInit => Looked
  BY ConnectionInvAtFirst DEF MCInit
<1>2. Looked /\ [MCNext]_allVars => Looked'
  <2>1. CASE half # "connections"
    BY <2>1 DEF MCNext, allVars
  <2>2. CASE half = "connections" /\ MCNext
    <3>1. Connections!Next
      BY <2>2 DEF MCNext, ConnectionsNext, TelemetryNext
    <3> QED
      BY <2>2, <3>1, ConnectionInvKept
  <2>3. CASE half = "connections" /\ UNCHANGED allVars
    <3>1. UNCHANGED Connections!vars
      BY <2>3 DEF allVars, vars, connectionVars, Connections!vars
    <3> QED
      BY <2>3, <3>1, ConnectionInvKept
  <2> QED
    BY <2>1, <2>2, <2>3
<1>3. Looked => AnswersInOrder
  BY DEF ConnectionInv, AnswersInOrder
<1> QED
  BY <1>1, <1>2, <1>3, PTL DEF MCSpec

(* The instance counts as the module does.                                 *)
LEMMA SameCount == \A S : Connections!Cardinality(S) = Cardinality(S)
BY DEF Cardinality, Connections!Cardinality

(* A step that opens no connection and does not overfill the queue.        *)
LEMMA FewerOpen ==
    ASSUME LimitInv, Connections!Open' \subseteq Connections!Open, UNCHANGED limit,
           UNCHANGED queue \/ Len(queue') <= QueueLimit
    PROVE  LimitInv'
<1>1. /\ IsFiniteSet(Connections!Open)
      /\ Cardinality(Connections!Open) \in Nat
  BY FS_CardinalityType DEF LimitInv
<1>2. /\ IsFiniteSet(Connections!Open')
      /\ Cardinality(Connections!Open') <= Cardinality(Connections!Open)
      /\ Cardinality(Connections!Open') \in Nat
  BY <1>1, FS_Subset, FS_CardinalityType
<1> QED
  BY <1>1, <1>2 DEF LimitInv

(* Every step keeps the limits.                                            *)
LEMMA LimitKept ==
    ASSUME LimitInv, ConnectionInv, [Connections!Next]_(Connections!vars)
    PROVE  LimitInv'
<1>0. ConnectionTypes /\ BacklogInv /\ LimitInv
  BY DEF ConnectionInv
<1>00. UNCHANGED limit
  BY DEF Connections!Next, Connections!Fixed, Connections!vars
<1>1. ASSUME NEW d \in Clients, Connections!ClientConnects(d)
      PROVE  LimitInv'
  <2>1. Connections!Open' \subseteq Connections!Open /\ UNCHANGED <<queue, limit>>
    BY <1>0, <1>00, <1>1 DEF Connections!ClientConnects, Connections!Open,
       Connections!clientVars
  <2> QED
    BY <1>0, <2>1, FewerOpen
<1>2. ASSUME NEW d \in Clients, NEW f \in Connections!Frames,
             Connections!ClientSends(d, f)
      PROVE  LimitInv'
  <2>1. Connections!Open' \subseteq Connections!Open /\ UNCHANGED <<queue, limit>>
    BY <1>0, <1>00, <1>2 DEF Connections!ClientSends, Connections!Open,
       Connections!clientVars
  <2> QED
    BY <1>0, <2>1, FewerOpen
<1>3. ASSUME NEW d \in Clients, Connections!ClientFallsDeaf(d)
      PROVE  LimitInv'
  <2>1. Connections!Open' \subseteq Connections!Open /\ UNCHANGED <<queue, limit>>
    BY <1>0, <1>00, <1>3 DEF Connections!ClientFallsDeaf, Connections!Open,
       Connections!clientVars
  <2> QED
    BY <1>0, <2>1, FewerOpen
<1>4. ASSUME NEW d \in Clients, Connections!ClientLeaves(d)
      PROVE  LimitInv'
  <2>1. Connections!Open' \subseteq Connections!Open /\ UNCHANGED <<queue, limit>>
    BY <1>0, <1>00, <1>4 DEF Connections!ClientLeaves, Connections!Open,
       Connections!clientVars
  <2> QED
    BY <1>0, <2>1, FewerOpen
<1>5. ASSUME Connections!AcceptReturns
      PROVE  LimitInv'
  <2>1. Connections!Open' \subseteq Connections!Open /\ UNCHANGED <<queue, limit>>
    BY <1>0, <1>00, <1>5 DEF Connections!AcceptReturns, Connections!Open,
       Connections!clientVars
  <2> QED
    BY <1>0, <2>1, FewerOpen
<1>6. ASSUME Connections!AcceptAdds
      PROVE  LimitInv'
  <2>0. UNCHANGED <<queue, limit>> /\ acceptor.client \in Clients
    BY <1>0, <1>00, <1>6 DEF ConnectionTypes, Connections!AcceptAdds
  <2>1. CASE Connections!Open' \subseteq Connections!Open
    BY <1>0, <2>0, <2>1, FewerOpen
  <2>2. CASE /\ Connections!HasRoom /\ socket[acceptor.client] = "none"
             /\ Connections!Open' = Connections!Open \cup {acceptor.client}
    <3>1. acceptor.client \notin Connections!Open
      BY <2>2 DEF Connections!Open
    <3>2. /\ IsFiniteSet(Connections!Open')
          /\ Cardinality(Connections!Open') = Cardinality(Connections!Open) + 1
      BY <1>0, <2>2, <3>1, FS_AddElement DEF LimitInv
    <3>3. Cardinality(Connections!Open) < limit /\ Cardinality(Connections!Open) \in Nat
      <4>1. Cardinality(Connections!Open) \in Nat
        BY <1>0, FS_CardinalityType DEF LimitInv
      <4>2. Cardinality(Connections!Open) < limit
        BY <2>2, SameCount DEF Connections!HasRoom
      <4> QED
        BY <4>1, <4>2
    <3> QED
      BY <1>0, <2>0, <3>2, <3>3 DEF LimitInv
  <2> QED
    <3>1. socket[acceptor.client] = "none"
      BY <1>0, <1>6 DEF BacklogInv, Connections!AcceptAdds
    <3>2. CASE Connections!HasRoom /\ running
      <4>1. socket' = [socket EXCEPT ![acceptor.client] = "open"]
        BY <1>6, <3>2 DEF Connections!AcceptAdds
      <4>2. Connections!Open' = Connections!Open \cup {acceptor.client}
        BY <1>0, <2>0, <4>1 DEF ConnectionTypes, Connections!Open
      <4> QED
        BY <2>2, <3>1, <3>2, <4>2
    <3>3. CASE ~(Connections!HasRoom /\ running)
      <4>1. socket' = [socket EXCEPT ![acceptor.client] = "closed"]
        BY <1>6, <3>3 DEF Connections!AcceptAdds
      <4>2. Connections!Open' \subseteq Connections!Open
        BY <1>0, <2>0, <4>1 DEF ConnectionTypes, Connections!Open
      <4> QED
        BY <2>1, <4>2
    <3> QED
      BY <3>2, <3>3
<1>7. ASSUME NEW d \in Clients, Connections!ReadFails(d)
      PROVE  LimitInv'
  <2>1. Connections!Open' \subseteq Connections!Open /\ UNCHANGED <<queue, limit>>
    BY <1>0, <1>00, <1>7, LoopTurns DEF Connections!ReadFails, Connections!Open
  <2> QED
    BY <1>0, <2>1, FewerOpen
<1>8. ASSUME NEW d \in Clients, Connections!ReadFrame(d)
      PROVE  LimitInv'
  <2>1. Connections!Open' \subseteq Connections!Open /\ UNCHANGED <<queue, limit>>
    BY <1>0, <1>00, <1>8, LoopTurns DEF Connections!ReadFrame, Connections!Open
  <2> QED
    BY <1>0, <2>1, FewerOpen
<1>9. ASSUME NEW d \in Clients, Connections!AnswerManager(d)
      PROVE  LimitInv'
  <2>1. Connections!Open' \subseteq Connections!Open /\ UNCHANGED <<queue, limit>>
    BY <1>0, <1>00, <1>9, LoopTurns DEF Connections!AnswerManager, Connections!Open
  <2> QED
    BY <1>0, <2>1, FewerOpen
<1>10. ASSUME NEW d \in Clients, Connections!AnswerMonitor(d)
      PROVE  LimitInv'
  <2>1. Connections!Open' \subseteq Connections!Open /\ UNCHANGED limit
    BY <1>0, <1>00, <1>10, LoopTurns DEF Connections!AnswerMonitor, Connections!Open
  <2>2. queue' \in Seq(AnswerType) /\ Len(queue') <= QueueLimit
    <3>1. CASE queue' = queue
      BY <1>0, <3>1 DEF ConnectionTypes, LimitInv
    <3>2. CASE /\ queue' = Append(queue, [client |-> d, n |-> thread[d].n])
               /\ Len(queue) < QueueLimit
      <4>1. queue' \in Seq(AnswerType) /\ Len(queue') = Len(queue) + 1 /\ Len(queue) \in Nat
        BY <1>0, <3>2 DEF ConnectionTypes, ThreadType, AnswerType
      <4> QED
        BY <3>2, <4>1, ConnectionsAssumption DEF Connections!LimitAssumption
    <3> QED
      BY <1>10, <3>1, <3>2 DEF Connections!AnswerMonitor
  <2> QED
    BY <1>0, <2>1, <2>2, FewerOpen
<1>11. ASSUME Connections!WriterTakes
      PROVE  LimitInv'
  <2>1. Connections!Open' \subseteq Connections!Open /\ UNCHANGED limit
    BY <1>0, <1>00, <1>11 DEF Connections!WriterTakes, Connections!Open,
       Connections!clientVars
  <2>2. Len(queue') <= QueueLimit
    <3>1. queue \in Seq(AnswerType) /\ queue # <<>> /\ queue' = Tail(queue)
      BY <1>0, <1>11 DEF ConnectionTypes, Connections!WriterTakes
    <3>2. Len(queue') = Len(queue) - 1 /\ Len(queue) \in Nat
      BY <3>1
    <3> QED
      BY <1>0, <3>2, ConnectionsAssumption DEF LimitInv, Connections!LimitAssumption
  <2> QED
    BY <1>0, <2>1, <2>2, FewerOpen
<1>12. ASSUME Connections!WriterWrites
      PROVE  LimitInv'
  <2>1. Connections!Open' \subseteq Connections!Open /\ UNCHANGED <<queue, limit>>
    BY <1>0, <1>00, <1>12 DEF ConnectionTypes, Connections!WriterWrites,
       Connections!Open
  <2> QED
    BY <1>0, <2>1, FewerOpen
<1>13. ASSUME Connections!WriterEnds
      PROVE  LimitInv'
  <2>1. Connections!Open' \subseteq Connections!Open /\ UNCHANGED <<queue, limit>>
    BY <1>0, <1>00, <1>13 DEF Connections!WriterEnds, Connections!Open,
       Connections!clientVars
  <2> QED
    BY <1>0, <2>1, FewerOpen
<1>14. ASSUME Connections!StopBegins
      PROVE  LimitInv'
  <2>1. Connections!Open' \subseteq Connections!Open /\ UNCHANGED <<queue, limit>>
    BY <1>0, <1>00, <1>14 DEF Connections!StopBegins, Connections!Open,
       Connections!clientVars
  <2> QED
    BY <1>0, <2>1, FewerOpen
<1>15. ASSUME Connections!StopClosesListener
      PROVE  LimitInv'
  <2>1. Connections!Open' \subseteq Connections!Open /\ UNCHANGED limit
    BY <1>0, <1>00, <1>15 DEF Connections!StopClosesListener, Connections!Open,
       Connections!clientVars
  <2>2. Len(queue') <= QueueLimit
    BY <1>15, ConnectionsAssumption
       DEF Connections!StopClosesListener, Connections!LimitAssumption
  <2> QED
    BY <1>0, <2>1, <2>2, FewerOpen
<1>16. ASSUME Connections!StopClosesClients
      PROVE  LimitInv'
  <2>1. Connections!Open' \subseteq Connections!Open /\ UNCHANGED <<queue, limit>>
    BY <1>0, <1>00, <1>16 DEF Connections!StopClosesClients, Connections!Open,
       Connections!clientVars
  <2> QED
    BY <1>0, <2>1, FewerOpen
<1>17. ASSUME Connections!StopJoinsThreads
      PROVE  LimitInv'
  <2>1. Connections!Open' \subseteq Connections!Open /\ UNCHANGED limit
    BY <1>0, <1>00, <1>17 DEF Connections!StopJoinsThreads, Connections!Open,
       Connections!clientVars
  <2>2. Len(queue') <= QueueLimit
    BY <1>17, ConnectionsAssumption
       DEF Connections!StopJoinsThreads, Connections!LimitAssumption
  <2> QED
    BY <1>0, <2>1, <2>2, FewerOpen
<1>18. CASE UNCHANGED Connections!vars
  <2>1. Connections!Open' \subseteq Connections!Open /\ UNCHANGED <<queue, limit>>
    BY <1>18 DEF Connections!vars, Connections!Open
  <2> QED
    BY <1>0, <2>1, FewerOpen
<1> QED
  BY <1>1, <1>2, <1>3, <1>4, <1>5, <1>6, <1>7, <1>8, <1>9, <1>10, <1>11, <1>12, <1>13,
     <1>14, <1>15, <1>16, <1>17, <1>18
  DEF Connections!Next, Connections!ClientNext, Connections!AcceptNext,
       Connections!ThreadNext, Connections!WriterNext, Connections!StopNext

(* The variables keep their types, no more clients than the limit are      *)
(* connected and the queue to the Monitors is never over its limit         *)
(* (acceptLoop, bSendControlMessage).                                      *)
THEOREM ServerWithinLimits == Connections!Spec => []Connections!TypeOK
<1>1. Connections!Init => ConnectionInv /\ LimitInv
  <2> SUFFICES ASSUME Connections!Init PROVE LimitInv
    BY ConnectionInvAtFirst
  <2>1. Connections!Open = {} /\ queue = <<>> /\ limit \in Nat
    BY ConnectionsAssumption DEF Connections!Init, Connections!Open,
       Connections!LimitAssumption
  <2> QED
    BY <2>1, FS_EmptySet, ConnectionsAssumption
       DEF LimitInv, Connections!LimitAssumption
<1>2. ConnectionInv /\ LimitInv /\ [Connections!Next]_(Connections!vars) =>
          (ConnectionInv /\ LimitInv)'
  BY ConnectionInvKept, LimitKept
<1>3. ConnectionInv /\ LimitInv => Connections!TypeOK
  <2> SUFFICES ASSUME ConnectionInv, LimitInv PROVE Connections!TypeOK
    OBVIOUS
  <2>1. ConnectionTypes
    BY DEF ConnectionInv
  <2>2. acceptor.at \in {"waits", "adds", "ended"}
    BY <2>1 DEF ConnectionTypes, PostType
  <2>3. role \in [Clients -> {"Manager", "Monitor", "none"}]
    BY <2>1 DEF ConnectionTypes
  <2> QED
    BY <2>1, <2>2, <2>3, SameCount DEF ConnectionTypes, LimitInv, Connections!TypeOK
<1> QED
  BY <1>1, <1>2, <1>3, PTL DEF Connections!Spec
-----------------------------------------------------------------------------
(* An observation of a round.                                              *)
EventType == [round : Nat, kind : {"packet", "failure"}]
(* What the broadcaster has in its hands.                                  *)
MessageType == [kind : {"nothing", "control", "event", "metrics"}, rounds : SUBSET Nat]

(* The types of the telemetry variables the drain depends on.              *)
DrainTypes ==
    /\ round \in Nat /\ drainId \in 0 .. round /\ drainRound \in 0 .. round
    /\ active \in SUBSET Roles
    /\ ending \in [Roles -> {"no", "metrics", "result", "drain", "leaving"}]
    /\ events \in Seq(EventType) /\ metrics \in Seq(Nat)
    /\ broadcaster \in {"waiting", "batching", "writing", "terminated", "returned"}

(* The broadcaster holds a message only while it writes.                   *)
HandInv ==
    /\ broadcaster \in {"waiting", "batching", "returned"} => inHand = Nothing
    /\ broadcaster = "writing" => writeBusy

(* Round r is over: both of its ends have sent their metrics and result.   *)
Over(r) ==
    \/ r < round
    \/ /\ r = round
       /\ \A side \in Roles : /\ ending[side] \in {"leaving", "no"}
                              /\ side \in active => ending[side] = "leaving"

(* A round is drained only when it is over.                                *)
PursuedInv ==
    /\ drainId # 0 => Over(drainId)
    /\ drainer \in {"looking", "counting", "deciding", "acknowledging"} => Over(drainRound)

(* Once the drainer has found the runtimes idle, they are, unless a later  *)
(* round has begun.                                                        *)
SilentInv ==
    drainer \in {"deciding", "acknowledging"} \/ (drainer = "counting" /\ drainIdle) =>
        drainRound < round \/ active = {}

(* Once the drainer has found the queues empty, nothing of its round is    *)
(* left.                                                                   *)
WrittenInv == drainer \in {"deciding", "acknowledging"} => drainRound \notin Outstanding

(* The inductive invariant of the drain.                                   *)
DrainInv == DrainTypes /\ HandInv /\ PursuedInv /\ SilentInv /\ WrittenInv

(* The rounds of a sequence of observations.                               *)
RoundsIn(s) == {s[n].round : n \in DOMAIN s}
(* The elements of a sequence of rounds.                                   *)
ValuesIn(s) == {s[n] : n \in DOMAIN s}
(* The present round may still produce telemetry.                          *)
Producing == \E side \in Roles : side \in active \/ ending[side] = "metrics"
-----------------------------------------------------------------------------
(* An observation that is queued.                                          *)
LEMMA EventAppended ==
    ASSUME NEW s \in Seq(EventType), NEW e \in EventType
    PROVE  /\ Append(s, e) \in Seq(EventType)
           /\ RoundsIn(Append(s, e)) \subseteq RoundsIn(s) \cup {e.round}
<1>1. /\ Append(s, e) \in Seq(EventType) /\ DOMAIN s = 1 .. Len(s)
      /\ DOMAIN Append(s, e) = 1 .. Len(s) + 1
      /\ \A n \in 1 .. Len(s) : Append(s, e)[n] = s[n]
      /\ Append(s, e)[Len(s) + 1] = e /\ Len(s) \in Nat
  OBVIOUS
<1>2. \A n \in 1 .. Len(s) + 1 : n \in 1 .. Len(s) \/ n = Len(s) + 1
  BY <1>1
<1> QED
  BY <1>1, <1>2 DEF RoundsIn

(* An observation that is displaced.                                       *)
LEMMA EventRemoved ==
    ASSUME NEW s \in Seq(EventType), NEW k \in DOMAIN s
    PROVE  RemoveAt(s, k) \in Seq(EventType) /\ RoundsIn(RemoveAt(s, k)) \subseteq RoundsIn(s)
<1> DEFINE a == SubSeq(s, 1, k - 1)
           b == SubSeq(s, k + 1, Len(s))
<1>1. k \in 1 .. Len(s) /\ DOMAIN s = 1 .. Len(s) /\ Len(s) \in Nat
  OBVIOUS
<1>2. a \in Seq(EventType) /\ Len(a) = k - 1 /\ \A n \in 1 .. k - 1 : a[n] = s[n]
  BY <1>1
<1>3. b \in Seq(EventType) /\ Len(b) = Len(s) - k /\ \A n \in 1 .. Len(s) - k : b[n] = s[n + k]
  BY <1>1
<1> HIDE DEF a, b
<1>4. /\ a \o b \in Seq(EventType) /\ DOMAIN (a \o b) = 1 .. Len(s) - 1
      /\ \A n \in 1 .. Len(s) - 1 : (a \o b)[n] = IF n <= k - 1 THEN a[n] ELSE b[n - (k - 1)]
  <2>1. Len(a) + Len(b) = Len(s) - 1 /\ Len(a) \in Nat /\ Len(b) \in Nat
    BY <1>1, <1>2, <1>3
  <2>2. /\ a \o b \in Seq(EventType) /\ DOMAIN (a \o b) = 1 .. Len(a) + Len(b)
        /\ \A n \in 1 .. Len(a) + Len(b) :
               (a \o b)[n] = IF n <= Len(a) THEN a[n] ELSE b[n - Len(a)]
    <3>1. /\ a \o b \in Seq(EventType) /\ Len(a \o b) = Len(a) + Len(b)
          /\ \A n \in 1 .. Len(a) + Len(b) :
                 (a \o b)[n] = IF n <= Len(a) THEN a[n] ELSE b[n - Len(a)]
      BY <1>2, <1>3, ConcatProperties
    <3>2. \A c \in Seq(EventType) : DOMAIN c = 1 .. Len(c)
      OBVIOUS
    <3> QED
      BY <3>1, <3>2
  <2> QED
    BY <1>2, <2>1, <2>2
<1>5. \A n \in 1 .. Len(s) - 1 : \E m \in 1 .. Len(s) : (a \o b)[n] = s[m]
  <2> SUFFICES ASSUME NEW n \in 1 .. Len(s) - 1
               PROVE  \E m \in 1 .. Len(s) : (a \o b)[n] = s[m]
    OBVIOUS
  <2>1. CASE n <= k - 1
    <3>1. n \in 1 .. k - 1 /\ n \in 1 .. Len(s)
      BY <1>1, <2>1
    <3> QED
      BY <1>2, <1>4, <2>1, <3>1
  <2>2. CASE ~(n <= k - 1)
    <3>1. n - (k - 1) \in 1 .. Len(s) - k /\ n + 1 \in 1 .. Len(s) /\ n - (k - 1) + k = n + 1
      BY <1>1, <2>2
    <3>2. (a \o b)[n] = s[n + 1]
      BY <1>3, <1>4, <2>2, <3>1
    <3> QED
      BY <3>1, <3>2
  <2> QED
    BY <2>1, <2>2
<1>6. RemoveAt(s, k) = a \o b
  BY DEF RemoveAt, a, b
<1>7. RoundsIn(a \o b) \subseteq RoundsIn(s)
  <2> SUFFICES ASSUME NEW x \in RoundsIn(a \o b) PROVE x \in RoundsIn(s)
    OBVIOUS
  <2>1. PICK n \in 1 .. Len(s) - 1 : x = (a \o b)[n].round
    BY <1>4 DEF RoundsIn
  <2>2. PICK m \in 1 .. Len(s) : (a \o b)[n] = s[m]
    BY <1>5
  <2> QED
    BY <1>1, <2>1, <2>2 DEF RoundsIn
<1> QED
  BY <1>4, <1>6, <1>7

(* An observation that is taken.                                           *)
LEMMA EventTaken ==
    ASSUME NEW s \in Seq(EventType), s # <<>>
    PROVE  /\ Tail(s) \in Seq(EventType) /\ RoundsIn(Tail(s)) \subseteq RoundsIn(s)
           /\ Head(s) \in EventType /\ Head(s).round \in RoundsIn(s)
<1>1. /\ DOMAIN s = 1 .. Len(s) /\ 1 \in DOMAIN s /\ Head(s) = s[1]
      /\ s[1] \in EventType
      /\ Tail(s) \in Seq(EventType)
      /\ \A n \in DOMAIN Tail(s) : n + 1 \in DOMAIN s /\ Tail(s)[n] = s[n + 1]
  OBVIOUS
<1> QED
  BY <1>1 DEF RoundsIn

(* A metric that is queued.                                                *)
LEMMA MetricAppended ==
    ASSUME NEW s \in Seq(Nat), NEW r \in Nat
    PROVE  Append(s, r) \in Seq(Nat) /\ ValuesIn(Append(s, r)) \subseteq ValuesIn(s) \cup {r}
<1>1. /\ Append(s, r) \in Seq(Nat) /\ DOMAIN s = 1 .. Len(s)
      /\ DOMAIN Append(s, r) = 1 .. Len(s) + 1
      /\ \A n \in 1 .. Len(s) : Append(s, r)[n] = s[n]
      /\ Append(s, r)[Len(s) + 1] = r /\ Len(s) \in Nat
  OBVIOUS
<1>2. \A n \in 1 .. Len(s) + 1 : n \in 1 .. Len(s) \/ n = Len(s) + 1
  BY <1>1
<1> QED
  BY <1>1, <1>2 DEF ValuesIn

(* A batch of metrics that is taken.                                       *)
LEMMA MetricsTaken ==
    ASSUME NEW s \in Seq(Nat), NEW n \in Nat, n <= Len(s)
    PROVE  /\ SubSeq(s, n + 1, Len(s)) \in Seq(Nat)
           /\ ValuesIn(SubSeq(s, n + 1, Len(s))) \subseteq ValuesIn(s)
           /\ {s[m] : m \in 1 .. n} \subseteq ValuesIn(s)
<1> DEFINE t == SubSeq(s, n + 1, Len(s))
<1>1. /\ DOMAIN s = 1 .. Len(s) /\ Len(s) \in Nat
      /\ t \in Seq(Nat) /\ DOMAIN t = 1 .. Len(s) - n
      /\ \A i \in 1 .. Len(s) - n : t[i] = s[i + n]
  OBVIOUS
<1>2. \A i \in 1 .. Len(s) - n : i + n \in 1 .. Len(s)
  BY <1>1
<1>3. \A m \in 1 .. n : m \in 1 .. Len(s)
  BY <1>1
<1> HIDE DEF t
<1>4. ValuesIn(t) \subseteq ValuesIn(s)
  BY <1>1, <1>2 DEF ValuesIn
<1>5. {s[m] : m \in 1 .. n} \subseteq ValuesIn(s)
  BY <1>1, <1>3 DEF ValuesIn
<1> QED
  BY <1>1, <1>4, <1>5 DEF t

(* If a packet can be displaced, there is a first one.                     *)
LEMMA DisplacedFound ==
    ASSUME NEW kind, events \in Seq(EventType), Displaced(kind) # {}
    PROVE  EarliestDisplaced(kind) \in DOMAIN events
<1>1. Displaced(kind) \in SUBSET Nat /\ Displaced(kind) \subseteq DOMAIN events
  BY DEF Displaced
<1>2. \E n \in Displaced(kind) : \A m \in Displaced(kind) : n <= m
  <2>1. IsWellFoundedOn({ss \in Nat \X Nat : ss[1] < ss[2]}, Nat)
    BY NatLessThanWellFounded DEF OpToRel
  <2>2. \E x \in Displaced(kind) :
           \A y \in Displaced(kind) : <<y, x>> \notin {ss \in Nat \X Nat : ss[1] < ss[2]}
    BY <1>1, <2>1, WFMin
  <2>3. \A x, y \in Nat : <<y, x>> \notin {ss \in Nat \X Nat : ss[1] < ss[2]} => x <= y
    OBVIOUS
  <2> QED
    BY <1>1, <2>2, <2>3
<1> QED
  BY <1>1, <1>2 DEF EarliestDisplaced

(* A batch moves metrics from the queue into the broadcaster's hands.      *)
LEMMA BatchTaken ==
    ASSUME metrics \in Seq(Nat), WriteMetrics
    PROVE  /\ metrics' \in Seq(Nat) /\ ValuesIn(metrics') \subseteq ValuesIn(metrics)
           /\ inHand'.rounds \subseteq ValuesIn(metrics) /\ UNCHANGED events
<1> DEFINE n == IF Len(metrics) < BatchSize THEN Len(metrics) ELSE BatchSize
<1>1. n \in Nat /\ n <= Len(metrics)
  BY ServerAssumption
<1>2. /\ inHand' = [kind |-> "metrics", rounds |-> {metrics[m] : m \in 1 .. n}]
      /\ metrics' = SubSeq(metrics, n + 1, Len(metrics)) /\ UNCHANGED events
  BY DEF WriteMetrics
<1> HIDE DEF n
<1> QED
  BY <1>1, <1>2, MetricsTaken

(* What a runtime enqueues is of the present round, and what it displaces  *)
(* is gone.                                                                *)
LEMMA ObservationQueued ==
    ASSUME DrainTypes, NEW kind \in {"packet", "failure"},
           EnqueueMonitorObservation(kind)
    PROVE  /\ events' \in Seq(EventType)
           /\ RoundsIn(events') \subseteq RoundsIn(events) \cup {round}
<1> DEFINE e == Event(round, kind)
<1>1. e \in EventType /\ e.round = round /\ events \in Seq(EventType)
  BY DEF DrainTypes, EventType, Event
<1> HIDE DEF e
<1>2. CASE events' = Append(events, e)
  BY <1>1, <1>2, EventAppended
<1>3. CASE events' = events
  BY <1>1, <1>3
<1>4. CASE /\ Displaced(kind) # {}
           /\ events' = Append(RemoveAt(events, EarliestDisplaced(kind)), e)
  <2>1. EarliestDisplaced(kind) \in DOMAIN events
    BY <1>1, <1>4, DisplacedFound
  <2> DEFINE s == RemoveAt(events, EarliestDisplaced(kind))
  <2>2. s \in Seq(EventType) /\ RoundsIn(s) \subseteq RoundsIn(events)
    BY <1>1, <2>1, EventRemoved
  <2>3. events' = Append(s, e)
    BY <1>4
  <2> HIDE DEF s
  <2> QED
    BY <1>1, <2>2, <2>3, EventAppended
<1> QED
  BY <1>2, <1>3, <1>4 DEF EnqueueMonitorObservation, e

(* Every step keeps the types.                                             *)
LEMMA DrainTypesKept ==
    ASSUME DrainInv, [Next]_vars
    PROVE  DrainTypes'
<1>0. DrainTypes
  BY DEF DrainInv
<1>1. ASSUME NEW kind \in {"packet", "failure"}, EnqueueMonitorObservation(kind)
      PROVE  DrainTypes'
  <2>1. events' \in Seq(EventType)
    BY <1>0, <1>1, ObservationQueued DEF DrainTypes
  <2> QED
    BY <1>0, <1>1, <2>1 DEF DrainTypes, EnqueueMonitorObservation, queues, threads,
       runtimes
<1>2. ASSUME EmitVerification
      PROVE  DrainTypes'
  <2>1. metrics' \in Seq(Nat)
    BY <1>0, <1>2, MetricAppended
       DEF DrainTypes, EmitVerification, queues, threads, runtimes, EnqueueMonitorMetric
  <2> QED
    BY <1>0, <1>2, <2>1 DEF DrainTypes, EmitVerification, queues, threads, runtimes
<1>3. ASSUME EnqueueControl
      PROVE  DrainTypes'
  BY <1>0, <1>3 DEF DrainTypes, EnqueueControl, queues, threads, runtimes
<1>4. ASSUME BeginRound
      PROVE  DrainTypes'
  BY <1>0, <1>4 DEF DrainTypes, BeginRound, queues, threads, runtimes
<1>5. ASSUME StopBegins
      PROVE  DrainTypes'
  BY <1>0, <1>5 DEF DrainTypes, StopBegins, queues, threads, runtimes
<1>6. ASSUME NEW side \in Roles, EndRound(side)
      PROVE  DrainTypes'
  BY <1>0, <1>6 DEF DrainTypes, EndRound, queues, threads, runtimes
<1>7. ASSUME NEW side \in Roles, EmitSummary(side)
      PROVE  DrainTypes'
  <2>1. metrics' \in Seq(Nat)
    BY <1>0, <1>7, MetricAppended
       DEF DrainTypes, EmitSummary, queues, threads, runtimes, EnqueueMonitorMetric
  <2>2. ending' \in [Roles -> {"no", "metrics", "result", "drain", "leaving"}]
    BY <1>0, <1>7 DEF DrainTypes, EmitSummary
  <2> QED
    BY <1>0, <1>7, <2>1, <2>2 DEF DrainTypes, EmitSummary, queues, threads, runtimes
<1>8. ASSUME NEW side \in Roles, BroadcastControlMessage(side)
      PROVE  DrainTypes'
  BY <1>0, <1>8 DEF DrainTypes, BroadcastControlMessage, queues, threads, runtimes
<1>9. ASSUME NEW side \in Roles, RequestRoundDrainAcknowledgement(side)
      PROVE  DrainTypes'
  BY <1>0, <1>9 DEF DrainTypes, RequestRoundDrainAcknowledgement, queues, threads,
     runtimes
<1>10. ASSUME NEW side \in Roles, LeaveRound(side)
      PROVE  DrainTypes'
  BY <1>0, <1>10 DEF DrainTypes, LeaveRound, queues, threads, runtimes
<1>11. ASSUME TakeControl
      PROVE  DrainTypes'
  BY <1>0, <1>11 DEF DrainTypes, TakeControl, queues, threads, runtimes, WriteControl
<1>12. ASSUME TakeEvent
      PROVE  DrainTypes'
  <2>1. events' \in Seq(EventType)
    BY <1>0, <1>12, EventTaken DEF DrainTypes, TakeEvent, queues, threads, runtimes
  <2> QED
    BY <1>0, <1>12, <2>1 DEF DrainTypes, TakeEvent, queues, threads, runtimes
<1>13. ASSUME TakeMetrics
      PROVE  DrainTypes'
  <2>1. metrics' \in Seq(Nat)
    BY <1>0, <1>13, BatchTaken DEF DrainTypes, TakeMetrics, queues, threads, runtimes
  <2>2. UNCHANGED events
    BY <1>13 DEF TakeMetrics, queues, threads, runtimes, WriteMetrics
  <2> QED
    BY <1>0, <1>13, <2>1, <2>2 DEF DrainTypes, TakeMetrics, queues, threads, runtimes
<1>14. ASSUME WaitForBatch
      PROVE  DrainTypes'
  BY <1>0, <1>14 DEF DrainTypes, WaitForBatch, queues, threads, runtimes
<1>15. ASSUME BatchReady
      PROVE  DrainTypes'
  <2>1. metrics' \in Seq(Nat)
    <3>1. CASE metrics' = metrics
      BY <1>0, <3>1 DEF DrainTypes
    <3>2. CASE WriteMetrics
      BY <1>0, <3>2, BatchTaken DEF DrainTypes
    <3> QED
      BY <1>15, <3>1, <3>2 DEF BatchReady, queues, threads, runtimes, WriteControl
  <2>2. UNCHANGED events
    BY <1>15 DEF BatchReady, queues, threads, runtimes, WriteMetrics, WriteControl
  <2> QED
    BY <1>0, <1>15, <2>1, <2>2 DEF DrainTypes, BatchReady, queues, threads, runtimes
<1>16. ASSUME Written
      PROVE  DrainTypes'
  BY <1>0, <1>16 DEF DrainTypes, Written, queues, threads, runtimes
<1>17. ASSUME BroadcasterReturns
      PROVE  DrainTypes'
  BY <1>0, <1>17 DEF DrainTypes, BroadcasterReturns, queues, threads, runtimes
<1>18. ASSUME DrainerTests
      PROVE  DrainTypes'
  BY <1>0, <1>18 DEF DrainTypes, DrainerTests, DrainerStep, queues, threads, runtimes
<1>19. ASSUME DrainerSleeps
      PROVE  DrainTypes'
  BY <1>0, <1>19 DEF DrainTypes, DrainerSleeps, DrainerStep, queues, threads, runtimes
<1>20. ASSUME LookAtRuntimes
      PROVE  DrainTypes'
  BY <1>0, <1>20 DEF DrainTypes, LookAtRuntimes, DrainerStep, queues, threads, runtimes
<1>21. ASSUME LookAtQueues
      PROVE  DrainTypes'
  BY <1>0, <1>21 DEF DrainTypes, LookAtQueues, DrainerStep, queues, threads, runtimes
<1>22. ASSUME DrainDecided
      PROVE  DrainTypes'
  BY <1>0, <1>22 DEF DrainTypes, DrainDecided, DrainerStep, queues, threads, runtimes
<1>23. ASSUME SendDrainAcknowledgement
      PROVE  DrainTypes'
  BY <1>0, <1>23 DEF DrainTypes, SendDrainAcknowledgement, DrainerStep, queues, threads,
     runtimes
<1>24. ASSUME NotifyDrainer
      PROVE  DrainTypes'
  BY <1>0, <1>24 DEF DrainTypes, NotifyDrainer, queues, threads, runtimes
<1>25. ASSUME ClearQueues
      PROVE  DrainTypes'
  <2>1. events' \in Seq(EventType) /\ metrics' \in Seq(Nat)
    BY <1>25 DEF ClearQueues, queues, threads, runtimes
  <2> QED
    BY <1>0, <1>25, <2>1 DEF DrainTypes, ClearQueues, queues, threads, runtimes
<1>26. ASSUME JoinThreads
      PROVE  DrainTypes'
  <2>1. events' \in Seq(EventType) /\ metrics' \in Seq(Nat)
    BY <1>26 DEF JoinThreads, queues, threads, runtimes
  <2> QED
    BY <1>0, <1>26, <2>1 DEF DrainTypes, JoinThreads, queues, threads, runtimes
<1>27. CASE UNCHANGED vars
  BY <1>0, <1>27 DEF DrainTypes, vars, queues, threads, runtimes
<1> QED
  BY <1>1, <1>2, <1>3, <1>4, <1>5, <1>6, <1>7, <1>8, <1>9, <1>10, <1>11, <1>12, <1>13,
     <1>14, <1>15, <1>16, <1>17, <1>18, <1>19, <1>20, <1>21, <1>22, <1>23, <1>24, <1>25,
     <1>26, <1>27
  DEF Next, Broadcaster, Drainer, Stopper, Report, Environment

(* Telemetry is outstanding in a queue, in hand, or yet to be produced.    *)
LEMMA OutstandingParts ==
    Outstanding = RoundsIn(events) \cup ValuesIn(metrics) \cup inHand.rounds
                      \cup (IF Producing THEN {round} ELSE {})
BY DEF Outstanding, RoundsIn, ValuesIn, Producing

(* A step whose queues and hand hold only what was outstanding makes       *)
(* nothing outstanding, except a round that begins.                        *)
LEMMA OutstandingBound ==
    ASSUME DrainTypes, round' \in {round, round + 1},
           RoundsIn(events') \subseteq Outstanding, ValuesIn(metrics') \subseteq Outstanding,
           inHand'.rounds \subseteq Outstanding,
           round' = round /\ Producing' => Producing
    PROVE  /\ round <= round' /\ round' \in Nat
           /\ IF round' = round THEN Outstanding' \subseteq Outstanding
                               ELSE Outstanding' \subseteq Outstanding \cup {round'}
<1>1. Outstanding' = RoundsIn(events') \cup ValuesIn(metrics') \cup inHand'.rounds
                         \cup (IF Producing' THEN {round'} ELSE {})
  BY DEF Outstanding, RoundsIn, ValuesIn, Producing
<1>2. Producing => round \in Outstanding
  BY OutstandingParts
<1> QED
  BY <1>1, <1>2 DEF DrainTypes

(* No step makes a round outstanding again.                                *)
LEMMA OutstandingStep ==
    ASSUME DrainInv, [Next]_vars
    PROVE  /\ round <= round' /\ round' \in Nat
           /\ IF round' = round THEN Outstanding' \subseteq Outstanding
                               ELSE Outstanding' \subseteq Outstanding \cup {round'}
<1>0. /\ DrainTypes
      /\ RoundsIn(events) \subseteq Outstanding
      /\ ValuesIn(metrics) \subseteq Outstanding
      /\ inHand.rounds \subseteq Outstanding /\ (Producing => round \in Outstanding)
  BY OutstandingParts DEF DrainInv
<1>1. ASSUME NEW kind \in {"packet", "failure"}, EnqueueMonitorObservation(kind)
      PROVE  /\ round <= round' /\ round' \in Nat
           /\ IF round' = round THEN Outstanding' \subseteq Outstanding
                               ELSE Outstanding' \subseteq Outstanding \cup {round'}
  <2>0. Producing
    BY <1>0, <1>1 DEF DrainTypes, EnqueueMonitorObservation, queues, threads, runtimes,
       Producing
  <2>1. RoundsIn(events') \subseteq Outstanding
    BY <1>0, <1>1, <2>0, ObservationQueued
  <2>2. ValuesIn(metrics') \subseteq Outstanding
    BY <1>0, <1>1 DEF EnqueueMonitorObservation, queues, threads, runtimes
  <2>3. inHand'.rounds \subseteq Outstanding
    BY <1>0, <1>1 DEF EnqueueMonitorObservation, queues, threads, runtimes
  <2>4. Producing' => Producing
    BY <2>0
  <2>5. UNCHANGED round
    BY <1>1 DEF EnqueueMonitorObservation, queues, threads, runtimes
  <2> QED
    BY <1>0, <2>1, <2>2, <2>3, <2>4, <2>5, OutstandingBound
<1>2. ASSUME EmitVerification
      PROVE  /\ round <= round' /\ round' \in Nat
           /\ IF round' = round THEN Outstanding' \subseteq Outstanding
                               ELSE Outstanding' \subseteq Outstanding \cup {round'}
  <2>0. Producing
    BY <1>0, <1>2 DEF DrainTypes, EmitVerification, queues, threads, runtimes, Producing
  <2>1. RoundsIn(events') \subseteq Outstanding
    BY <1>0, <1>2 DEF EmitVerification, queues, threads, runtimes
  <2>2. ValuesIn(metrics') \subseteq Outstanding
    <3>1. ValuesIn(metrics') \subseteq ValuesIn(metrics) \cup {round}
      BY <1>0, <1>2, MetricAppended
         DEF DrainTypes, EmitVerification, queues, threads, runtimes,
         EnqueueMonitorMetric
    <3> QED
      BY <1>0, <2>0, <3>1
  <2>3. inHand'.rounds \subseteq Outstanding
    BY <1>0, <1>2 DEF EmitVerification, queues, threads, runtimes
  <2>4. Producing' => Producing
    BY <2>0
  <2>5. UNCHANGED round
    BY <1>2 DEF EmitVerification, queues, threads, runtimes
  <2> QED
    BY <1>0, <2>1, <2>2, <2>3, <2>4, <2>5, OutstandingBound
<1>3. ASSUME EnqueueControl
      PROVE  /\ round <= round' /\ round' \in Nat
           /\ IF round' = round THEN Outstanding' \subseteq Outstanding
                               ELSE Outstanding' \subseteq Outstanding \cup {round'}
  <2>1. UNCHANGED <<events, metrics, inHand, round>>
    BY <1>3 DEF EnqueueControl, queues, threads, runtimes
  <2>2. Producing' => Producing
    BY <1>0, <1>3 DEF DrainTypes, EnqueueControl, queues, threads, runtimes, Producing
  <2> QED
    BY <1>0, <2>1, <2>2, OutstandingBound
<1>4. ASSUME BeginRound
      PROVE  /\ round <= round' /\ round' \in Nat
           /\ IF round' = round THEN Outstanding' \subseteq Outstanding
                               ELSE Outstanding' \subseteq Outstanding \cup {round'}
  <2>1. UNCHANGED <<events, metrics, inHand>> /\ round' = round + 1
    BY <1>4 DEF BeginRound, queues, threads, runtimes
  <2> QED
    BY <1>0, <2>1, OutstandingBound DEF DrainTypes
<1>5. ASSUME StopBegins
      PROVE  /\ round <= round' /\ round' \in Nat
           /\ IF round' = round THEN Outstanding' \subseteq Outstanding
                               ELSE Outstanding' \subseteq Outstanding \cup {round'}
  <2>1. UNCHANGED <<events, metrics, inHand, round>>
    BY <1>5 DEF StopBegins, queues, threads, runtimes
  <2>2. Producing' => Producing
    BY <1>0, <1>5 DEF DrainTypes, StopBegins, queues, threads, runtimes, Producing
  <2> QED
    BY <1>0, <2>1, <2>2, OutstandingBound
<1>6. ASSUME NEW side \in Roles, EndRound(side)
      PROVE  /\ round <= round' /\ round' \in Nat
           /\ IF round' = round THEN Outstanding' \subseteq Outstanding
                               ELSE Outstanding' \subseteq Outstanding \cup {round'}
  <2>1. UNCHANGED <<events, metrics, inHand, round>> /\ Producing
    BY <1>0, <1>6 DEF DrainTypes, EndRound, queues, threads, runtimes, Producing
  <2> QED
    BY <1>0, <2>1, OutstandingBound
<1>7. ASSUME NEW side \in Roles, EmitSummary(side)
      PROVE  /\ round <= round' /\ round' \in Nat
           /\ IF round' = round THEN Outstanding' \subseteq Outstanding
                               ELSE Outstanding' \subseteq Outstanding \cup {round'}
  <2>0. Producing
    BY <1>0, <1>7 DEF DrainTypes, EmitSummary, queues, threads, runtimes, Producing
  <2>1. RoundsIn(events') \subseteq Outstanding
    BY <1>0, <1>7 DEF EmitSummary, queues, threads, runtimes
  <2>2. ValuesIn(metrics') \subseteq Outstanding
    <3>1. ValuesIn(metrics') \subseteq ValuesIn(metrics) \cup {round}
      BY <1>0, <1>7, MetricAppended
         DEF DrainTypes, EmitSummary, queues, threads, runtimes, EnqueueMonitorMetric
    <3> QED
      BY <1>0, <2>0, <3>1
  <2>3. inHand'.rounds \subseteq Outstanding
    BY <1>0, <1>7 DEF EmitSummary, queues, threads, runtimes
  <2>4. Producing' => Producing
    BY <2>0
  <2>5. UNCHANGED round
    BY <1>7 DEF EmitSummary, queues, threads, runtimes
  <2> QED
    BY <1>0, <2>1, <2>2, <2>3, <2>4, <2>5, OutstandingBound
<1>8. ASSUME NEW side \in Roles, BroadcastControlMessage(side)
      PROVE  /\ round <= round' /\ round' \in Nat
           /\ IF round' = round THEN Outstanding' \subseteq Outstanding
                               ELSE Outstanding' \subseteq Outstanding \cup {round'}
  <2>1. UNCHANGED <<events, metrics, inHand, round>>
    BY <1>8 DEF BroadcastControlMessage, queues, threads, runtimes
  <2>2. Producing' => Producing
    BY <1>0, <1>8 DEF DrainTypes, BroadcastControlMessage, queues, threads, runtimes,
       Producing
  <2> QED
    BY <1>0, <2>1, <2>2, OutstandingBound
<1>9. ASSUME NEW side \in Roles, RequestRoundDrainAcknowledgement(side)
      PROVE  /\ round <= round' /\ round' \in Nat
           /\ IF round' = round THEN Outstanding' \subseteq Outstanding
                               ELSE Outstanding' \subseteq Outstanding \cup {round'}
  <2>1. UNCHANGED <<events, metrics, inHand, round>>
    BY <1>9 DEF RequestRoundDrainAcknowledgement, queues, threads, runtimes
  <2>2. Producing' => Producing
    BY <1>0, <1>9 DEF DrainTypes, RequestRoundDrainAcknowledgement, queues, threads,
       runtimes, Producing
  <2> QED
    BY <1>0, <2>1, <2>2, OutstandingBound
<1>10. ASSUME NEW side \in Roles, LeaveRound(side)
      PROVE  /\ round <= round' /\ round' \in Nat
           /\ IF round' = round THEN Outstanding' \subseteq Outstanding
                               ELSE Outstanding' \subseteq Outstanding \cup {round'}
  <2>1. UNCHANGED <<events, metrics, inHand, round>>
    BY <1>10 DEF LeaveRound, queues, threads, runtimes
  <2>2. Producing' => Producing
    BY <1>0, <1>10 DEF DrainTypes, LeaveRound, queues, threads, runtimes, Producing
  <2> QED
    BY <1>0, <2>1, <2>2, OutstandingBound
<1>11. ASSUME TakeControl
      PROVE  /\ round <= round' /\ round' \in Nat
           /\ IF round' = round THEN Outstanding' \subseteq Outstanding
                               ELSE Outstanding' \subseteq Outstanding \cup {round'}
  <2>1. RoundsIn(events') \subseteq Outstanding
    BY <1>0, <1>11 DEF TakeControl, queues, threads, runtimes, WriteControl
  <2>2. ValuesIn(metrics') \subseteq Outstanding
    BY <1>0, <1>11 DEF TakeControl, queues, threads, runtimes, WriteControl
  <2>3. inHand'.rounds \subseteq Outstanding
    BY <1>11 DEF TakeControl, queues, threads, runtimes, WriteControl
  <2>4. Producing' => Producing
    BY <1>0, <1>11 DEF DrainTypes, TakeControl, queues, threads, runtimes, Producing
  <2>5. UNCHANGED round
    BY <1>11 DEF TakeControl, queues, threads, runtimes
  <2> QED
    BY <1>0, <2>1, <2>2, <2>3, <2>4, <2>5, OutstandingBound
<1>12. ASSUME TakeEvent
      PROVE  /\ round <= round' /\ round' \in Nat
           /\ IF round' = round THEN Outstanding' \subseteq Outstanding
                               ELSE Outstanding' \subseteq Outstanding \cup {round'}
  <2>0. events \in Seq(EventType) /\ events # <<>>
    BY <1>0, <1>12 DEF DrainTypes, TakeEvent, queues, threads, runtimes
  <2>00. /\ RoundsIn(events') \subseteq RoundsIn(events)
         /\ inHand'.rounds \subseteq RoundsIn(events)
    BY <1>12, <2>0, EventTaken DEF TakeEvent, queues, threads, runtimes
  <2>1. RoundsIn(events') \subseteq Outstanding
    BY <1>0, <2>00
  <2>2. ValuesIn(metrics') \subseteq Outstanding
    BY <1>0, <1>12 DEF TakeEvent, queues, threads, runtimes
  <2>3. inHand'.rounds \subseteq Outstanding
    BY <1>0, <2>00
  <2>4. Producing' => Producing
    BY <1>0, <1>12 DEF DrainTypes, TakeEvent, queues, threads, runtimes, Producing
  <2>5. UNCHANGED round
    BY <1>12 DEF TakeEvent, queues, threads, runtimes
  <2> QED
    BY <1>0, <2>1, <2>2, <2>3, <2>4, <2>5, OutstandingBound
<1>13. ASSUME TakeMetrics
      PROVE  /\ round <= round' /\ round' \in Nat
           /\ IF round' = round THEN Outstanding' \subseteq Outstanding
                               ELSE Outstanding' \subseteq Outstanding \cup {round'}
  <2>0. /\ ValuesIn(metrics') \subseteq ValuesIn(metrics) /\ UNCHANGED events
        /\ inHand'.rounds \subseteq ValuesIn(metrics)
    BY <1>0, <1>13, BatchTaken DEF DrainTypes, TakeMetrics, queues, threads, runtimes
  <2>1. RoundsIn(events') \subseteq Outstanding
    BY <1>0, <2>0
  <2>2. ValuesIn(metrics') \subseteq Outstanding
    BY <1>0, <2>0
  <2>3. inHand'.rounds \subseteq Outstanding
    BY <1>0, <2>0
  <2>4. Producing' => Producing
    BY <1>0, <1>13 DEF DrainTypes, TakeMetrics, queues, threads, runtimes, Producing
  <2>5. UNCHANGED round
    BY <1>13 DEF TakeMetrics, queues, threads, runtimes
  <2> QED
    BY <1>0, <2>1, <2>2, <2>3, <2>4, <2>5, OutstandingBound
<1>14. ASSUME WaitForBatch
      PROVE  /\ round <= round' /\ round' \in Nat
           /\ IF round' = round THEN Outstanding' \subseteq Outstanding
                               ELSE Outstanding' \subseteq Outstanding \cup {round'}
  <2>1. UNCHANGED <<events, metrics, inHand, round>>
    BY <1>14 DEF WaitForBatch, queues, threads, runtimes
  <2>2. Producing' => Producing
    BY <1>0, <1>14 DEF DrainTypes, WaitForBatch, queues, threads, runtimes, Producing
  <2> QED
    BY <1>0, <2>1, <2>2, OutstandingBound
<1>15. ASSUME BatchReady
      PROVE  /\ round <= round' /\ round' \in Nat
           /\ IF round' = round THEN Outstanding' \subseteq Outstanding
                               ELSE Outstanding' \subseteq Outstanding \cup {round'}
  <2>0. /\ ValuesIn(metrics') \subseteq ValuesIn(metrics) /\ UNCHANGED events
        /\ inHand'.rounds \subseteq ValuesIn(metrics)
    <3>1. CASE WriteMetrics
      BY <1>0, <3>1, BatchTaken DEF DrainTypes
    <3>2. CASE WriteControl
      BY <3>2 DEF WriteControl
    <3> QED
      BY <1>15, <3>1, <3>2 DEF BatchReady, queues, threads, runtimes
  <2>1. RoundsIn(events') \subseteq Outstanding
    BY <1>0, <2>0
  <2>2. ValuesIn(metrics') \subseteq Outstanding
    BY <1>0, <2>0
  <2>3. inHand'.rounds \subseteq Outstanding
    BY <1>0, <2>0
  <2>4. Producing' => Producing
    BY <1>0, <1>15 DEF DrainTypes, BatchReady, queues, threads, runtimes, Producing
  <2>5. UNCHANGED round
    BY <1>15 DEF BatchReady, queues, threads, runtimes
  <2> QED
    BY <1>0, <2>1, <2>2, <2>3, <2>4, <2>5, OutstandingBound
<1>16. ASSUME Written
      PROVE  /\ round <= round' /\ round' \in Nat
           /\ IF round' = round THEN Outstanding' \subseteq Outstanding
                               ELSE Outstanding' \subseteq Outstanding \cup {round'}
  <2>1. RoundsIn(events') \subseteq Outstanding
    BY <1>0, <1>16 DEF Written, queues, threads, runtimes
  <2>2. ValuesIn(metrics') \subseteq Outstanding
    BY <1>0, <1>16 DEF Written, queues, threads, runtimes
  <2>3. inHand'.rounds \subseteq Outstanding
    BY <1>16 DEF Written, queues, threads, runtimes, Nothing
  <2>4. Producing' => Producing
    BY <1>0, <1>16 DEF DrainTypes, Written, queues, threads, runtimes, Producing
  <2>5. UNCHANGED round
    BY <1>16 DEF Written, queues, threads, runtimes
  <2> QED
    BY <1>0, <2>1, <2>2, <2>3, <2>4, <2>5, OutstandingBound
<1>17. ASSUME BroadcasterReturns
      PROVE  /\ round <= round' /\ round' \in Nat
           /\ IF round' = round THEN Outstanding' \subseteq Outstanding
                               ELSE Outstanding' \subseteq Outstanding \cup {round'}
  <2>1. UNCHANGED <<events, metrics, inHand, round>>
    BY <1>17 DEF BroadcasterReturns, queues, threads, runtimes
  <2>2. Producing' => Producing
    BY <1>0, <1>17 DEF DrainTypes, BroadcasterReturns, queues, threads, runtimes,
       Producing
  <2> QED
    BY <1>0, <2>1, <2>2, OutstandingBound
<1>18. ASSUME DrainerTests
      PROVE  /\ round <= round' /\ round' \in Nat
           /\ IF round' = round THEN Outstanding' \subseteq Outstanding
                               ELSE Outstanding' \subseteq Outstanding \cup {round'}
  <2>1. UNCHANGED <<events, metrics, inHand, round>>
    BY <1>18 DEF DrainerTests, DrainerStep, queues, threads, runtimes
  <2>2. Producing' => Producing
    BY <1>0, <1>18 DEF DrainTypes, DrainerTests, DrainerStep, queues, threads, runtimes,
       Producing
  <2> QED
    BY <1>0, <2>1, <2>2, OutstandingBound
<1>19. ASSUME DrainerSleeps
      PROVE  /\ round <= round' /\ round' \in Nat
           /\ IF round' = round THEN Outstanding' \subseteq Outstanding
                               ELSE Outstanding' \subseteq Outstanding \cup {round'}
  <2>1. UNCHANGED <<events, metrics, inHand, round>>
    BY <1>19 DEF DrainerSleeps, DrainerStep, queues, threads, runtimes
  <2>2. Producing' => Producing
    BY <1>0, <1>19 DEF DrainTypes, DrainerSleeps, DrainerStep, queues, threads,
       runtimes, Producing
  <2> QED
    BY <1>0, <2>1, <2>2, OutstandingBound
<1>20. ASSUME LookAtRuntimes
      PROVE  /\ round <= round' /\ round' \in Nat
           /\ IF round' = round THEN Outstanding' \subseteq Outstanding
                               ELSE Outstanding' \subseteq Outstanding \cup {round'}
  <2>1. UNCHANGED <<events, metrics, inHand, round>>
    BY <1>20 DEF LookAtRuntimes, DrainerStep, queues, threads, runtimes
  <2>2. Producing' => Producing
    BY <1>0, <1>20 DEF DrainTypes, LookAtRuntimes, DrainerStep, queues, threads,
       runtimes, Producing
  <2> QED
    BY <1>0, <2>1, <2>2, OutstandingBound
<1>21. ASSUME LookAtQueues
      PROVE  /\ round <= round' /\ round' \in Nat
           /\ IF round' = round THEN Outstanding' \subseteq Outstanding
                               ELSE Outstanding' \subseteq Outstanding \cup {round'}
  <2>1. UNCHANGED <<events, metrics, inHand, round>>
    BY <1>21 DEF LookAtQueues, DrainerStep, queues, threads, runtimes
  <2>2. Producing' => Producing
    BY <1>0, <1>21 DEF DrainTypes, LookAtQueues, DrainerStep, queues, threads, runtimes,
       Producing
  <2> QED
    BY <1>0, <2>1, <2>2, OutstandingBound
<1>22. ASSUME DrainDecided
      PROVE  /\ round <= round' /\ round' \in Nat
           /\ IF round' = round THEN Outstanding' \subseteq Outstanding
                               ELSE Outstanding' \subseteq Outstanding \cup {round'}
  <2>1. UNCHANGED <<events, metrics, inHand, round>>
    BY <1>22 DEF DrainDecided, DrainerStep, queues, threads, runtimes
  <2>2. Producing' => Producing
    BY <1>0, <1>22 DEF DrainTypes, DrainDecided, DrainerStep, queues, threads, runtimes,
       Producing
  <2> QED
    BY <1>0, <2>1, <2>2, OutstandingBound
<1>23. ASSUME SendDrainAcknowledgement
      PROVE  /\ round <= round' /\ round' \in Nat
           /\ IF round' = round THEN Outstanding' \subseteq Outstanding
                               ELSE Outstanding' \subseteq Outstanding \cup {round'}
  <2>1. UNCHANGED <<events, metrics, inHand, round>>
    BY <1>23 DEF SendDrainAcknowledgement, DrainerStep, queues, threads, runtimes
  <2>2. Producing' => Producing
    BY <1>0, <1>23 DEF DrainTypes, SendDrainAcknowledgement, DrainerStep, queues,
       threads, runtimes, Producing
  <2> QED
    BY <1>0, <2>1, <2>2, OutstandingBound
<1>24. ASSUME NotifyDrainer
      PROVE  /\ round <= round' /\ round' \in Nat
           /\ IF round' = round THEN Outstanding' \subseteq Outstanding
                               ELSE Outstanding' \subseteq Outstanding \cup {round'}
  <2>1. UNCHANGED <<events, metrics, inHand, round>>
    BY <1>24 DEF NotifyDrainer, queues, threads, runtimes
  <2>2. Producing' => Producing
    BY <1>0, <1>24 DEF DrainTypes, NotifyDrainer, queues, threads, runtimes, Producing
  <2> QED
    BY <1>0, <2>1, <2>2, OutstandingBound
<1>25. ASSUME ClearQueues
      PROVE  /\ round <= round' /\ round' \in Nat
           /\ IF round' = round THEN Outstanding' \subseteq Outstanding
                               ELSE Outstanding' \subseteq Outstanding \cup {round'}
  <2>1. RoundsIn(events') \subseteq Outstanding
    BY <1>25 DEF ClearQueues, queues, threads, runtimes, RoundsIn
  <2>2. ValuesIn(metrics') \subseteq Outstanding
    BY <1>25 DEF ClearQueues, queues, threads, runtimes, ValuesIn
  <2>3. inHand'.rounds \subseteq Outstanding
    BY <1>0, <1>25 DEF ClearQueues, queues, threads, runtimes
  <2>4. Producing' => Producing
    BY <1>0, <1>25 DEF DrainTypes, ClearQueues, queues, threads, runtimes, Producing
  <2>5. UNCHANGED round
    BY <1>25 DEF ClearQueues, queues, threads, runtimes
  <2> QED
    BY <1>0, <2>1, <2>2, <2>3, <2>4, <2>5, OutstandingBound
<1>26. ASSUME JoinThreads
      PROVE  /\ round <= round' /\ round' \in Nat
           /\ IF round' = round THEN Outstanding' \subseteq Outstanding
                               ELSE Outstanding' \subseteq Outstanding \cup {round'}
  <2>1. RoundsIn(events') \subseteq Outstanding
    BY <1>26 DEF JoinThreads, queues, threads, runtimes, RoundsIn
  <2>2. ValuesIn(metrics') \subseteq Outstanding
    BY <1>26 DEF JoinThreads, queues, threads, runtimes, ValuesIn
  <2>3. inHand'.rounds \subseteq Outstanding
    BY <1>0, <1>26 DEF JoinThreads, queues, threads, runtimes
  <2>4. Producing' => Producing
    BY <1>0, <1>26 DEF DrainTypes, JoinThreads, queues, threads, runtimes, Producing
  <2>5. UNCHANGED round
    BY <1>26 DEF JoinThreads, queues, threads, runtimes
  <2> QED
    BY <1>0, <2>1, <2>2, <2>3, <2>4, <2>5, OutstandingBound
<1>27. CASE UNCHANGED vars
  <2>1. UNCHANGED <<events, metrics, inHand, round>>
    BY <1>27 DEF vars, queues, threads, runtimes
  <2>2. Producing' => Producing
    BY <1>0, <1>27 DEF DrainTypes, vars, queues, threads, runtimes, Producing
  <2> QED
    BY <1>0, <2>1, <2>2, OutstandingBound
<1> QED
  BY <1>1, <1>2, <1>3, <1>4, <1>5, <1>6, <1>7, <1>8, <1>9, <1>10, <1>11, <1>12, <1>13,
     <1>14, <1>15, <1>16, <1>17, <1>18, <1>19, <1>20, <1>21, <1>22, <1>23, <1>24, <1>25,
     <1>26, <1>27
  DEF Next, Broadcaster, Drainer, Stopper, Report, Environment

(* Every step keeps HandInv.                                               *)
LEMMA HandKept ==
    ASSUME DrainInv, [Next]_vars
    PROVE  HandInv'
<1>0. HandInv
  BY DEF DrainInv
<1>1. ASSUME NEW kind \in {"packet", "failure"}, EnqueueMonitorObservation(kind)
      PROVE  HandInv'
  BY <1>0, <1>1 DEF HandInv, EnqueueMonitorObservation, queues, threads, runtimes
<1>2. ASSUME EmitVerification
      PROVE  HandInv'
  BY <1>0, <1>2 DEF HandInv, EmitVerification, queues, threads, runtimes
<1>3. ASSUME EnqueueControl
      PROVE  HandInv'
  BY <1>0, <1>3 DEF HandInv, EnqueueControl, queues, threads, runtimes
<1>4. ASSUME BeginRound
      PROVE  HandInv'
  BY <1>0, <1>4 DEF HandInv, BeginRound, queues, threads, runtimes
<1>5. ASSUME StopBegins
      PROVE  HandInv'
  BY <1>0, <1>5 DEF HandInv, StopBegins, queues, threads, runtimes
<1>6. ASSUME NEW side \in Roles, EndRound(side)
      PROVE  HandInv'
  BY <1>0, <1>6 DEF HandInv, EndRound, queues, threads, runtimes
<1>7. ASSUME NEW side \in Roles, EmitSummary(side)
      PROVE  HandInv'
  BY <1>0, <1>7 DEF HandInv, EmitSummary, queues, threads, runtimes
<1>8. ASSUME NEW side \in Roles, BroadcastControlMessage(side)
      PROVE  HandInv'
  BY <1>0, <1>8 DEF HandInv, BroadcastControlMessage, queues, threads, runtimes
<1>9. ASSUME NEW side \in Roles, RequestRoundDrainAcknowledgement(side)
      PROVE  HandInv'
  BY <1>0, <1>9 DEF HandInv, RequestRoundDrainAcknowledgement, queues, threads, runtimes
<1>10. ASSUME NEW side \in Roles, LeaveRound(side)
      PROVE  HandInv'
  BY <1>0, <1>10 DEF HandInv, LeaveRound, queues, threads, runtimes
<1>11. ASSUME TakeControl
      PROVE  HandInv'
  BY <1>0, <1>11 DEF HandInv, TakeControl, queues, threads, runtimes, WriteControl
<1>12. ASSUME TakeEvent
      PROVE  HandInv'
  BY <1>0, <1>12 DEF HandInv, TakeEvent, queues, threads, runtimes
<1>13. ASSUME TakeMetrics
      PROVE  HandInv'
  BY <1>0, <1>13 DEF HandInv, TakeMetrics, queues, threads, runtimes, WriteMetrics
<1>14. ASSUME WaitForBatch
      PROVE  HandInv'
  BY <1>0, <1>14 DEF HandInv, WaitForBatch, queues, threads, runtimes
<1>15. ASSUME BatchReady
      PROVE  HandInv'
  BY <1>0, <1>15 DEF HandInv, BatchReady, queues, threads, runtimes, WriteMetrics,
     WriteControl
<1>16. ASSUME Written
      PROVE  HandInv'
  BY <1>0, <1>16 DEF HandInv, Written, queues, threads, runtimes
<1>17. ASSUME BroadcasterReturns
      PROVE  HandInv'
  BY <1>0, <1>17 DEF HandInv, BroadcasterReturns, queues, threads, runtimes
<1>18. ASSUME DrainerTests
      PROVE  HandInv'
  BY <1>0, <1>18 DEF HandInv, DrainerTests, DrainerStep, queues, threads, runtimes
<1>19. ASSUME DrainerSleeps
      PROVE  HandInv'
  BY <1>0, <1>19 DEF HandInv, DrainerSleeps, DrainerStep, queues, threads, runtimes
<1>20. ASSUME LookAtRuntimes
      PROVE  HandInv'
  BY <1>0, <1>20 DEF HandInv, LookAtRuntimes, DrainerStep, queues, threads, runtimes
<1>21. ASSUME LookAtQueues
      PROVE  HandInv'
  BY <1>0, <1>21 DEF HandInv, LookAtQueues, DrainerStep, queues, threads, runtimes
<1>22. ASSUME DrainDecided
      PROVE  HandInv'
  BY <1>0, <1>22 DEF HandInv, DrainDecided, DrainerStep, queues, threads, runtimes
<1>23. ASSUME SendDrainAcknowledgement
      PROVE  HandInv'
  BY <1>0, <1>23 DEF HandInv, SendDrainAcknowledgement, DrainerStep, queues, threads,
     runtimes
<1>24. ASSUME NotifyDrainer
      PROVE  HandInv'
  BY <1>0, <1>24 DEF HandInv, NotifyDrainer, queues, threads, runtimes
<1>25. ASSUME ClearQueues
      PROVE  HandInv'
  BY <1>0, <1>25 DEF HandInv, ClearQueues, queues, threads, runtimes
<1>26. ASSUME JoinThreads
      PROVE  HandInv'
  BY <1>0, <1>26 DEF HandInv, JoinThreads, queues, threads, runtimes
<1>27. CASE UNCHANGED vars
  BY <1>0, <1>27 DEF HandInv, vars, queues, threads, runtimes
<1> QED
  BY <1>1, <1>2, <1>3, <1>4, <1>5, <1>6, <1>7, <1>8, <1>9, <1>10, <1>11, <1>12, <1>13,
     <1>14, <1>15, <1>16, <1>17, <1>18, <1>19, <1>20, <1>21, <1>22, <1>23, <1>24, <1>25,
     <1>26, <1>27
  DEF Next, Broadcaster, Drainer, Stopper, Report, Environment

(* Every step keeps PursuedInv. This is where a single role is needed.     *)
LEMMA PursuedKept ==
    ASSUME NEW the, Roles = {the}, DrainInv, [Next]_vars
    PROVE  PursuedInv'
<1>0. DrainTypes /\ PursuedInv
  BY DEF DrainInv
<1>1. ASSUME NEW kind \in {"packet", "failure"}, EnqueueMonitorObservation(kind)
      PROVE  PursuedInv'
  <2>1. UNCHANGED <<drainId, drainRound, drainer, round, active, ending>>
    BY <1>1 DEF EnqueueMonitorObservation, queues, threads, runtimes
  <2> QED
    BY <1>0, <2>1 DEF PursuedInv, Over
<1>2. ASSUME EmitVerification
      PROVE  PursuedInv'
  <2>1. UNCHANGED <<drainId, drainRound, drainer, round, active, ending>>
    BY <1>2 DEF EmitVerification, queues, threads, runtimes
  <2> QED
    BY <1>0, <2>1 DEF PursuedInv, Over
<1>3. ASSUME EnqueueControl
      PROVE  PursuedInv'
  <2>1. UNCHANGED <<drainId, drainRound, drainer, round, active, ending>>
    BY <1>3 DEF EnqueueControl, queues, threads, runtimes
  <2> QED
    BY <1>0, <2>1 DEF PursuedInv, Over
<1>4. ASSUME BeginRound
      PROVE  PursuedInv'
  <2>1. UNCHANGED <<drainId, drainRound, drainer>> /\ round' = round + 1
    BY <1>4 DEF BeginRound, queues, threads, runtimes
  <2>2. drainId < round' /\ drainRound < round'
    BY <1>0, <2>1 DEF DrainTypes
  <2> QED
    BY <2>1, <2>2 DEF PursuedInv, Over
<1>5. ASSUME StopBegins
      PROVE  PursuedInv'
  <2>1. UNCHANGED <<drainId, drainRound, drainer, round, active, ending>>
    BY <1>5 DEF StopBegins, queues, threads, runtimes
  <2> QED
    BY <1>0, <2>1 DEF PursuedInv, Over
<1>6. ASSUME NEW side \in Roles, EndRound(side)
      PROVE  PursuedInv'
  <2>1. /\ UNCHANGED <<drainId, drainRound, drainer, round>>
        /\ side \in active /\ ending[side] = "no"
    BY <1>6 DEF EndRound, queues, threads, runtimes
  <2>2. ~ \A r \in Roles : /\ ending[r] \in {"leaving", "no"}
                           /\ r \in active => ending[r] = "leaving"
    BY <2>1
  <2> QED
    BY <1>0, <2>1, <2>2 DEF PursuedInv, Over, DrainTypes
<1>7. ASSUME NEW side \in Roles, EmitSummary(side)
      PROVE  PursuedInv'
  <2>1. UNCHANGED <<drainId, drainRound, drainer, round>> /\ ending[side] = "metrics"
    BY <1>7 DEF EmitSummary, queues, threads, runtimes
  <2>2. ~ \A r \in Roles : /\ ending[r] \in {"leaving", "no"}
                           /\ r \in active => ending[r] = "leaving"
    BY <2>1
  <2> QED
    BY <1>0, <2>1, <2>2 DEF PursuedInv, Over, DrainTypes
<1>8. ASSUME NEW side \in Roles, BroadcastControlMessage(side)
      PROVE  PursuedInv'
  <2>1. UNCHANGED <<drainId, drainRound, drainer, round>> /\ ending[side] = "result"
    BY <1>8 DEF BroadcastControlMessage, queues, threads, runtimes
  <2>2. ~ \A r \in Roles : /\ ending[r] \in {"leaving", "no"}
                           /\ r \in active => ending[r] = "leaving"
    BY <2>1
  <2> QED
    BY <1>0, <2>1, <2>2 DEF PursuedInv, Over, DrainTypes
<1>9. ASSUME NEW side \in Roles, RequestRoundDrainAcknowledgement(side)
      PROVE  PursuedInv'
  <2>1. /\ UNCHANGED <<drainRound, round, active>> /\ drainId' = round
        /\ drainer' = drainer \/ drainer' = "top"
    BY <1>9 DEF RequestRoundDrainAcknowledgement, queues, threads, runtimes
  <2>2. \A r \in Roles : ending'[r] = "leaving"
    BY <1>0, <1>9 DEF DrainTypes, RequestRoundDrainAcknowledgement, queues, threads,
       runtimes
  <2> QED
    BY <1>0, <2>1, <2>2 DEF PursuedInv, Over
<1>10. ASSUME NEW side \in Roles, LeaveRound(side)
      PROVE  PursuedInv'
  <2>1. UNCHANGED <<drainId, drainRound, drainer, round>>
    BY <1>10 DEF LeaveRound, queues, threads, runtimes
  <2>2. \A r \in Roles : /\ ending'[r] = ending[r] \/ ending'[r] = "no"
                         /\ r \in active' => r \in active /\ ending'[r] = ending[r]
    BY <1>0, <1>10 DEF DrainTypes, LeaveRound, queues, threads, runtimes
  <2> QED
    BY <1>0, <2>1, <2>2 DEF PursuedInv, Over
<1>11. ASSUME TakeControl
      PROVE  PursuedInv'
  <2>1. UNCHANGED <<drainId, drainRound, drainer, round, active, ending>>
    BY <1>11 DEF TakeControl, queues, threads, runtimes
  <2> QED
    BY <1>0, <2>1 DEF PursuedInv, Over
<1>12. ASSUME TakeEvent
      PROVE  PursuedInv'
  <2>1. UNCHANGED <<drainId, drainRound, drainer, round, active, ending>>
    BY <1>12 DEF TakeEvent, queues, threads, runtimes
  <2> QED
    BY <1>0, <2>1 DEF PursuedInv, Over
<1>13. ASSUME TakeMetrics
      PROVE  PursuedInv'
  <2>1. UNCHANGED <<drainId, drainRound, drainer, round, active, ending>>
    BY <1>13 DEF TakeMetrics, queues, threads, runtimes
  <2> QED
    BY <1>0, <2>1 DEF PursuedInv, Over
<1>14. ASSUME WaitForBatch
      PROVE  PursuedInv'
  <2>1. UNCHANGED <<drainId, drainRound, drainer, round, active, ending>>
    BY <1>14 DEF WaitForBatch, queues, threads, runtimes
  <2> QED
    BY <1>0, <2>1 DEF PursuedInv, Over
<1>15. ASSUME BatchReady
      PROVE  PursuedInv'
  <2>1. UNCHANGED <<drainId, drainRound, drainer, round, active, ending>>
    BY <1>15 DEF BatchReady, queues, threads, runtimes
  <2> QED
    BY <1>0, <2>1 DEF PursuedInv, Over
<1>16. ASSUME Written
      PROVE  PursuedInv'
  <2>1. UNCHANGED <<drainId, drainRound, drainer, round, active, ending>>
    BY <1>16 DEF Written, queues, threads, runtimes
  <2> QED
    BY <1>0, <2>1 DEF PursuedInv, Over
<1>17. ASSUME BroadcasterReturns
      PROVE  PursuedInv'
  <2>1. UNCHANGED <<drainId, drainRound, drainer, round, active, ending>>
    BY <1>17 DEF BroadcasterReturns, queues, threads, runtimes
  <2> QED
    BY <1>0, <2>1 DEF PursuedInv, Over
<1>18. ASSUME DrainerTests
      PROVE  PursuedInv'
  <2>1. /\ UNCHANGED <<drainId, round, active, ending>>
        /\ drainer' = "looking" => drainRound' = drainId /\ drainId # 0
        /\ drainer' \in {"returned", "dozing", "looking"}
    BY <1>18 DEF DrainerTests, DrainerStep, queues, threads, runtimes
  <2> QED
    BY <1>0, <2>1 DEF PursuedInv, Over
<1>19. ASSUME DrainerSleeps
      PROVE  PursuedInv'
  <2>1. /\ UNCHANGED <<drainId, drainRound, round, active, ending>>
        /\ drainer = "dozing" /\ drainer' = "asleep"
    BY <1>19 DEF DrainerSleeps, DrainerStep, queues, threads, runtimes
  <2> QED
    BY <1>0, <2>1 DEF PursuedInv, Over
<1>20. ASSUME LookAtRuntimes
      PROVE  PursuedInv'
  <2>1. /\ UNCHANGED <<drainId, drainRound, round, active, ending>>
        /\ drainer = "looking" /\ drainer' = "counting"
    BY <1>20 DEF LookAtRuntimes, DrainerStep, queues, threads, runtimes
  <2> QED
    BY <1>0, <2>1 DEF PursuedInv, Over
<1>21. ASSUME LookAtQueues
      PROVE  PursuedInv'
  <2>1. /\ UNCHANGED <<drainId, drainRound, round, active, ending>>
        /\ drainer = "counting" /\ drainer' \in {"deciding", "top"}
    BY <1>21 DEF LookAtQueues, DrainerStep, queues, threads, runtimes
  <2> QED
    BY <1>0, <2>1 DEF PursuedInv, Over
<1>22. ASSUME DrainDecided
      PROVE  PursuedInv'
  <2>1. /\ UNCHANGED <<drainRound, round, active, ending>> /\ drainer = "deciding"
        /\ drainId' = drainId \/ drainId' = 0
    BY <1>22 DEF DrainDecided, DrainerStep, queues, threads, runtimes
  <2> QED
    BY <1>0, <2>1 DEF PursuedInv, Over
<1>23. ASSUME SendDrainAcknowledgement
      PROVE  PursuedInv'
  <2>1. /\ UNCHANGED <<drainId, drainRound, round, active, ending>>
        /\ drainer = "acknowledging" /\ drainer' = "top"
    BY <1>23 DEF SendDrainAcknowledgement, DrainerStep, queues, threads, runtimes
  <2> QED
    BY <1>0, <2>1 DEF PursuedInv, Over
<1>24. ASSUME NotifyDrainer
      PROVE  PursuedInv'
  <2>1. /\ UNCHANGED <<drainId, drainRound, round, active, ending>>
        /\ drainer' = drainer \/ drainer' = "top"
    BY <1>24 DEF NotifyDrainer, queues, threads, runtimes
  <2> QED
    BY <1>0, <2>1 DEF PursuedInv, Over
<1>25. ASSUME ClearQueues
      PROVE  PursuedInv'
  <2>1. UNCHANGED <<drainId, drainRound, drainer, round, active, ending>>
    BY <1>25 DEF ClearQueues, queues, threads, runtimes
  <2> QED
    BY <1>0, <2>1 DEF PursuedInv, Over
<1>26. ASSUME JoinThreads
      PROVE  PursuedInv'
  <2>1. /\ UNCHANGED <<drainRound, drainer, round, active, ending>> /\ drainId' = 0
    BY <1>26 DEF JoinThreads, queues, threads, runtimes
  <2> QED
    BY <1>0, <2>1 DEF PursuedInv, Over
<1>27. CASE UNCHANGED vars
  <2>1. UNCHANGED <<drainId, drainRound, drainer, round, active, ending>>
    BY <1>27 DEF vars, queues, threads, runtimes
  <2> QED
    BY <1>0, <2>1 DEF PursuedInv, Over
<1> QED
  BY <1>1, <1>2, <1>3, <1>4, <1>5, <1>6, <1>7, <1>8, <1>9, <1>10, <1>11, <1>12, <1>13,
     <1>14, <1>15, <1>16, <1>17, <1>18, <1>19, <1>20, <1>21, <1>22, <1>23, <1>24, <1>25,
     <1>26, <1>27
  DEF Next, Broadcaster, Drainer, Stopper, Report, Environment

(* Every step keeps SilentInv.                                             *)
LEMMA SilentKept ==
    ASSUME DrainInv, [Next]_vars
    PROVE  SilentInv'
<1>0. DrainTypes /\ SilentInv
  BY DEF DrainInv
<1>1. ASSUME NEW kind \in {"packet", "failure"}, EnqueueMonitorObservation(kind)
      PROVE  SilentInv'
  <2>1. UNCHANGED <<drainRound, drainer, drainIdle, round, active>>
    BY <1>1 DEF EnqueueMonitorObservation, queues, threads, runtimes
  <2> QED
    BY <1>0, <2>1 DEF SilentInv
<1>2. ASSUME EmitVerification
      PROVE  SilentInv'
  <2>1. UNCHANGED <<drainRound, drainer, drainIdle, round, active>>
    BY <1>2 DEF EmitVerification, queues, threads, runtimes
  <2> QED
    BY <1>0, <2>1 DEF SilentInv
<1>3. ASSUME EnqueueControl
      PROVE  SilentInv'
  <2>1. UNCHANGED <<drainRound, drainer, drainIdle, round, active>>
    BY <1>3 DEF EnqueueControl, queues, threads, runtimes
  <2> QED
    BY <1>0, <2>1 DEF SilentInv
<1>4. ASSUME BeginRound
      PROVE  SilentInv'
  <2>1. UNCHANGED drainRound /\ round' = round + 1
    BY <1>4 DEF BeginRound, queues, threads, runtimes
  <2> QED
    BY <1>0, <2>1 DEF SilentInv, DrainTypes
<1>5. ASSUME StopBegins
      PROVE  SilentInv'
  <2>1. UNCHANGED <<drainRound, drainer, drainIdle, round, active>>
    BY <1>5 DEF StopBegins, queues, threads, runtimes
  <2> QED
    BY <1>0, <2>1 DEF SilentInv
<1>6. ASSUME NEW side \in Roles, EndRound(side)
      PROVE  SilentInv'
  <2>1. UNCHANGED <<drainRound, drainer, drainIdle, round>> /\ active' \subseteq active
    BY <1>6 DEF EndRound, queues, threads, runtimes
  <2> QED
    BY <1>0, <2>1 DEF SilentInv
<1>7. ASSUME NEW side \in Roles, EmitSummary(side)
      PROVE  SilentInv'
  <2>1. UNCHANGED <<drainRound, drainer, drainIdle, round, active>>
    BY <1>7 DEF EmitSummary, queues, threads, runtimes
  <2> QED
    BY <1>0, <2>1 DEF SilentInv
<1>8. ASSUME NEW side \in Roles, BroadcastControlMessage(side)
      PROVE  SilentInv'
  <2>1. UNCHANGED <<drainRound, drainer, drainIdle, round, active>>
    BY <1>8 DEF BroadcastControlMessage, queues, threads, runtimes
  <2> QED
    BY <1>0, <2>1 DEF SilentInv
<1>9. ASSUME NEW side \in Roles, RequestRoundDrainAcknowledgement(side)
      PROVE  SilentInv'
  <2>1. /\ UNCHANGED <<drainRound, drainIdle, round, active>>
        /\ drainer' = drainer \/ drainer' = "top"
    BY <1>9 DEF RequestRoundDrainAcknowledgement, queues, threads, runtimes
  <2> QED
    BY <1>0, <2>1 DEF SilentInv
<1>10. ASSUME NEW side \in Roles, LeaveRound(side)
      PROVE  SilentInv'
  <2>1. UNCHANGED <<drainRound, drainer, drainIdle, round>> /\ active' \subseteq active
    BY <1>10 DEF LeaveRound, queues, threads, runtimes
  <2> QED
    BY <1>0, <2>1 DEF SilentInv
<1>11. ASSUME TakeControl
      PROVE  SilentInv'
  <2>1. UNCHANGED <<drainRound, drainer, drainIdle, round, active>>
    BY <1>11 DEF TakeControl, queues, threads, runtimes
  <2> QED
    BY <1>0, <2>1 DEF SilentInv
<1>12. ASSUME TakeEvent
      PROVE  SilentInv'
  <2>1. UNCHANGED <<drainRound, drainer, drainIdle, round, active>>
    BY <1>12 DEF TakeEvent, queues, threads, runtimes
  <2> QED
    BY <1>0, <2>1 DEF SilentInv
<1>13. ASSUME TakeMetrics
      PROVE  SilentInv'
  <2>1. UNCHANGED <<drainRound, drainer, drainIdle, round, active>>
    BY <1>13 DEF TakeMetrics, queues, threads, runtimes
  <2> QED
    BY <1>0, <2>1 DEF SilentInv
<1>14. ASSUME WaitForBatch
      PROVE  SilentInv'
  <2>1. UNCHANGED <<drainRound, drainer, drainIdle, round, active>>
    BY <1>14 DEF WaitForBatch, queues, threads, runtimes
  <2> QED
    BY <1>0, <2>1 DEF SilentInv
<1>15. ASSUME BatchReady
      PROVE  SilentInv'
  <2>1. UNCHANGED <<drainRound, drainer, drainIdle, round, active>>
    BY <1>15 DEF BatchReady, queues, threads, runtimes
  <2> QED
    BY <1>0, <2>1 DEF SilentInv
<1>16. ASSUME Written
      PROVE  SilentInv'
  <2>1. UNCHANGED <<drainRound, drainer, drainIdle, round, active>>
    BY <1>16 DEF Written, queues, threads, runtimes
  <2> QED
    BY <1>0, <2>1 DEF SilentInv
<1>17. ASSUME BroadcasterReturns
      PROVE  SilentInv'
  <2>1. UNCHANGED <<drainRound, drainer, drainIdle, round, active>>
    BY <1>17 DEF BroadcasterReturns, queues, threads, runtimes
  <2> QED
    BY <1>0, <2>1 DEF SilentInv
<1>18. ASSUME DrainerTests
      PROVE  SilentInv'
  <2>1. drainer' \in {"returned", "dozing", "looking"}
    BY <1>18 DEF DrainerTests, DrainerStep, queues, threads, runtimes
  <2> QED
    BY <2>1 DEF SilentInv
<1>19. ASSUME DrainerSleeps
      PROVE  SilentInv'
  <2>1. drainer' = "asleep"
    BY <1>19 DEF DrainerSleeps, DrainerStep, queues, threads, runtimes
  <2> QED
    BY <2>1 DEF SilentInv
<1>20. ASSUME LookAtRuntimes
      PROVE  SilentInv'
  <2>1. drainer' = "counting" /\ drainIdle' = (active = {}) /\ UNCHANGED active
    BY <1>20 DEF LookAtRuntimes, DrainerStep, queues, threads, runtimes
  <2> QED
    BY <2>1 DEF SilentInv
<1>21. ASSUME LookAtQueues
      PROVE  SilentInv'
  <2>1. /\ UNCHANGED <<drainRound, drainIdle, round, active>> /\ drainer = "counting"
        /\ drainer' = "top" \/ (drainer' = "deciding" /\ drainIdle)
    BY <1>21 DEF LookAtQueues, DrainerStep, queues, threads, runtimes
  <2> QED
    BY <1>0, <2>1 DEF SilentInv
<1>22. ASSUME DrainDecided
      PROVE  SilentInv'
  <2>1. UNCHANGED <<drainRound, drainIdle, round, active>> /\ drainer = "deciding"
    BY <1>22 DEF DrainDecided, DrainerStep, queues, threads, runtimes
  <2> QED
    BY <1>0, <2>1 DEF SilentInv
<1>23. ASSUME SendDrainAcknowledgement
      PROVE  SilentInv'
  <2>1. drainer' = "top"
    BY <1>23 DEF SendDrainAcknowledgement, DrainerStep, queues, threads, runtimes
  <2> QED
    BY <2>1 DEF SilentInv
<1>24. ASSUME NotifyDrainer
      PROVE  SilentInv'
  <2>1. /\ UNCHANGED <<drainRound, drainIdle, round, active>>
        /\ drainer' = drainer \/ drainer' = "top"
    BY <1>24 DEF NotifyDrainer, queues, threads, runtimes
  <2> QED
    BY <1>0, <2>1 DEF SilentInv
<1>25. ASSUME ClearQueues
      PROVE  SilentInv'
  <2>1. UNCHANGED <<drainRound, drainer, drainIdle, round, active>>
    BY <1>25 DEF ClearQueues, queues, threads, runtimes
  <2> QED
    BY <1>0, <2>1 DEF SilentInv
<1>26. ASSUME JoinThreads
      PROVE  SilentInv'
  <2>1. UNCHANGED <<drainRound, drainer, drainIdle, round, active>>
    BY <1>26 DEF JoinThreads, queues, threads, runtimes
  <2> QED
    BY <1>0, <2>1 DEF SilentInv
<1>27. CASE UNCHANGED vars
  <2>1. UNCHANGED <<drainRound, drainer, drainIdle, round, active>>
    BY <1>27 DEF vars, queues, threads, runtimes
  <2> QED
    BY <1>0, <2>1 DEF SilentInv
<1> QED
  BY <1>1, <1>2, <1>3, <1>4, <1>5, <1>6, <1>7, <1>8, <1>9, <1>10, <1>11, <1>12, <1>13,
     <1>14, <1>15, <1>16, <1>17, <1>18, <1>19, <1>20, <1>21, <1>22, <1>23, <1>24, <1>25,
     <1>26, <1>27
  DEF Next, Broadcaster, Drainer, Stopper, Report, Environment

(* Every step keeps WrittenInv.                                            *)
LEMMA WrittenKept ==
    ASSUME DrainInv, Next
    PROVE  WrittenInv'
<1>0. DrainTypes /\ HandInv /\ PursuedInv /\ SilentInv /\ WrittenInv
  BY DEF DrainInv
<1>00. /\ round <= round' /\ round' \in Nat
       /\ IF round' = round THEN Outstanding' \subseteq Outstanding
                           ELSE Outstanding' \subseteq Outstanding \cup {round'}
  BY OutstandingStep
<1>000. Alive
  BY DEF Next
<1>1. ASSUME NEW kind \in {"packet", "failure"}, EnqueueMonitorObservation(kind)
      PROVE  WrittenInv'
  <2>1. UNCHANGED <<drainRound, drainer>>
    BY <1>1 DEF EnqueueMonitorObservation, queues, threads, runtimes
  <2> QED
    BY <1>0, <1>00, <2>1 DEF WrittenInv, DrainTypes
<1>2. ASSUME EmitVerification
      PROVE  WrittenInv'
  <2>1. UNCHANGED <<drainRound, drainer>>
    BY <1>2 DEF EmitVerification, queues, threads, runtimes
  <2> QED
    BY <1>0, <1>00, <2>1 DEF WrittenInv, DrainTypes
<1>3. ASSUME EnqueueControl
      PROVE  WrittenInv'
  <2>1. UNCHANGED <<drainRound, drainer>>
    BY <1>3 DEF EnqueueControl, queues, threads, runtimes
  <2> QED
    BY <1>0, <1>00, <2>1 DEF WrittenInv, DrainTypes
<1>4. ASSUME BeginRound
      PROVE  WrittenInv'
  <2>1. UNCHANGED <<drainRound, drainer>>
    BY <1>4 DEF BeginRound, queues, threads, runtimes
  <2> QED
    BY <1>0, <1>00, <2>1 DEF WrittenInv, DrainTypes
<1>5. ASSUME StopBegins
      PROVE  WrittenInv'
  <2>1. UNCHANGED <<drainRound, drainer>>
    BY <1>5 DEF StopBegins, queues, threads, runtimes
  <2> QED
    BY <1>0, <1>00, <2>1 DEF WrittenInv, DrainTypes
<1>6. ASSUME NEW side \in Roles, EndRound(side)
      PROVE  WrittenInv'
  <2>1. UNCHANGED <<drainRound, drainer>>
    BY <1>6 DEF EndRound, queues, threads, runtimes
  <2> QED
    BY <1>0, <1>00, <2>1 DEF WrittenInv, DrainTypes
<1>7. ASSUME NEW side \in Roles, EmitSummary(side)
      PROVE  WrittenInv'
  <2>1. UNCHANGED <<drainRound, drainer>>
    BY <1>7 DEF EmitSummary, queues, threads, runtimes
  <2> QED
    BY <1>0, <1>00, <2>1 DEF WrittenInv, DrainTypes
<1>8. ASSUME NEW side \in Roles, BroadcastControlMessage(side)
      PROVE  WrittenInv'
  <2>1. UNCHANGED <<drainRound, drainer>>
    BY <1>8 DEF BroadcastControlMessage, queues, threads, runtimes
  <2> QED
    BY <1>0, <1>00, <2>1 DEF WrittenInv, DrainTypes
<1>9. ASSUME NEW side \in Roles, RequestRoundDrainAcknowledgement(side)
      PROVE  WrittenInv'
  <2>1. UNCHANGED drainRound /\ (drainer' = drainer \/ drainer' = "top")
    BY <1>9 DEF RequestRoundDrainAcknowledgement, queues, threads, runtimes
  <2> QED
    BY <1>0, <1>00, <2>1 DEF WrittenInv, DrainTypes
<1>10. ASSUME NEW side \in Roles, LeaveRound(side)
      PROVE  WrittenInv'
  <2>1. UNCHANGED <<drainRound, drainer>>
    BY <1>10 DEF LeaveRound, queues, threads, runtimes
  <2> QED
    BY <1>0, <1>00, <2>1 DEF WrittenInv, DrainTypes
<1>11. ASSUME TakeControl
      PROVE  WrittenInv'
  <2>1. UNCHANGED <<drainRound, drainer>>
    BY <1>11 DEF TakeControl, queues, threads, runtimes
  <2> QED
    BY <1>0, <1>00, <2>1 DEF WrittenInv, DrainTypes
<1>12. ASSUME TakeEvent
      PROVE  WrittenInv'
  <2>1. UNCHANGED <<drainRound, drainer>>
    BY <1>12 DEF TakeEvent, queues, threads, runtimes
  <2> QED
    BY <1>0, <1>00, <2>1 DEF WrittenInv, DrainTypes
<1>13. ASSUME TakeMetrics
      PROVE  WrittenInv'
  <2>1. UNCHANGED <<drainRound, drainer>>
    BY <1>13 DEF TakeMetrics, queues, threads, runtimes
  <2> QED
    BY <1>0, <1>00, <2>1 DEF WrittenInv, DrainTypes
<1>14. ASSUME WaitForBatch
      PROVE  WrittenInv'
  <2>1. UNCHANGED <<drainRound, drainer>>
    BY <1>14 DEF WaitForBatch, queues, threads, runtimes
  <2> QED
    BY <1>0, <1>00, <2>1 DEF WrittenInv, DrainTypes
<1>15. ASSUME BatchReady
      PROVE  WrittenInv'
  <2>1. UNCHANGED <<drainRound, drainer>>
    BY <1>15 DEF BatchReady, queues, threads, runtimes
  <2> QED
    BY <1>0, <1>00, <2>1 DEF WrittenInv, DrainTypes
<1>16. ASSUME Written
      PROVE  WrittenInv'
  <2>1. UNCHANGED <<drainRound, drainer>>
    BY <1>16 DEF Written, queues, threads, runtimes
  <2> QED
    BY <1>0, <1>00, <2>1 DEF WrittenInv, DrainTypes
<1>17. ASSUME BroadcasterReturns
      PROVE  WrittenInv'
  <2>1. UNCHANGED <<drainRound, drainer>>
    BY <1>17 DEF BroadcasterReturns, queues, threads, runtimes
  <2> QED
    BY <1>0, <1>00, <2>1 DEF WrittenInv, DrainTypes
<1>18. ASSUME DrainerTests
      PROVE  WrittenInv'
  <2>1. drainer' \in {"returned", "dozing", "looking"}
    BY <1>18 DEF DrainerTests, DrainerStep, queues, threads, runtimes
  <2> QED
    BY <2>1 DEF WrittenInv
<1>19. ASSUME DrainerSleeps
      PROVE  WrittenInv'
  <2>1. drainer' = "asleep"
    BY <1>19 DEF DrainerSleeps, DrainerStep, queues, threads, runtimes
  <2> QED
    BY <2>1 DEF WrittenInv
<1>20. ASSUME LookAtRuntimes
      PROVE  WrittenInv'
  <2>1. drainer' = "counting"
    BY <1>20 DEF LookAtRuntimes, DrainerStep, queues, threads, runtimes
  <2> QED
    BY <2>1 DEF WrittenInv
<1>21. ASSUME LookAtQueues
      PROVE  WrittenInv'
  <2>1. UNCHANGED <<drainRound, round>> /\ drainer = "counting"
    BY <1>21 DEF LookAtQueues, DrainerStep, queues, threads, runtimes
  <2>2. CASE drainer' = "deciding"
    <3>1. drainIdle /\ NoTelemetry /\ ~writeBusy
      BY <1>21, <2>2 DEF LookAtQueues, DrainerStep, queues, threads, runtimes,
         TelemetryDrained
    <3>2. inHand = Nothing
      BY <1>0, <1>000, <3>1 DEF HandInv, DrainTypes, Alive
    <3>3. RoundsIn(events) = {} /\ ValuesIn(metrics) = {} /\ inHand.rounds = {}
      BY <3>1, <3>2 DEF NoTelemetry, RoundsIn, ValuesIn, Nothing
    <3>4. drainRound < round \/ ~Producing
      BY <1>0, <2>1, <3>1 DEF SilentInv, PursuedInv, Over, Producing, DrainTypes
    <3>5. drainRound \notin Outstanding
      BY <1>0, <3>3, <3>4, OutstandingParts DEF DrainTypes
    <3> QED
      BY <1>0, <1>00, <2>1, <3>5 DEF WrittenInv, DrainTypes
  <2>3. CASE drainer' = "top"
    BY <2>3 DEF WrittenInv
  <2> QED
    BY <1>21, <2>2, <2>3 DEF LookAtQueues, DrainerStep, queues, threads, runtimes
<1>22. ASSUME DrainDecided
      PROVE  WrittenInv'
  <2>1. UNCHANGED <<drainRound, round>> /\ drainer = "deciding"
    BY <1>22 DEF DrainDecided, DrainerStep, queues, threads, runtimes
  <2> QED
    BY <1>0, <1>00, <2>1 DEF WrittenInv, DrainTypes
<1>23. ASSUME SendDrainAcknowledgement
      PROVE  WrittenInv'
  <2>1. drainer' = "top"
    BY <1>23 DEF SendDrainAcknowledgement, DrainerStep, queues, threads, runtimes
  <2> QED
    BY <2>1 DEF WrittenInv
<1>24. ASSUME NotifyDrainer
      PROVE  WrittenInv'
  <2>1. UNCHANGED drainRound /\ (drainer' = drainer \/ drainer' = "top")
    BY <1>24 DEF NotifyDrainer, queues, threads, runtimes
  <2> QED
    BY <1>0, <1>00, <2>1 DEF WrittenInv, DrainTypes
<1>25. ASSUME ClearQueues
      PROVE  WrittenInv'
  <2>1. UNCHANGED <<drainRound, drainer>>
    BY <1>25 DEF ClearQueues, queues, threads, runtimes
  <2> QED
    BY <1>0, <1>00, <2>1 DEF WrittenInv, DrainTypes
<1>26. ASSUME JoinThreads
      PROVE  WrittenInv'
  <2>1. UNCHANGED <<drainRound, drainer>>
    BY <1>26 DEF JoinThreads, queues, threads, runtimes
  <2> QED
    BY <1>0, <1>00, <2>1 DEF WrittenInv, DrainTypes
<1> QED
  BY <1>1, <1>2, <1>3, <1>4, <1>5, <1>6, <1>7, <1>8, <1>9, <1>10, <1>11, <1>12, <1>13,
     <1>14, <1>15, <1>16, <1>17, <1>18, <1>19, <1>20, <1>21, <1>22, <1>23, <1>24, <1>25,
     <1>26
  DEF Next, Broadcaster, Drainer, Stopper, Report, Environment

(* Every step keeps the invariant.                                         *)
LEMMA DrainInvKept ==
    ASSUME NEW the, Roles = {the}, DrainInv, [Next]_vars
    PROVE  DrainInv'
<1>1. CASE Next
  BY <1>1, DrainTypesKept, HandKept, PursuedKept, SilentKept, WrittenKept DEF DrainInv
<1>2. CASE UNCHANGED vars
  <2>1. WrittenInv'
    BY <1>2 DEF DrainInv, WrittenInv, Outstanding, vars, queues, threads, runtimes
  <2> QED
    BY <1>2, <2>1, DrainTypesKept, HandKept, PursuedKept, SilentKept DEF DrainInv
<1> QED
  BY <1>1, <1>2

(* It holds at first.                                                      *)
LEMMA DrainInvAtFirst ==
    ASSUME Init
    PROVE  DrainInv
<1>1. DrainTypes
  BY DEF Init, DrainTypes
<1> QED
  BY <1>1 DEF Init, DrainInv, HandInv, PursuedInv, SilentInv, WrittenInv

(* A round is acknowledged only when nothing of it is outstanding.         *)
LEMMA AcknowledgedWritten ==
    ASSUME DrainInv, [Next]_vars
    PROVE  \A r \in acked' \ acked : r \notin Outstanding
<1>0. WrittenInv
  BY DEF DrainInv
<1>1. ASSUME NEW kind \in {"packet", "failure"}, EnqueueMonitorObservation(kind)
      PROVE  \A r \in acked' \ acked : r \notin Outstanding
  BY <1>1 DEF EnqueueMonitorObservation, queues, threads, runtimes
<1>2. ASSUME EmitVerification
      PROVE  \A r \in acked' \ acked : r \notin Outstanding
  BY <1>2 DEF EmitVerification, queues, threads, runtimes
<1>3. ASSUME EnqueueControl
      PROVE  \A r \in acked' \ acked : r \notin Outstanding
  BY <1>3 DEF EnqueueControl, queues, threads, runtimes
<1>4. ASSUME BeginRound
      PROVE  \A r \in acked' \ acked : r \notin Outstanding
  BY <1>4 DEF BeginRound, queues, threads, runtimes
<1>5. ASSUME StopBegins
      PROVE  \A r \in acked' \ acked : r \notin Outstanding
  BY <1>5 DEF StopBegins, queues, threads, runtimes
<1>6. ASSUME NEW side \in Roles, EndRound(side)
      PROVE  \A r \in acked' \ acked : r \notin Outstanding
  BY <1>6 DEF EndRound, queues, threads, runtimes
<1>7. ASSUME NEW side \in Roles, EmitSummary(side)
      PROVE  \A r \in acked' \ acked : r \notin Outstanding
  BY <1>7 DEF EmitSummary, queues, threads, runtimes
<1>8. ASSUME NEW side \in Roles, BroadcastControlMessage(side)
      PROVE  \A r \in acked' \ acked : r \notin Outstanding
  BY <1>8 DEF BroadcastControlMessage, queues, threads, runtimes
<1>9. ASSUME NEW side \in Roles, RequestRoundDrainAcknowledgement(side)
      PROVE  \A r \in acked' \ acked : r \notin Outstanding
  BY <1>9 DEF RequestRoundDrainAcknowledgement, queues, threads, runtimes
<1>10. ASSUME NEW side \in Roles, LeaveRound(side)
      PROVE  \A r \in acked' \ acked : r \notin Outstanding
  BY <1>10 DEF LeaveRound, queues, threads, runtimes
<1>11. ASSUME TakeControl
      PROVE  \A r \in acked' \ acked : r \notin Outstanding
  BY <1>11 DEF TakeControl, queues, threads, runtimes
<1>12. ASSUME TakeEvent
      PROVE  \A r \in acked' \ acked : r \notin Outstanding
  BY <1>12 DEF TakeEvent, queues, threads, runtimes
<1>13. ASSUME TakeMetrics
      PROVE  \A r \in acked' \ acked : r \notin Outstanding
  BY <1>13 DEF TakeMetrics, queues, threads, runtimes
<1>14. ASSUME WaitForBatch
      PROVE  \A r \in acked' \ acked : r \notin Outstanding
  BY <1>14 DEF WaitForBatch, queues, threads, runtimes
<1>15. ASSUME BatchReady
      PROVE  \A r \in acked' \ acked : r \notin Outstanding
  BY <1>15 DEF BatchReady, queues, threads, runtimes
<1>16. ASSUME Written
      PROVE  \A r \in acked' \ acked : r \notin Outstanding
  BY <1>16 DEF Written, queues, threads, runtimes
<1>17. ASSUME BroadcasterReturns
      PROVE  \A r \in acked' \ acked : r \notin Outstanding
  BY <1>17 DEF BroadcasterReturns, queues, threads, runtimes
<1>18. ASSUME DrainerTests
      PROVE  \A r \in acked' \ acked : r \notin Outstanding
  BY <1>18 DEF DrainerTests, DrainerStep, queues, threads, runtimes
<1>19. ASSUME DrainerSleeps
      PROVE  \A r \in acked' \ acked : r \notin Outstanding
  BY <1>19 DEF DrainerSleeps, DrainerStep, queues, threads, runtimes
<1>20. ASSUME LookAtRuntimes
      PROVE  \A r \in acked' \ acked : r \notin Outstanding
  BY <1>20 DEF LookAtRuntimes, DrainerStep, queues, threads, runtimes
<1>21. ASSUME LookAtQueues
      PROVE  \A r \in acked' \ acked : r \notin Outstanding
  BY <1>21 DEF LookAtQueues, DrainerStep, queues, threads, runtimes
<1>22. ASSUME DrainDecided
      PROVE  \A r \in acked' \ acked : r \notin Outstanding
  BY <1>22 DEF DrainDecided, DrainerStep, queues, threads, runtimes
<1>23. ASSUME SendDrainAcknowledgement
      PROVE  \A r \in acked' \ acked : r \notin Outstanding
  BY <1>0, <1>23 DEF WrittenInv, SendDrainAcknowledgement, DrainerStep, queues, threads,
     runtimes
<1>24. ASSUME NotifyDrainer
      PROVE  \A r \in acked' \ acked : r \notin Outstanding
  BY <1>24 DEF NotifyDrainer, queues, threads, runtimes
<1>25. ASSUME ClearQueues
      PROVE  \A r \in acked' \ acked : r \notin Outstanding
  BY <1>25 DEF ClearQueues, queues, threads, runtimes
<1>26. ASSUME JoinThreads
      PROVE  \A r \in acked' \ acked : r \notin Outstanding
  BY <1>26 DEF JoinThreads, queues, threads, runtimes
<1>27. CASE UNCHANGED vars
  BY <1>27 DEF vars, queues, threads, runtimes
<1> QED
  BY <1>1, <1>2, <1>3, <1>4, <1>5, <1>6, <1>7, <1>8, <1>9, <1>10, <1>11, <1>12, <1>13,
     <1>14, <1>15, <1>16, <1>17, <1>18, <1>19, <1>20, <1>21, <1>22, <1>23, <1>24, <1>25,
     <1>26, <1>27
  DEF Next, Broadcaster, Drainer, Stopper, Report, Environment

(* On a node with one role, telemetry that is acknowledged as drained is   *)
(* written, for every size of the queues and any number of rounds          *)
(* (roundDrainLoop).                                                       *)
THEOREM TelemetryWrittenFirst ==
    ASSUME NEW CONSTANT the, Roles = {the}
    PROVE  Spec => [][\A r \in acked' \ acked : r \notin Outstanding]_vars
<1>1. DrainInv /\ [Next]_vars => DrainInv'
  BY DrainInvKept
<1>2. DrainInv /\ [Next]_vars => [\A r \in acked' \ acked : r \notin Outstanding]_vars
  BY AcknowledgedWritten
<1> QED
  BY DrainInvAtFirst, <1>1, <1>2, PTL DEF Spec

(* The same of the run, in the half it calls telemetry.                    *)
THEOREM DrainIsWritten ==
    ASSUME NEW CONSTANT the, Roles = {the}
    PROVE  MCSpec => DrainWritten
<1> DEFINE Looked == half # "connections" => DrainInv
<1>1. MCInit => Looked
  BY DrainInvAtFirst DEF MCInit
<1>2. ASSUME half # "connections", [MCNext]_allVars
      PROVE  [Next]_vars /\ UNCHANGED half
  <2>1. CASE MCNext
    BY <1>2, <2>1 DEF MCNext, ConnectionsNext, TelemetryNext
  <2>2. CASE UNCHANGED allVars
    BY <2>2 DEF allVars
  <2> QED
    BY <1>2, <2>1, <2>2
<1>3. Looked /\ [MCNext]_allVars => Looked'
  <2>1. CASE half = "connections"
    BY <2>1 DEF MCNext, allVars
  <2>2. CASE half # "connections"
    BY <1>2, <2>2, DrainInvKept
  <2> QED
    BY <2>1, <2>2
<1>4. Looked /\ [MCNext]_allVars =>
          [half = "connections" \/ \A r \in acked' \ acked : r \notin Outstanding]_allVars
  BY <1>2, AcknowledgedWritten
<1> QED
  BY <1>1, <1>3, <1>4, PTL DEF MCSpec, DrainWritten
=====
