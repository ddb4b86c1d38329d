------------------------------ MODULE PcSendPath ------------------------------
(***************************************************************************)
(* How the PC node sends a round (gui/pc_node/PcNodeNetworkController).    *)
(* The Sender's worker thread may not touch the Qt socket: it puts each    *)
(* datagram into a bounded queue under a mutex and posts one drain call to *)
(* the main thread, which writes the queue in batches.  The result of the  *)
(* round reaches the main thread as a posted call as well, and is told to  *)
(* the clients only once the queue has been written.                       *)
(*                                                                         *)
(* The main thread runs one call at a time; calls posted to it are run in  *)
(* the order they were posted, between what it reads from its sockets.     *)
(***************************************************************************)
EXTENDS Naturals, Sequences, FiniteSets

CONSTANTS
    Packets,    \* datagrams of one round
    QueueLimit, \* MAX_AUTHENTICATION_SEND_QUEUE_SIZE
    BatchLimit, \* MAX_AUTHENTICATION_SEND_BATCH_SIZE
    MaxRounds,  \* bound on rounds
    MaxCloses   \* bound on stopping the node

LimitsAssumption ==
    /\ Packets \in Nat /\ QueueLimit \in Nat \ {0} /\ BatchLimit \in Nat \ {0}
    /\ MaxRounds \in Nat

VARIABLES
    running,    \* m_bRunning
    queue,      \* m_deqAuthenticationSendQueue: <<round, packet>>
    scheduled,  \* m_bAuthenticationSendDrainScheduled
    fault,      \* m_bAuthenticationSendFault
    posted,     \* calls posted to the main thread
    main,       \* what the main thread is doing: [at, batch, more]
    worker,     \* the Sender's worker: [at, round, sent, failed]
    client,     \* a client is connected
    written,    \* datagrams the socket took
    told,       \* told[r]: status of round r told to a client
    closes,
    wiped       \* history: rounds whose end was open when a RoundStart forgot a fault

vars == <<running, queue, scheduled, fault, posted, main, worker, client, written, told, closes, wiped>>

Rounds == 1 .. MaxRounds
Idle == [at |-> "idle", batch |-> <<>>, more |-> FALSE]
DrainCall == [call |-> "drain", round |-> 0, status |-> "none"]
ResultCall(r, s) == [call |-> "result", round |-> r, status |-> s]

Init ==
    /\ running = FALSE /\ queue = <<>> /\ scheduled = FALSE /\ fault = FALSE
    /\ posted = <<>> /\ main = Idle
    /\ worker = [at |-> "idle", round |-> 0, sent |-> 0, failed |-> FALSE]
    /\ client = FALSE /\ written = {} /\ told = [r \in Rounds |-> "none"]
    /\ closes = 0 /\ wiped = {}

-----------------------------------------------------------------------------
\* A closed node is opened, and found by a client, long after its last call has run.
Free == main.at = "idle" /\ posted = <<>>

\* bStart, once its sockets are bound and the server listens.
Open ==
    /\ Free /\ ~running
    /\ running' = TRUE /\ fault' = FALSE
    /\ UNCHANGED <<queue, scheduled, posted, main, worker, client, written, told, closes, wiped>>

ClientConnects ==
    /\ Free /\ running /\ ~client
    /\ client' = TRUE
    /\ UNCHANGED <<running, queue, scheduled, fault, posted, main, worker, written, told, closes, wiped>>

\* Rounds that are being sent or whose result is still posted.
Unfinished ==
    (IF worker.at = "idle" THEN {} ELSE {worker.round})
        \cup {posted[i].round : i \in DOMAIN posted}

\* RoundStop joins the worker, whose result is then already posted.
Halted(status) ==
    IF worker.at = "idle" THEN UNCHANGED <<posted, worker>>
    ELSE /\ posted' = Append(posted, ResultCall(worker.round, status))
         /\ worker' = [worker EXCEPT !.at = "idle"]

(***************************************************************************)
(* Every RoundStart forgets a fault when the queue is empty, before the    *)
(* runtime is asked.  The runtime refuses it at once and a round that runs *)
(* goes on; or it stops what runs and refuses; or it stops the worker      *)
(* without a result and begins the next round.                             *)
(***************************************************************************)
Joinable == worker.at \in {"sending", "idle"}

RoundStart ==
    /\ main.at = "idle" /\ client
    /\ fault' = (fault /\ queue # <<>>)
    /\ wiped' = wiped \cup (IF fault /\ queue = <<>> THEN Unfinished ELSE {})
    /\ \/ UNCHANGED <<posted, worker>>
       \/ Joinable /\ Halted(IF worker.failed THEN "Failed" ELSE "Stopped")
       \/ /\ Joinable /\ worker.round < MaxRounds
          /\ worker' = [at |-> "sending", round |-> worker.round + 1, sent |-> 0,
                        failed |-> FALSE]
          /\ UNCHANGED posted
    /\ UNCHANGED <<running, queue, scheduled, main, client, written, told, closes>>

RoundStop ==
    /\ main.at = "idle" /\ client /\ Joinable
    /\ Halted(IF worker.failed THEN "Failed" ELSE "Stopped")
    /\ UNCHANGED <<running, queue, scheduled, fault, main, client, written, told, closes, wiped>>

\* stop(): the queue is emptied first, the runtime is stopped last.
CloseQueue ==
    /\ main.at = "idle" /\ running /\ closes < MaxCloses
    /\ running' = FALSE
    /\ queue' = <<>> /\ scheduled' = FALSE /\ fault' = FALSE
    /\ client' = FALSE
    /\ main' = [Idle EXCEPT !.at = "closing"]
    /\ closes' = closes + 1
    /\ UNCHANGED <<posted, worker, written, told, wiped>>

CloseRuntime ==
    /\ main.at = "closing" /\ Joinable
    /\ Halted(IF worker.failed THEN "Failed" ELSE "Stopped")
    /\ main' = Idle
    /\ UNCHANGED <<running, queue, scheduled, fault, client, written, told, closes, wiped>>

-----------------------------------------------------------------------------
(***************************************************************************)
(* bQueueAuthenticationDatagram, called by the worker.  A refused datagram *)
(* fails the round; the drain is posted after the mutex is released.       *)
(***************************************************************************)
Refused == ~running \/ fault \/ Len(queue) >= QueueLimit

WorkerRefused ==
    /\ worker.at = "sending" /\ worker.sent < Packets /\ ~worker.failed
    /\ Refused
    /\ fault' = (fault \/ Len(queue) >= QueueLimit)
    /\ worker' = [worker EXCEPT !.failed = TRUE]
    /\ UNCHANGED <<running, queue, scheduled, posted, main, client, written, told, closes, wiped>>

WorkerQueues ==
    /\ worker.at = "sending" /\ worker.sent < Packets /\ ~worker.failed
    /\ ~Refused
    /\ queue' = Append(queue, <<worker.round, worker.sent + 1>>)
    /\ worker' = [worker EXCEPT !.sent = @ + 1, !.at = IF scheduled THEN @ ELSE "posting"]
    /\ scheduled' = TRUE
    /\ UNCHANGED <<running, fault, posted, main, client, written, told, closes, wiped>>

WorkerPostsDrain ==
    /\ worker.at = "posting"
    /\ posted' = Append(posted, DrainCall)
    /\ worker' = [worker EXCEPT !.at = "sending"]
    /\ UNCHANGED <<running, queue, scheduled, fault, main, client, written, told, closes, wiped>>

\* The round ends: its result is posted to the main thread.
WorkerEnds ==
    /\ worker.at = "sending" /\ (worker.failed \/ worker.sent = Packets)
    /\ posted' = Append(posted, ResultCall(worker.round,
                                           IF worker.failed THEN "Failed" ELSE "Completed"))
    /\ worker' = [worker EXCEPT !.at = "idle"]
    /\ UNCHANGED <<running, queue, scheduled, fault, main, client, written, told, closes, wiped>>

-----------------------------------------------------------------------------
Least(a, b) == IF a <= b THEN a ELSE b

\* Defect: the drain that empties the queue keeps the flag of a posted drain.
DrainTakesKeepingFlag ==
    /\ main.at = "idle" /\ posted # <<>> /\ Head(posted) = DrainCall
    /\ LET size == Least(BatchLimit, Len(queue))
           rest == SubSeq(queue, size + 1, Len(queue))
       IN /\ main' = [at |-> "writing", batch |-> SubSeq(queue, 1, size), more |-> rest # <<>>]
          /\ queue' = rest
    /\ posted' = Tail(posted)
    /\ UNCHANGED <<running, scheduled, fault, worker, client, written, told, closes, wiped>>

\* drainAuthenticationSendQueue: a batch is taken under the mutex ...
DrainTakes ==
    /\ main.at = "idle" /\ posted # <<>> /\ Head(posted) = DrainCall
    /\ LET size == Least(BatchLimit, Len(queue))
           rest == SubSeq(queue, size + 1, Len(queue))
       IN /\ main' = [at |-> "writing", batch |-> SubSeq(queue, 1, size), more |-> rest # <<>>]
          /\ queue' = rest
          /\ scheduled' = (scheduled /\ rest # <<>>)
    /\ posted' = Tail(posted)
    /\ UNCHANGED <<running, fault, worker, client, written, told, closes, wiped>>

\* ... and written to the socket without it.
DrainWrites ==
    /\ main.at = "writing"
    /\ written' = written \cup {main.batch[i] : i \in DOMAIN main.batch}
    /\ posted' = IF main.more THEN Append(posted, DrainCall) ELSE posted
    /\ main' = Idle
    /\ UNCHANGED <<running, queue, scheduled, fault, worker, client, told, closes, wiped>>

DrainWriteFails ==
    /\ main.at = "writing" /\ main.batch # <<>>
    /\ \E k \in DOMAIN main.batch : written' = written \cup {main.batch[i] : i \in 1 .. k - 1}
    /\ fault' = TRUE /\ queue' = <<>> /\ scheduled' = FALSE
    /\ main' = Idle
    /\ UNCHANGED <<running, posted, worker, client, told, closes, wiped>>

(***************************************************************************)
(* processAuthenticationRuntimeEvent: a completed Sender result waits      *)
(* behind the queue and is turned into an overrun by a fault of the queue. *)
(***************************************************************************)
Awaited(status) == status = "Completed" /\ (scheduled \/ queue # <<>>)

Verdict(status) == IF status = "Completed" /\ fault THEN "Failed" ELSE status

ResultWaits ==
    /\ main.at = "idle" /\ posted # <<>> /\ Head(posted).call = "result"
    /\ Awaited(Head(posted).status)
    /\ posted' = Append(Tail(posted), Head(posted))
    /\ UNCHANGED <<running, queue, scheduled, fault, main, worker, client, written, told, closes, wiped>>

ResultTold ==
    /\ main.at = "idle" /\ posted # <<>> /\ Head(posted).call = "result"
    /\ ~Awaited(Head(posted).status)
    /\ told' = IF client THEN [told EXCEPT ![Head(posted).round] = Verdict(Head(posted).status)]
               ELSE told
    /\ posted' = Tail(posted)
    /\ UNCHANGED <<running, queue, scheduled, fault, main, worker, client, written, closes, wiped>>

MainNext ==
    \/ Open \/ ClientConnects \/ RoundStart \/ RoundStop \/ CloseQueue \/ CloseRuntime
    \/ DrainTakes \/ DrainWrites \/ DrainWriteFails \/ ResultWaits \/ ResultTold

WorkerNext == WorkerRefused \/ WorkerQueues \/ WorkerPostsDrain \/ WorkerEnds

Next == MainNext \/ WorkerNext

Spec == Init /\ [][Next]_vars

\* Both threads run; opening, starting and stopping is up to people.
MainProceeds ==
    CloseRuntime \/ DrainTakes \/ DrainWrites \/ DrainWriteFails \/ ResultWaits \/ ResultTold

Fairness == WF_vars(WorkerNext) /\ WF_vars(MainProceeds)

FairSpec == Spec /\ Fairness

-----------------------------------------------------------------------------
TypeOK ==
    /\ running \in BOOLEAN /\ scheduled \in BOOLEAN /\ fault \in BOOLEAN /\ client \in BOOLEAN
    /\ Len(queue) <= QueueLimit
    /\ \A i \in DOMAIN queue : queue[i] \in Rounds \X (1 .. Packets)
    /\ main.at \in {"idle", "closing", "writing"} /\ Len(main.batch) <= BatchLimit
    /\ worker.at \in {"idle", "sending", "posting"} /\ worker.sent \in 0 .. Packets
    /\ told \in [Rounds -> {"none", "Completed", "Stopped", "Failed"}]

(***************************************************************************)
(* A datagram in the queue is on its way: a drain is posted, is about to   *)
(* be posted, or is being run and will post the next one.  Two threads     *)
(* hand the duty over with the flag m_bAuthenticationSendDrainScheduled.   *)
(***************************************************************************)
DrainIsDue ==
    \/ \E i \in DOMAIN posted : posted[i] = DrainCall
    \/ worker.at = "posting"
    \/ main.at = "writing" /\ main.more

NoDatagramStranded == queue # <<>> => DrainIsDue

(***************************************************************************)
(* A client that hears a round was completed may rely on every datagram of *)
(* the round having been written to the socket: not one is still queued or *)
(* was dropped by a stop of the node, and a socket error is told.  It is   *)
(* not when a RoundStart came between the error and the end of the round:  *)
(* bHandleJson forgets the fault before it asks the runtime.          *)
(***************************************************************************)
CompletedIsWritten ==
    \A r \in Rounds \ wiped :
        told[r] = "Completed" => {r} \X (1 .. Packets) \subseteq written

(***************************************************************************)
(* A result that waits behind the queue is told in the end: waiting posts  *)
(* it again, but never ahead of the drain it waits for.                    *)
(***************************************************************************)
ResultPosted == \E i \in DOMAIN posted : posted[i].call = "result"

NoResultWaitsForEver == ResultPosted ~> ~ResultPosted
=============================================================================
