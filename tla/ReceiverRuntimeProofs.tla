----------------------- MODULE ReceiverRuntimeProofs -----------------------
(***************************************************************************)
(* AuthenticationReceiverRuntime with any number of contexts and any       *)
(* network, for every round size, queue length and number of rounds: type  *)
(* correctness, one result for each round and context that is not lost,    *)
(* and results that are true.                                              *)
(*                                                                         *)
(* The invariant holds what the code keeps in three places at once: the    *)
(* contexts (each of them Sound), the results on their way to the handler, *)
(* in a batch of the worker or of stop, and the results that were handed   *)
(* out. ReportsInv says that these places never hold two results of one    *)
(* round and context, and hold one as soon as the round is over. It needs  *)
(* the batches, since the code gives the context its outcome under the     *)
(* lock and calls the handler after it; and it needs Settles, which says   *)
(* that a context ends its round once.                                     *)
(***************************************************************************)
EXTENDS ReceiverRuntime, AuthenticationRoundProofs, FiniteSetTheorems

(* Every context is sound, and none is active before the first start.      *)
ContextInv ==
    /\ ctx = [c \in Contexts |-> ctx[c]]
    /\ \A c \in Contexts : /\ Sound(ctx[c]) /\ ctx[c].total = PacketTotal[c]
                           /\ ctx[c].active => run # 0

(* What the network may have put into the queue.                           *)
EntryType == [ context : Contexts, copy : Copies, recv : Nat,
               dg : [interval : Nat, packet : Nat, key : Nat] ]

(* The queue holds datagrams of the configured contexts and never more     *)
(* than it may.                                                            *)
QueueInv == queue \in Seq(EntryType) /\ Len(queue) <= MaxQueued

(* Types of the plain members of the runtime.                              *)
MembersInv ==
    /\ now \in Nat /\ run \in 0 .. MaxRuns
    /\ configured \in BOOLEAN /\ running \in BOOLEAN /\ paused \in BOOLEAN
    /\ swapping \in BOOLEAN
    /\ pending \subseteq Contexts /\ pauses \in Nat

(* A result of this round and context is on its way to the handler.        *)
OnItsWay(batch, r, c) == \E b \in batch : b.run = r /\ b.context = c

(* A result says that the round completed only when all its packets came   *)
(* and passed.                                                             *)
Truthful(res, c) ==
    res.status = "Completed" => res.passed = PacketTotal[c] /\ res.received = PacketTotal[c]

(* A batch holds results of rounds that were started, and they are true.   *)
BatchOK(batch) ==
    \A b \in batch : /\ b.run \in 1 .. MaxRuns /\ b.run <= run /\ b.context \in Contexts
                     /\ b.result \in ResultType(b.context)
                     /\ Truthful(b.result, b.context)

(* The batch of the worker and the batch of stop.                          *)
BatchInv == BatchOK(workerBatch) /\ BatchOK(stopBatch)

(* What the handler got has its type and is true.                          *)
ResultsOK(rs) ==
    /\ rs = [r \in 1 .. MaxRuns |-> [c \in Contexts |-> rs[r][c]]]
    /\ \A r \in 1 .. MaxRuns, c \in Contexts :
        /\ rs[r][c] \in Seq(ResultType(c))
        /\ \A n \in 1 .. Len(rs[r][c]) : Truthful(rs[r][c][n], c)

(* One result at most of each round and context, handed out or on its way, *)
(* and none while the round runs or before it.                             *)
SingleInv ==
    \A r \in 1 .. MaxRuns, c \in Contexts :
        /\ Len(results[r][c]) <= 1
        /\ OnItsWay(workerBatch, r, c) =>
              /\ results[r][c] = <<>>
              /\ ~OnItsWay(stopBatch, r, c)
        /\ OnItsWay(stopBatch, r, c) => results[r][c] = <<>>
        /\ r > run \/ (r = run /\ ctx[c].active) =>
              /\ results[r][c] = <<>>
              /\ ~OnItsWay(workerBatch, r, c)
              /\ ~OnItsWay(stopBatch, r, c)

(* The reporting of results as a whole.                                    *)
ReportsInv == BatchInv /\ ResultsOK(results) /\ SingleInv /\ EveryRoundReported

(* The inductive invariant.                                                *)
ReceiverInv == MembersInv /\ ContextInv /\ QueueInv /\ ReportsInv

(* A part of the slots of a round is no larger than the round.             *)
LEMMA CountRange ==
    ASSUME NEW s, s.total \in Nat, NEW T \in SUBSET Slots(s)
    PROVE  Cardinality(T) \in 0 .. s.total
<1> DEFINE n == s.total
<1>0. /\ IsFiniteSet(1 .. n)
      /\ Cardinality(1 .. n) = IF 1 > n THEN 0 ELSE n - 1 + 1
  <2> HIDE DEF n
  <2>1. n \in Int /\ 1 \in Int
    BY DEF n
  <2> QED BY <2>1, FS_Interval
<1>1. IsFiniteSet(Slots(s)) /\ Cardinality(Slots(s)) = s.total
  BY <1>0 DEF Slots
<1>2. IsFiniteSet(T) /\ Cardinality(T) <= Cardinality(Slots(s))
  BY <1>1, FS_Subset
<1>3. Cardinality(T) \in Nat
  BY <1>2, FS_CardinalityType
<1> QED BY <1>1, <1>2, <1>3

(* The result of a sound context has its type and is true.                 *)
LEMMA ResultIsTrue ==
    ASSUME NEW c \in Contexts, NEW s, Sound(s), s.total = PacketTotal[c],
           s.outcome # "none"
    PROVE  ResultOf(s) \in ResultType(c) /\ Truthful(ResultOf(s), c)
<1>1. s.total \in Nat
  BY DEF Sound, Ranges
<1>2. Count(s, "Passed") \in 0 .. s.total /\ Count(s, "Failed") \in 0 .. s.total
      /\ Received(s) \in 0 .. s.total
  BY <1>1, CountRange DEF Count, Received
<1>3. s.outcome \in {"Completed", "AuthenticationFailed", "ProtocolIncomplete",
                "VerificationTimeout", "Stopped"}
  BY DEF Sound, LifeCycle, OutcomeValues
<1>4. ASSUME s.outcome = "Completed"
      PROVE  Count(s, "Passed") = s.total /\ Received(s) = s.total
  <2>1. \A p \in Slots(s) : s.baseline[p].status = "Passed" /\ s.baseline[p].copy # "none"
    BY <1>4 DEF Sound, LifeCycle, Intact, VerdictsBehindKeys
  <2>2. /\ {p \in Slots(s) : /\ s.baseline[p].copy # "none"
                              /\ s.baseline[p].status = "Passed"} = Slots(s)
        /\ {p \in Slots(s) : s.baseline[p].copy # "none"} = Slots(s)
    BY <2>1
  <2>3. Cardinality(Slots(s)) = s.total
    BY <1>1, FS_Interval DEF Slots
  <2> QED BY <2>2, <2>3 DEF Count, Received
<1> QED BY <1>2, <1>3, <1>4 DEF ResultOf, ResultType, Truthful

(* The contexts after a step that settles rounds only as the operations of *)
(* a context do.                                                           *)
Decided(new) ==
    /\ new = [c \in Contexts |-> new[c]]
    /\ \A c \in Contexts : Sound(new[c]) /\ Settles(ctx[c], new[c])

(* The outcomes that such a step reports are those of the rounds it ended, *)
(* one each.                                                               *)
LEMMA OutcomesDecided ==
    ASSUME ReceiverInv, NEW new, Decided(new)
    PROVE  /\ BatchOK(Outcomes(new))
           /\ \A r \in Nat, c \in Contexts :
                 OnItsWay(Outcomes(new), r, c) <=>
                    r = run /\ ctx[c].outcome = "none" /\ new[c].outcome # "none"
           /\ \A c \in Contexts : ctx[c].outcome = "none" /\ new[c].outcome # "none" =>
                                    ctx[c].active /\ ~new[c].active
           /\ \A c \in Contexts : ctx[c].active =>
                    ctx[c].outcome = "none" /\ (new[c].active \/ new[c].outcome # "none")
           /\ \A c \in Contexts : new[c].active => ctx[c].active
<1>1. \A c \in Contexts : new[c].total = PacketTotal[c]
  BY DEF ReceiverInv, ContextInv, Decided, Settles
<1>2. \A c \in Contexts : ctx[c].outcome = "none" /\ new[c].outcome # "none" =>
                             ctx[c].active /\ ~new[c].active
  BY DEF Decided, Settles
<1>3. \A b \in Outcomes(new) :
         \E c \in Contexts : /\ b = [run |-> run, context |-> c, result |-> ResultOf(new[c])]
                              /\ ctx[c].outcome = "none" /\ new[c].outcome # "none"
  BY DEF Outcomes
<1>4. \A c \in Contexts : ctx[c].outcome = "none" /\ new[c].outcome # "none" =>
         [run |-> run, context |-> c, result |-> ResultOf(new[c])] \in Outcomes(new)
  BY DEF Outcomes
<1>5. BatchOK(Outcomes(new))
  <2> SUFFICES ASSUME NEW b \in Outcomes(new)
               PROVE  /\ b.run \in 1 .. MaxRuns /\ b.run <= run
                      /\ b.context \in Contexts
                      /\ b.result \in ResultType(b.context)
                      /\ Truthful(b.result, b.context)
    BY DEF BatchOK
  <2>1. PICK c \in Contexts : /\ b = [run |-> run, context |-> c, result |-> ResultOf(new[c])]
                              /\ ctx[c].outcome = "none" /\ new[c].outcome # "none"
    BY <1>3
  <2>2. run \in 1 .. MaxRuns
    BY <1>2, <2>1, ReceiverAssumption DEF ReceiverInv, ContextInv, MembersInv
  <2>3. ResultOf(new[c]) \in ResultType(c) /\ Truthful(ResultOf(new[c]), c)
    BY <1>1, <2>1, ResultIsTrue DEF Decided
  <2>4. b.run = run /\ b.context = c /\ b.result = ResultOf(new[c])
    BY <2>1
  <2> QED BY <2>2, <2>3, <2>4
<1>6. ASSUME NEW r \in Nat, NEW c \in Contexts
      PROVE  OnItsWay(Outcomes(new), r, c) <=>
                    r = run /\ ctx[c].outcome = "none" /\ new[c].outcome # "none"
  <2>1. ASSUME OnItsWay(Outcomes(new), r, c)
        PROVE  r = run /\ ctx[c].outcome = "none" /\ new[c].outcome # "none"
    <3>1. PICK b \in Outcomes(new) : b.run = r /\ b.context = c
      BY <2>1 DEF OnItsWay
    <3>2. PICK x \in Contexts : /\ b = [run |-> run, context |-> x, result |-> ResultOf(new[x])]
                              /\ ctx[x].outcome = "none" /\ new[x].outcome # "none"
      BY <1>3
    <3>3. x = c /\ r = run
      BY <3>1, <3>2
    <3> QED BY <3>2, <3>3
  <2>2. ASSUME r = run, ctx[c].outcome = "none", new[c].outcome # "none"
        PROVE  OnItsWay(Outcomes(new), r, c)
    <3> DEFINE b == [run |-> run, context |-> c, result |-> ResultOf(new[c])]
    <3>1. b \in Outcomes(new)
      BY <1>4, <2>2
    <3>2. b.run = r /\ b.context = c
      BY <2>2
    <3> QED BY <3>1, <3>2 DEF OnItsWay
  <2> QED BY <2>1, <2>2
<1>7. \A c \in Contexts : ctx[c].active =>
         ctx[c].outcome = "none" /\ (new[c].active \/ new[c].outcome # "none")
  BY DEF ReceiverInv, ContextInv, Sound, LifeCycle, Decided, Settles
<1>8. \A c \in Contexts : new[c].active => ctx[c].active
  BY DEF ReceiverInv, ContextInv, Sound, LifeCycle, Decided, Settles
<1> QED BY <1>2, <1>5, <1>6, <1>7, <1>8

(* Steps that neither start nor decide anything leave the reports alone.   *)
LEMMA QuietStep ==
    ASSUME ReceiverInv, run' = run, workerBatch' = workerBatch,
           stopBatch' = stopBatch,
           results' = results, silenced' = silenced,
           \A c \in Contexts : ctx'[c].active = ctx[c].active
    PROVE  BatchInv' /\ ResultsOK(results)' /\ SingleInv' /\ EveryRoundReported'
<1>1. BatchInv'
  BY DEF ReceiverInv, ReportsInv, BatchInv, BatchOK
<1>2. ResultsOK(results)'
  BY DEF ReceiverInv, ReportsInv, ResultsOK
<1>3. SingleInv'
  BY DEF ReceiverInv, ReportsInv, SingleInv, OnItsWay
<1>4. EveryRoundReported'
  BY DEF ReceiverInv, ReportsInv, EveryRoundReported
<1> QED BY <1>1, <1>2, <1>3, <1>4

(* Handing out a batch adds each of its results once.                      *)
LEMMA EmittedResults ==
    ASSUME ReceiverInv, NEW batch, BatchOK(batch),
           \A r \in 1 .. MaxRuns, c \in Contexts : OnItsWay(batch, r, c) => results[r][c] = <<>>
    PROVE  /\ ResultsOK(Emitted(batch))
           /\ \A r \in 1 .. MaxRuns, c \in Contexts :
                 IF OnItsWay(batch, r, c) THEN Len(Emitted(batch)[r][c]) = 1
                                          ELSE Emitted(batch)[r][c] = results[r][c]
<1> DEFINE Own(r, c) == {b.result : b \in {x \in batch : x.run = r /\ x.context = c}}
           new(r, c) == IF Own(r, c) = {} THEN results[r][c]
                        ELSE Append(results[r][c], CHOOSE b \in Own(r, c) : TRUE)
<1>1. Emitted(batch) = [r \in 1 .. MaxRuns |-> [c \in Contexts |-> new(r, c)]]
  BY DEF Emitted
<1>2. ASSUME NEW r \in 1 .. MaxRuns, NEW c \in Contexts
      PROVE  /\ new(r, c) \in Seq(ResultType(c))
             /\ \A n \in 1 .. Len(new(r, c)) : Truthful(new(r, c)[n], c)
             /\ IF OnItsWay(batch, r, c) THEN Len(new(r, c)) = 1 ELSE new(r, c) = results[r][c]
  <2>1. CASE OnItsWay(batch, r, c)
    <3>1. Own(r, c) # {}
      BY <2>1 DEF OnItsWay
    <3> DEFINE res == CHOOSE b \in Own(r, c) : TRUE
    <3>2. res \in Own(r, c)
      BY <3>1
    <3>3. \A x \in Own(r, c) : x \in ResultType(c) /\ Truthful(x, c)
      BY DEF BatchOK
    <3>4. results[r][c] = <<>>
      BY <2>1
    <3> HIDE DEF Own
    <3>8. new(r, c) = Append(results[r][c], res)
      BY <3>1
    <3> HIDE DEF res, new
    <3>5. new(r, c) = <<res>>
      BY <3>4, <3>8
    <3>6. res \in ResultType(c) /\ Truthful(res, c)
      BY <3>2, <3>3
    <3>7. new(r, c) \in Seq(ResultType(c)) /\ Len(new(r, c)) = 1 /\ new(r, c)[1] = res
      BY <3>5, <3>6
    <3> QED BY <2>1, <3>6, <3>7
  <2>2. CASE ~OnItsWay(batch, r, c)
    <3>1. Own(r, c) = {}
      BY <2>2 DEF OnItsWay
    <3>2. new(r, c) = results[r][c]
      BY <3>1
    <3> HIDE DEF new
    <3> QED BY <2>2, <3>2 DEF ReceiverInv, ReportsInv, ResultsOK
  <2> QED BY <2>1, <2>2
<1> HIDE DEF new
<1>3. \A r \in 1 .. MaxRuns, c \in Contexts : Emitted(batch)[r][c] = new(r, c)
  BY <1>1
<1>4. Emitted(batch) = [r \in 1 .. MaxRuns |-> [c \in Contexts |-> Emitted(batch)[r][c]]]
  BY <1>1
<1> HIDE DEF Own
<1> QED BY <1>2, <1>3, <1>4 DEF ResultsOK

(* A step of the worker: whatever it decides waits to be handed out.       *)
LEMMA WorkerDecides ==
    ASSUME ReceiverInv, NEW new, Decided(new), workerBatch = {},
           workerBatch' = Outcomes(new),
           ctx' = new,
           UNCHANGED <<run, stopBatch, results, silenced>>
    PROVE  BatchInv' /\ ResultsOK(results)' /\ SingleInv' /\ EveryRoundReported'
<1> USE OutcomesDecided
<1>1. BatchInv'
  BY DEF ReceiverInv, ReportsInv, BatchInv, BatchOK
<1>2. ResultsOK(results)'
  BY DEF ReceiverInv, ReportsInv, ResultsOK
<1>3. run \in Nat
  BY ReceiverAssumption DEF ReceiverInv, MembersInv
<1>4. SingleInv'
  <2> SUFFICES ASSUME NEW r \in 1 .. MaxRuns, NEW c \in Contexts
               PROVE  /\ Len(results[r][c]) <= 1
                      /\ OnItsWay(Outcomes(new), r, c) =>
                            /\ results[r][c] = <<>>
                            /\ ~OnItsWay(stopBatch, r, c)
                      /\ OnItsWay(stopBatch, r, c) => results[r][c] = <<>>
                      /\ r > run \/ (r = run /\ new[c].active) =>
                            /\ results[r][c] = <<>>
                            /\ ~OnItsWay(Outcomes(new), r, c)
                            /\ ~OnItsWay(stopBatch, r, c)
    BY DEF SingleInv, OnItsWay
  <2> QED BY <1>3 DEF ReceiverInv, ReportsInv, SingleInv
<1>5. EveryRoundReported'
  <2> SUFFICES ASSUME run # 0, NEW c \in Contexts
               PROVE  \/ new[c].active \/ <<run, c>> \in silenced
                      \/ results[run][c] # <<>>
                      \/ \E b \in Outcomes(new) \cup stopBatch : b.run = run /\ b.context = c
    BY DEF EveryRoundReported
  <2>1. CASE ctx[c].active
    BY <1>3, <2>1 DEF OnItsWay
  <2>2. CASE ~ctx[c].active
    BY <2>2 DEF ReceiverInv, ReportsInv, EveryRoundReported
  <2> QED BY <2>1, <2>2
<1> QED BY <1>1, <1>2, <1>4, <1>5

(* The same for stop.                                                      *)
LEMMA StopDecides ==
    ASSUME ReceiverInv, NEW new, Decided(new), stopBatch = {},
           stopBatch' = Outcomes(new),
           ctx' = new,
           UNCHANGED <<run, workerBatch, results, silenced>>
    PROVE  BatchInv' /\ ResultsOK(results)' /\ SingleInv' /\ EveryRoundReported'
<1> USE OutcomesDecided
<1>1. BatchInv'
  BY DEF ReceiverInv, ReportsInv, BatchInv, BatchOK
<1>2. ResultsOK(results)'
  BY DEF ReceiverInv, ReportsInv, ResultsOK
<1>3. run \in Nat
  BY ReceiverAssumption DEF ReceiverInv, MembersInv
<1>4. SingleInv'
  <2> SUFFICES ASSUME NEW r \in 1 .. MaxRuns, NEW c \in Contexts
               PROVE  /\ Len(results[r][c]) <= 1
                      /\ OnItsWay(workerBatch, r, c) =>
                            /\ results[r][c] = <<>>
                            /\ ~OnItsWay(Outcomes(new), r, c)
                      /\ OnItsWay(Outcomes(new), r, c) => results[r][c] = <<>>
                      /\ r > run \/ (r = run /\ new[c].active) =>
                            /\ results[r][c] = <<>>
                            /\ ~OnItsWay(workerBatch, r, c)
                            /\ ~OnItsWay(Outcomes(new), r, c)
    BY DEF SingleInv, OnItsWay
  <2> QED BY <1>3 DEF ReceiverInv, ReportsInv, SingleInv
<1>5. EveryRoundReported'
  <2> SUFFICES ASSUME run # 0, NEW c \in Contexts
               PROVE  \/ new[c].active \/ <<run, c>> \in silenced
                      \/ results[run][c] # <<>>
                      \/ \E b \in workerBatch \cup Outcomes(new) : b.run = run /\ b.context = c
    BY DEF EveryRoundReported
  <2>1. CASE ctx[c].active
    BY <1>3, <2>1 DEF OnItsWay
  <2>2. CASE ~ctx[c].active
    BY <2>2 DEF ReceiverInv, ReportsInv, EveryRoundReported
  <2> QED BY <2>1, <2>2
<1> QED BY <1>1, <1>2, <1>4, <1>5

(* Handing out a batch moves its results to the handler, each once.        *)
LEMMA BatchEmitted ==
    ASSUME ReceiverInv, UNCHANGED <<run, ctx, silenced>>,
           \/ /\ results' = Emitted(workerBatch) /\ workerBatch' = {}
              /\ stopBatch' = stopBatch
           \/ /\ results' = Emitted(stopBatch) /\ stopBatch' = {}
              /\ workerBatch' = workerBatch
    PROVE  BatchInv' /\ ResultsOK(results)' /\ SingleInv' /\ EveryRoundReported'
<1> DEFINE Gain(batch) ==
        \A r \in 1 .. MaxRuns, c \in Contexts :
             IF OnItsWay(batch, r, c) THEN Len(Emitted(batch)[r][c]) = 1
                                      ELSE Emitted(batch)[r][c] = results[r][c]
<1>1. ResultsOK(Emitted(workerBatch)) /\ Gain(workerBatch)
  BY EmittedResults DEF ReceiverInv, ReportsInv, BatchInv, SingleInv
<1>2. ResultsOK(Emitted(stopBatch)) /\ Gain(stopBatch)
  BY EmittedResults DEF ReceiverInv, ReportsInv, BatchInv, SingleInv
<1>3. ResultsOK(results)'
  <2>1. ResultsOK(results')
    BY <1>1, <1>2
  <2> QED BY <2>1 DEF ResultsOK
<1>4. BatchInv'
  BY DEF ReceiverInv, ReportsInv, BatchInv, BatchOK
<1>5. run \in Nat /\ (run # 0 => run \in 1 .. MaxRuns)
  BY ReceiverAssumption DEF ReceiverInv, MembersInv
<1>6. \A r \in 1 .. MaxRuns, c \in Contexts : ~OnItsWay({}, r, c)
  BY DEF OnItsWay
<1>7. CASE results' = Emitted(workerBatch) /\ workerBatch' = {} /\ stopBatch' = stopBatch
  <2>1. SingleInv'
    <3> SUFFICES ASSUME NEW r \in 1 .. MaxRuns, NEW c \in Contexts
                 PROVE  /\ Len(results'[r][c]) <= 1
                        /\ OnItsWay(stopBatch, r, c) => results'[r][c] = <<>>
                        /\ r > run \/ (r = run /\ ctx[c].active) =>
                              results'[r][c] = <<>> /\ ~OnItsWay(stopBatch, r, c)
      BY <1>6, <1>7 DEF SingleInv, OnItsWay
    <3>1. CASE OnItsWay(workerBatch, r, c)
      <4>1. Len(results'[r][c]) = 1
        BY <1>1, <1>7, <3>1
      <4> QED BY <3>1, <4>1 DEF ReceiverInv, ReportsInv, SingleInv
    <3>2. CASE ~OnItsWay(workerBatch, r, c)
      <4>1. results'[r][c] = results[r][c]
        BY <1>1, <1>7, <3>2
      <4> QED BY <4>1 DEF ReceiverInv, ReportsInv, SingleInv
    <3> QED BY <3>1, <3>2
  <2>2. EveryRoundReported'
    <3> SUFFICES ASSUME run # 0, NEW c \in Contexts
                 PROVE  \/ ctx[c].active \/ <<run, c>> \in silenced
                        \/ results'[run][c] # <<>>
                        \/ \E b \in stopBatch : b.run = run /\ b.context = c
      BY <1>7 DEF EveryRoundReported
    <3>1. OnItsWay(workerBatch, run, c) => results'[run][c] # <<>>
      BY <1>1, <1>5, <1>7
    <3>2. ~OnItsWay(workerBatch, run, c) => results'[run][c] = results[run][c]
      BY <1>1, <1>5, <1>7
    <3> QED BY <3>1, <3>2 DEF ReceiverInv, ReportsInv, EveryRoundReported, OnItsWay
  <2> QED BY <1>3, <1>4, <2>1, <2>2
<1>8. CASE results' = Emitted(stopBatch) /\ stopBatch' = {} /\ workerBatch' = workerBatch
  <2>1. SingleInv'
    <3> SUFFICES ASSUME NEW r \in 1 .. MaxRuns, NEW c \in Contexts
                 PROVE  /\ Len(results'[r][c]) <= 1
                        /\ OnItsWay(workerBatch, r, c) => results'[r][c] = <<>>
                        /\ r > run \/ (r = run /\ ctx[c].active) =>
                              results'[r][c] = <<>> /\ ~OnItsWay(workerBatch, r, c)
      BY <1>6, <1>8 DEF SingleInv, OnItsWay
    <3>1. CASE OnItsWay(stopBatch, r, c)
      <4>1. Len(results'[r][c]) = 1
        BY <1>2, <1>8, <3>1
      <4> QED BY <3>1, <4>1 DEF ReceiverInv, ReportsInv, SingleInv
    <3>2. CASE ~OnItsWay(stopBatch, r, c)
      <4>1. results'[r][c] = results[r][c]
        BY <1>2, <1>8, <3>2
      <4> QED BY <4>1 DEF ReceiverInv, ReportsInv, SingleInv
    <3> QED BY <3>1, <3>2
  <2>2. EveryRoundReported'
    <3> SUFFICES ASSUME run # 0, NEW c \in Contexts
                 PROVE  \/ ctx[c].active \/ <<run, c>> \in silenced
                        \/ results'[run][c] # <<>>
                        \/ \E b \in workerBatch : b.run = run /\ b.context = c
      BY <1>8 DEF EveryRoundReported
    <3>1. OnItsWay(stopBatch, run, c) => results'[run][c] # <<>>
      BY <1>2, <1>5, <1>8
    <3>2. ~OnItsWay(stopBatch, run, c) => results'[run][c] = results[run][c]
      BY <1>2, <1>5, <1>8
    <3> QED BY <3>1, <3>2 DEF ReceiverInv, ReportsInv, EveryRoundReported, OnItsWay
  <2> QED BY <1>3, <1>4, <2>1, <2>2
<1> QED BY <1>7, <1>8

(* configure ends the rounds of all contexts and reports none of them.     *)
LEMMA SilentStep ==
    ASSUME ReceiverInv, UNCHANGED <<run, workerBatch, stopBatch, results>>,
           silenced' = silenced \cup Silencing,
           \A c \in Contexts : ~ctx'[c].active
    PROVE  BatchInv' /\ ResultsOK(results)' /\ SingleInv' /\ EveryRoundReported'
<1>1. BatchInv'
  BY DEF ReceiverInv, ReportsInv, BatchInv, BatchOK
<1>2. ResultsOK(results)'
  BY DEF ReceiverInv, ReportsInv, ResultsOK
<1>3. SingleInv'
  BY DEF ReceiverInv, ReportsInv, SingleInv, OnItsWay
<1>4. EveryRoundReported'
  <2> SUFFICES ASSUME run # 0, NEW c \in Contexts
               PROVE  \/ <<run, c>> \in silenced' \/ results[run][c] # <<>>
                      \/ \E b \in workerBatch \cup stopBatch : b.run = run /\ b.context = c
    BY DEF EveryRoundReported
  <2>1. ctx[c].active => <<run, c>> \in Silencing
    BY DEF Silencing, Active
  <2> QED BY <2>1 DEF ReceiverInv, ReportsInv, EveryRoundReported
<1> QED BY <1>1, <1>2, <1>3, <1>4

(* A new round: nothing of it was reported, nothing is on its way.         *)
LEMMA StartStep ==
    ASSUME ReceiverInv, NEW lead \in StartLeads, Start(lead)
    PROVE  ReceiverInv'
<1>1. now + lead \in Nat /\ run \in Nat /\ run' = run + 1 /\ run' \in 1 .. MaxRuns
  BY ReceiverAssumption DEF ReceiverInv, MembersInv, Start
<1>2. MembersInv'
  <2>1. now' \in Nat /\ run' \in 0 .. MaxRuns /\ pauses' \in Nat /\ pending' \subseteq Contexts
    BY <1>1 DEF ReceiverInv, MembersInv, Start
  <2>2. /\ configured' \in BOOLEAN /\ running' \in BOOLEAN /\ paused' \in BOOLEAN
        /\ swapping' \in BOOLEAN
    BY DEF ReceiverInv, MembersInv, Start
  <2> QED BY <2>1, <2>2 DEF MembersInv
<1>3. ctx' = [c \in Contexts |-> Started(PacketTotal[c], now + lead)]
  BY DEF Start
<1>4. \A c \in Contexts : /\ Sound(ctx'[c]) /\ ctx'[c].active
                           /\ ctx'[c].total = PacketTotal[c]
  BY <1>1, <1>3, StartedSound, ReceiverAssumption DEF Contexts
<1>5. ContextInv'
  BY <1>1, <1>3, <1>4 DEF ContextInv
<1>6. QueueInv'
  BY DEF ReceiverInv, QueueInv, Start
<1>7. BatchInv' /\ ResultsOK(results)'
  <2>1. UNCHANGED <<workerBatch, stopBatch, results>>
    BY DEF Start
  <2>2. ResultsOK(results)'
    BY <2>1 DEF ReceiverInv, ReportsInv, ResultsOK
  <2>3. BatchInv'
    <3> SUFFICES ASSUME NEW b \in workerBatch \cup stopBatch
                 PROVE  /\ b.run \in 1 .. MaxRuns /\ b.run <= run + 1
                        /\ b.context \in Contexts
                        /\ b.result \in ResultType(b.context)
                        /\ Truthful(b.result, b.context)
      BY <1>1, <2>1 DEF BatchInv, BatchOK
    <3>1. /\ b.run \in 1 .. MaxRuns /\ b.run <= run /\ b.context \in Contexts
          /\ b.result \in ResultType(b.context) /\ Truthful(b.result, b.context)
      BY DEF ReceiverInv, ReportsInv, BatchInv, BatchOK
    <3> QED BY <1>1, <3>1
  <2> QED BY <2>2, <2>3
<1>8. SingleInv'
  <2> SUFFICES ASSUME NEW r \in 1 .. MaxRuns, NEW c \in Contexts
               PROVE  /\ Len(results[r][c]) <= 1
                      /\ OnItsWay(workerBatch, r, c) =>
                            /\ results[r][c] = <<>>
                            /\ ~OnItsWay(stopBatch, r, c)
                      /\ OnItsWay(stopBatch, r, c) => results[r][c] = <<>>
                      /\ r > run' \/ r = run' => /\ results[r][c] = <<>>
                                                /\ ~OnItsWay(workerBatch, r, c)
                                                /\ ~OnItsWay(stopBatch, r, c)
    BY DEF SingleInv, OnItsWay, Start
  <2> QED BY <1>1 DEF ReceiverInv, ReportsInv, SingleInv
<1>9. EveryRoundReported'
  BY <1>4 DEF EveryRoundReported
<1> QED BY <1>2, <1>5, <1>6, <1>7, <1>8, <1>9 DEF ReceiverInv, ReportsInv

(* No step overfills the queue or puts anything else into it.              *)
LEMMA QueueStep ==
    ASSUME ReceiverInv, [Next]_vars
    PROVE  QueueInv'
<1>1. queue \in Seq(EntryType) /\ Len(queue) <= MaxQueued
  BY DEF ReceiverInv, QueueInv
<1>2. ASSUME NEW c \in Contexts, NEW dg \in Datagrams(PacketTotal[c]),
             NEW copy \in ReceivedCopies, EnqueueDatagram(c, dg, copy)
      PROVE  queue' \in Seq(EntryType) /\ Len(queue') <= MaxQueued
  <2>1. PacketTotal[c] \in Nat \ {0}
    BY ReceiverAssumption DEF Contexts
  <2>2. PICK i \in 1 .. LastLogicalInterval(PacketTotal[c]) :
           \E n \in 1 .. DatagramCount(PacketTotal[c], i) : dg = Datagram(PacketTotal[c], i, n)
    BY DEF Datagrams
  <2>3. PICK n \in 1 .. DatagramCount(PacketTotal[c], i) : dg = Datagram(PacketTotal[c], i, n)
    BY <2>2
  <2>4. dg \in [ interval : 1 .. LastLogicalInterval(PacketTotal[c]),
                 packet : 0 .. PacketTotal[c],
                 key : {0} \cup 1 .. DataIntervalCount(PacketTotal[c]) ]
    BY <2>1, <2>3, DatagramFields
  <2>5. dg \in [interval : Nat, packet : Nat, key : Nat]
    BY <2>1, <2>4, IntervalCounts
  <2> DEFINE e == [context |-> c, dg |-> dg, copy |-> copy, recv |-> now]
  <2>6. e \in EntryType
    BY <2>5, ReceiverAssumption DEF ReceiverInv, MembersInv, EntryType
  <2>7. queue' = Append(queue, e) /\ Len(queue) < MaxQueued
    BY <1>2 DEF EnqueueDatagram
  <2> HIDE DEF e
  <2> QED BY <1>1, <2>6, <2>7, ReceiverAssumption
<1>3. CASE queue' = queue
  BY <1>1, <1>3 DEF QueueInv
<1>4. CASE queue' = <<>>
  BY <1>4, ReceiverAssumption DEF QueueInv
<1>5. CASE queue # <<>> /\ queue' = Tail(queue)
  <2>1. queue' \in Seq(EntryType) /\ Len(queue') <= MaxQueued
    BY <1>1, <1>5, ReceiverAssumption
  <2> QED BY <2>1 DEF QueueInv
<1>6. \/ \E c \in Contexts : \E dg \in Datagrams(PacketTotal[c]), copy \in ReceivedCopies :
            EnqueueDatagram(c, dg, copy)
      \/ queue' = queue \/ queue' = <<>> \/ (queue # <<>> /\ queue' = Tail(queue))
  BY DEF Next, vars, Tick, Network, Worker, WorkerStep, WorkerEmits, ControlCall,
         ControlProgress, ConfigureStops, Start, RequestPause, Resume, Stop,
         ConfigureSwaps, ConfigureRejects, StopEmits
<1> QED BY <1>2, <1>3, <1>4, <1>5, <1>6 DEF QueueInv

(* No step takes a plain member out of its type.                           *)
LEMMA MembersStep ==
    ASSUME ReceiverInv, [Next]_vars
    PROVE  MembersInv'
<1> USE DEF MembersInv, ReceiverInv
<1>1. CASE UNCHANGED vars
  BY <1>1 DEF vars
<1>2. CASE Tick
  BY <1>2 DEF Tick
<1>3. CASE Network
  BY <1>3 DEF Network, EnqueueDatagram
<1>4. CASE WorkerStep
  BY <1>4 DEF WorkerStep, AnyPaused
<1>5. CASE WorkerEmits
  BY <1>5 DEF WorkerEmits
<1>6. CASE ConfigureStops
  BY <1>6 DEF ConfigureStops
<1>7. CASE \E lead \in StartLeads : Start(lead)
  BY <1>7, StartStep
<1>8. CASE \E k \in Intervals, lead \in PauseLeads : RequestPause(k, lead)
  BY <1>8 DEF RequestPause, Active
<1>9. CASE \E r \in Intervals, lead \in ResumeLeads : Resume(r, lead)
  BY <1>9 DEF Resume
<1>10. CASE Stop
  BY <1>10 DEF Stop
<1>11. CASE ControlProgress
  BY <1>11 DEF ControlProgress, ConfigureSwaps, ConfigureRejects, StopEmits
<1> QED BY <1>1, <1>2, <1>3, <1>4, <1>5, <1>6, <1>7, <1>8, <1>9, <1>10, <1>11
        DEF Next, Worker, ControlCall

(* The worker takes a datagram and checks the timeouts of all contexts.    *)
LEMMA WorkerStepKeeps ==
    ASSUME ReceiverInv, WorkerStep
    PROVE  ContextInv' /\ ReportsInv'
<1> DEFINE checked == [c \in Contexts |-> Ticked(AfterDatagram[c], now)]
<1>1. AfterDatagram = [c \in Contexts |-> AfterDatagram[c]]
  BY DEF AfterDatagram, ReceiverInv, ContextInv
<1>2. ASSUME NEW c \in Contexts
      PROVE  Sound(AfterDatagram[c]) /\ Settles(ctx[c], AfterDatagram[c])
  <2>1. Sound(ctx[c]) /\ Settles(ctx[c], ctx[c])
    BY DEF ReceiverInv, ContextInv, Settles
  <2>2. CASE queue = <<>> \/ (queue # <<>> /\ Head(queue).context # c)
    BY <2>1, <2>2 DEF AfterDatagram, ReceiverInv, ContextInv
  <2>3. CASE queue # <<>> /\ Head(queue).context = c
    <3> DEFINE e == Head(queue)
    <3>1. e.dg.interval \in Nat
      <4>1. queue \in Seq(EntryType)
        BY DEF ReceiverInv, QueueInv
      <4>2. Head(queue) \in EntryType
        BY <2>3, <4>1
      <4> QED BY <4>2 DEF EntryType
    <3>2. AfterDatagram[c] = Processed(ctx[c], e.dg, e.copy, e.recv)
      BY <2>3 DEF AfterDatagram, ReceiverInv, ContextInv
    <3> HIDE DEF e
    <3> QED BY <2>1, <3>1, <3>2, ProcessedSound
  <2> QED BY <2>2, <2>3
<1>3. Decided(checked)
  <2>1. checked = [c \in Contexts |-> checked[c]]
    OBVIOUS
  <2>2. ASSUME NEW c \in Contexts
        PROVE  Sound(checked[c]) /\ Settles(ctx[c], checked[c])
    <3>1. checked[c] = Ticked(AfterDatagram[c], now)
      OBVIOUS
    <3>2. Sound(checked[c]) /\ Settles(AfterDatagram[c], checked[c])
      BY <1>2, <3>1, TickedSound
    <3> HIDE DEF checked
    <3> QED BY <1>2, <3>2 DEF Settles, Sound, LifeCycle
  <2> HIDE DEF checked
  <2> QED BY <2>1, <2>2 DEF Decided
<1>4. /\ ctx' = checked /\ workerBatch = {} /\ workerBatch' = Outcomes(checked)
      /\ UNCHANGED <<run, stopBatch, results, silenced>>
  BY DEF WorkerStep
<1> HIDE DEF checked
<1>5. ReportsInv'
  BY <1>3, <1>4, WorkerDecides DEF ReportsInv
<1>6. ContextInv'
  BY <1>3, <1>4 DEF ReceiverInv, ContextInv, Decided, Settles, Sound, LifeCycle
<1> QED BY <1>5, <1>6

(* stop gives an outcome to every round that runs and ends them all.       *)
LEMMA StopKeeps ==
    ASSUME ReceiverInv, Stop
    PROVE  ContextInv' /\ ReportsInv'
<1> DEFINE stopped == [c \in Contexts |->
                         IF ctx[c].active /\ ctx[c].outcome = "none"
                         THEN [ctx[c] EXCEPT !.outcome = "Stopped"] ELSE ctx[c]]
           final == [c \in Contexts |-> Stopped(stopped[c])]
<1>1. ASSUME NEW c \in Contexts
      PROVE  /\ Sound(final[c]) /\ Settles(ctx[c], final[c])
             /\ stopped[c].outcome = final[c].outcome
             /\ final[c].outcome # "none" => ResultOf(stopped[c]) = ResultOf(final[c])
  <2>1. Sound(ctx[c])
    BY DEF ReceiverInv, ContextInv
  <2>2. CASE ctx[c].active
    <3> DEFINE t == [ctx[c] EXCEPT !.outcome = "Stopped"]
    <3>1. stopped[c] = t /\ final[c] = Stopped(t)
      BY <2>1, <2>2 DEF Sound, LifeCycle
    <3>2. /\ Sound(Stopped(t)) /\ ~Stopped(t).active
          /\ Stopped(t).total = ctx[c].total
          /\ t.outcome = "Stopped" /\ Stopped(t).outcome = "Stopped"
      BY <2>1, <2>2, StoppedByCallSound
    <3>3. Stopped(t).baseline = t.baseline /\ Stopped(t).total = t.total
      BY <2>1 DEF Stopped, Sound, Shape, Fields
    <3> HIDE DEF t, stopped, final
    <3>4. ResultOf(t) = ResultOf(Stopped(t))
      BY <3>2, <3>3 DEF ResultOf, Received, Count, Slots
    <3> QED BY <2>2, <3>1, <3>2, <3>4 DEF Settles
  <2>3. CASE ~ctx[c].active
    <3>1. stopped[c] = ctx[c] /\ final[c] = Stopped(ctx[c])
      BY <2>3
    <3>2. /\ Sound(Stopped(ctx[c])) /\ ~Stopped(ctx[c]).active
          /\ Stopped(ctx[c]).total = ctx[c].total
          /\ Stopped(ctx[c]).outcome = ctx[c].outcome
      BY <2>1, StoppedSound
    <3>3. Stopped(ctx[c]).baseline = ctx[c].baseline
      BY <2>1 DEF Stopped, Sound, Shape, Fields
    <3>4. ResultOf(ctx[c]) = ResultOf(Stopped(ctx[c]))
      BY <3>2, <3>3 DEF ResultOf, Received, Count, Slots
    <3> HIDE DEF stopped, final
    <3>5. ctx[c].active = Stopped(ctx[c]).active
      BY <2>1, <2>3, <3>2 DEF Sound, LifeCycle
    <3> QED BY <2>3, <3>1, <3>2, <3>4, <3>5 DEF Settles
  <2> QED BY <2>2, <2>3
<1>2. final = [c \in Contexts |-> final[c]]
  OBVIOUS
<1>3. /\ ctx' = final /\ stopBatch = {} /\ stopBatch' = Outcomes(stopped)
      /\ UNCHANGED <<run, workerBatch, results, silenced>>
  BY DEF Stop
<1> HIDE DEF stopped, final
<1>4. Decided(final)
  BY <1>1, <1>2 DEF Decided
<1>5. Outcomes(stopped) = Outcomes(final)
  <2>1. {x \in Contexts : ctx[x].outcome = "none" /\ stopped[x].outcome # "none"}
        = {x \in Contexts : ctx[x].outcome = "none" /\ final[x].outcome # "none"}
    BY <1>1
  <2> QED BY <1>1, <2>1 DEF Outcomes
<1>6. ReportsInv'
  BY <1>3, <1>4, <1>5, StopDecides DEF ReportsInv
<1>7. ContextInv'
  BY <1>3, <1>4 DEF ReceiverInv, ContextInv, Decided, Settles, Sound, LifeCycle
<1> QED BY <1>6, <1>7

(* requestPause for all contexts, some of which may refuse.                *)
LEMMA PauseKeeps ==
    ASSUME ReceiverInv, NEW k, NEW lead, RequestPause(k, lead)
    PROVE  ContextInv' /\ ReportsInv'
<1> DEFINE reached == Reached({c \in Contexts : RefusesPause(ctx[c], k)})
<1>1. ctx' = [c \in Contexts |->
                  IF c \in reached THEN WithPause(ctx[c], k, now + lead) ELSE ctx[c]]
  BY DEF RequestPause
<1> HIDE DEF reached
<1>2. ASSUME NEW c \in Contexts
      PROVE  Sound(ctx'[c]) /\ Unsettled(ctx[c], ctx'[c])
  <2>1. Sound(ctx[c])
    BY DEF ReceiverInv, ContextInv
  <2>2. ctx'[c] = ctx[c] \/ ctx'[c] = WithPause(ctx[c], k, now + lead)
    BY <1>1
  <2> QED BY <2>1, <2>2, PausedSound DEF Unsettled
<1>3. UNCHANGED <<run, workerBatch, stopBatch, results, silenced>>
  BY DEF RequestPause
<1>4. ReportsInv'
  BY <1>2, <1>3, QuietStep DEF ReportsInv, Unsettled
<1>5. ContextInv'
  BY <1>1, <1>2, <1>3 DEF ReceiverInv, ContextInv, Unsettled
<1> QED BY <1>4, <1>5

(* resume for all contexts, some of which may refuse.                      *)
LEMMA ResumeKeeps ==
    ASSUME ReceiverInv, NEW r \in Nat, NEW lead \in Nat, Resume(r, lead)
    PROVE  ContextInv' /\ ReportsInv'
<1> DEFINE reached == Reached({c \in Contexts : RefusesResume(ctx[c], r, now + lead)})
<1>1. ctx' = [c \in Contexts |->
                  IF c \in reached THEN WithResume(ctx[c], r, now + lead) ELSE ctx[c]]
  BY DEF Resume
<1> HIDE DEF reached
<1>2. now + lead \in Nat
  BY DEF ReceiverInv, MembersInv
<1>3. ASSUME NEW c \in Contexts
      PROVE  Sound(ctx'[c]) /\ Unsettled(ctx[c], ctx'[c])
  <2>1. Sound(ctx[c])
    BY DEF ReceiverInv, ContextInv
  <2>2. ctx'[c] = ctx[c] \/ ctx'[c] = WithResume(ctx[c], r, now + lead)
    BY <1>1
  <2>3. /\ Sound(WithResume(ctx[c], r, now + lead))
        /\ Unsettled(ctx[c], WithResume(ctx[c], r, now + lead))
    BY <1>2, <2>1, ResumedSound
  <2> QED BY <2>1, <2>2, <2>3 DEF Unsettled
<1>4. UNCHANGED <<run, workerBatch, stopBatch, results, silenced>>
  BY DEF Resume
<1>5. ReportsInv'
  BY <1>3, <1>4, QuietStep DEF ReportsInv, Unsettled
<1>6. ContextInv'
  BY <1>1, <1>3, <1>4 DEF ReceiverInv, ContextInv, Unsettled
<1> QED BY <1>5, <1>6

(* The two halves of configure.                                            *)
LEMMA ConfigureKeeps ==
    ASSUME ReceiverInv, ConfigureStops \/ ConfigureSwaps
    PROVE  ContextInv' /\ ReportsInv'
<1>1. /\ UNCHANGED <<run, workerBatch, stopBatch, results>>
      /\ silenced' = silenced \cup Silencing
  BY DEF ConfigureStops, ConfigureSwaps
<1>2. CASE ConfigureStops
  <2>1. ctx' = [c \in Contexts |-> Stopped(ctx[c])]
    BY <1>2 DEF ConfigureStops
  <2>2. \A c \in Contexts : /\ Sound(ctx'[c]) /\ ~ctx'[c].active
                             /\ ctx'[c].total = PacketTotal[c]
    BY <2>1, StoppedSound DEF ReceiverInv, ContextInv
  <2>3. ContextInv'
    BY <2>1, <2>2 DEF ContextInv
  <2> QED BY <1>1, <2>2, <2>3, SilentStep DEF ReportsInv
<1>3. CASE ConfigureSwaps
  <2>1. ctx' = [c \in Contexts |-> Unstarted(PacketTotal[c])]
    BY <1>3 DEF ConfigureSwaps
  <2>2. \A c \in Contexts : /\ Sound(ctx'[c]) /\ ~ctx'[c].active
                             /\ ctx'[c].total = PacketTotal[c]
    BY <2>1, UnstartedSound, ReceiverAssumption DEF Contexts
  <2>3. ContextInv'
    BY <2>1, <2>2 DEF ContextInv
  <2> QED BY <1>1, <2>2, <2>3, SilentStep DEF ReportsInv
<1> QED BY <1>2, <1>3

(* Every step of the runtime keeps the invariant.                          *)
LEMMA ReceiverStep ==
    ASSUME ReceiverInv, [Next]_vars
    PROVE  ReceiverInv'
<1>1. MembersInv' /\ QueueInv'
  BY MembersStep, QueueStep
<1>2. ContextInv' /\ ReportsInv'
  <2>1. CASE UNCHANGED vars \/ Tick \/ Network \/ ConfigureRejects
    <3>1. UNCHANGED <<run, ctx, workerBatch, stopBatch, results, silenced>>
      BY <2>1 DEF vars, Tick, Network, EnqueueDatagram, ConfigureRejects
    <3>2. ContextInv'
      BY <3>1 DEF ReceiverInv, ContextInv
    <3> QED BY <3>1, <3>2, QuietStep DEF ReportsInv
  <2>2. CASE WorkerStep
    BY <2>2, WorkerStepKeeps
  <2>3. CASE WorkerEmits \/ StopEmits
    <3>1. UNCHANGED <<run, ctx, silenced>>
      BY <2>3 DEF WorkerEmits, StopEmits
    <3>2. ContextInv'
      BY <3>1 DEF ReceiverInv, ContextInv
    <3> QED BY <2>3, <3>1, <3>2, BatchEmitted DEF ReportsInv, WorkerEmits, StopEmits
  <2>4. CASE ConfigureStops \/ ConfigureSwaps
    BY <2>4, ConfigureKeeps
  <2>5. CASE \E lead \in StartLeads : Start(lead)
    BY <2>5, StartStep DEF ReceiverInv, ReportsInv
  <2>6. CASE \E k \in Intervals, lead \in PauseLeads : RequestPause(k, lead)
    BY <2>6, PauseKeeps
  <2>7. CASE \E r \in Intervals, lead \in ResumeLeads : Resume(r, lead)
    <3>1. Intervals \subseteq Nat /\ ResumeLeads \subseteq Nat
      BY ReceiverAssumption DEF Intervals
    <3> QED BY <2>7, <3>1, ResumeKeeps
  <2>8. CASE Stop
    BY <2>8, StopKeeps
  <2> QED BY <2>1, <2>2, <2>3, <2>4, <2>5, <2>6, <2>7, <2>8
          DEF Next, Worker, ControlCall, ControlProgress
<1> QED BY <1>1, <1>2 DEF ReceiverInv, ReportsInv

(* The runtime as it is constructed.                                       *)
LEMMA ReceiverInit == Init => ReceiverInv
<1> SUFFICES ASSUME Init PROVE ReceiverInv
  OBVIOUS
<1>1. MembersInv
  <2>1. now \in Nat /\ run \in 0 .. MaxRuns /\ pauses \in Nat /\ pending \subseteq Contexts
    BY ReceiverAssumption DEF Init
  <2>2. /\ configured \in BOOLEAN /\ running \in BOOLEAN /\ paused \in BOOLEAN
        /\ swapping \in BOOLEAN
    BY DEF Init
  <2> QED BY <2>1, <2>2 DEF MembersInv
<1>2. ContextInv
  BY UnstartedSound, ReceiverAssumption DEF Init, ContextInv, Contexts
<1>3. QueueInv
  BY ReceiverAssumption DEF Init, QueueInv
<1>4. BatchInv /\ ResultsOK(results)
  BY DEF Init, BatchInv, BatchOK, ResultsOK
<1>5. SingleInv
  BY DEF Init, SingleInv, OnItsWay
<1>6. EveryRoundReported
  BY DEF Init, EveryRoundReported
<1> QED BY <1>1, <1>2, <1>3, <1>4, <1>5, <1>6 DEF ReceiverInv, ReportsInv

(* The invariant holds in every reachable state of                         *)
(* AuthenticationReceiverRuntime, for every value of the constants.        *)
THEOREM ReceiverInvariant == Spec => []ReceiverInv
<1> QED BY ReceiverInit, ReceiverStep, PTL DEF Spec

(* Every member of the runtime and of its contexts keeps its type, and the *)
(* queue its bound (TypeOK).                                               *)
THEOREM ReceiverTyping == Spec => []TypeOK
<1>1. ReceiverInv => TypeOK
  <2> SUFFICES ASSUME ReceiverInv PROVE TypeOK
    OBVIOUS
  <2>1. \A c \in Contexts :
        LET s == ctx[c]
        IN  /\ s.total = PacketTotal[c] /\ DOMAIN s.baseline = 1 .. s.total
            /\ s.active \in BOOLEAN /\ s.incomplete \in BOOLEAN
            /\ s.active => s.outcome = "none" /\ s.timeline # <<>>
            /\ s.keys \subseteq 1 .. DataIntervalCount(s.total)
            /\ s.verified \subseteq 1 .. DataIntervalCount(s.total)
    <3> TAKE c \in Contexts
    <3>1. Sound(ctx[c]) /\ ctx[c].total = PacketTotal[c]
      BY DEF ReceiverInv, ContextInv
    <3>2. DOMAIN ctx[c].baseline = 1 .. ctx[c].total
      BY <3>1 DEF Sound, Shape, Slots
    <3> QED BY <3>1, <3>2 DEF Sound, Ranges, LifeCycle
  <2>2. DOMAIN ctx = Contexts
    BY DEF ReceiverInv, ContextInv
  <2>3. Len(queue) <= MaxQueued
    BY DEF ReceiverInv, QueueInv
  <2>4. \A r \in 1 .. MaxRuns, c \in Contexts : results[r][c] \in Seq(ResultType(c))
    BY DEF ReceiverInv, ReportsInv, ResultsOK
  <2> QED BY <2>1, <2>2, <2>3, <2>4 DEF TypeOK, ReceiverInv, MembersInv
<1> QED BY <1>1, ReceiverInvariant, PTL

(* A round of a context is reported once at most, also when the worker     *)
(* decides it while stop or a new start is on its way (emitResults after   *)
(* the lock).                                                              *)
THEOREM ReportedOnce == Spec => []OneResultPerRound
<1>1. ReceiverInv => OneResultPerRound
  BY DEF ReceiverInv, ReportsInv, SingleInv, OneResultPerRound
<1> QED BY <1>1, ReceiverInvariant, PTL

(* A round that is over has been reported, or its result is on its way,    *)
(* unless configure silenced it.                                           *)
THEOREM ReportedAtAll == Spec => []EveryRoundReported
<1>1. ReceiverInv => EveryRoundReported
  BY DEF ReceiverInv, ReportsInv
<1> QED BY <1>1, ReceiverInvariant, PTL

(* A context that holds a key holds the walk to it, and its verdicts are   *)
(* those of the packets behind it (verifyPacketsForInterval).              *)
THEOREM VerdictsFollowKeys == Spec => []KeysReachBack
<1>1. ReceiverInv => KeysReachBack
  BY DEF ReceiverInv, ContextInv, Sound, KeyWalk, VerdictsBehindKeys, KeysReachBack
<1> QED BY <1>1, ReceiverInvariant, PTL

(* A result that says Completed counts every packet of the round as        *)
(* received and passed (finalize, result).                                 *)
THEOREM CompletedMeansComplete == Spec => []CompletedIsComplete
<1>1. ReceiverInv => CompletedIsComplete
  <2> SUFFICES ASSUME ReceiverInv, NEW r \in 1 .. MaxRuns, NEW c \in Contexts,
                      NEW n \in DOMAIN results[r][c], results[r][c][n].status = "Completed"
               PROVE  /\ results[r][c][n].passed = ctx[c].total
                      /\ results[r][c][n].received = ctx[c].total
    BY DEF CompletedIsComplete
  <2>1. n \in 1 .. Len(results[r][c])
    BY DEF ReceiverInv, ReportsInv, ResultsOK
  <2> QED BY <2>1 DEF ReceiverInv, ReportsInv, ResultsOK, Truthful, ContextInv
<1> QED BY <1>1, ReceiverInvariant, PTL
-----------------------------------------------------------------------------
(* Whoever runs has its segments and its pause within the round, and the   *)
(* pause of a context in pending is outstanding.                           *)
PauseInv ==
    \A c \in Contexts : ctx[c].active =>
        /\ WithinRound(ctx[c])
        /\ c \in pending => PauseOutstanding(ctx[c])

(* A step that starts no context, leaves the course of those that run, and *)
(* adds nobody to pending.                                                 *)
LEMMA CourseKept ==
    ASSUME PauseInv, pending' \subseteq pending,
           \A c \in Contexts : ctx'[c].active => ctx[c].active /\ Carries(ctx[c], ctx'[c])
    PROVE  PauseInv'
<1> SUFFICES ASSUME NEW c \in Contexts, ctx'[c].active
             PROVE  WithinRound(ctx'[c]) /\ (c \in pending' => PauseOutstanding(ctx'[c]))
  BY DEF PauseInv
<1>1. ctx[c].active /\ Carries(ctx[c], ctx'[c])
  OBVIOUS
<1>2. WithinRound(ctx[c]) /\ (c \in pending => PauseOutstanding(ctx[c]))
  BY <1>1 DEF PauseInv
<1> QED BY <1>1, <1>2 DEF Carries, WithinRound, PauseOutstanding

(* What the worker does to one context.                                    *)
LEMMA WorkerCarriesOn ==
    ASSUME ReceiverInv, WorkerStep, NEW c \in Contexts
    PROVE  /\ CarriesOn(ctx[c], AfterDatagram[c])
           /\ AfterDatagram[c].active => ctx[c].active
           /\ Sound(AfterDatagram[c])
           /\ ctx'[c] = Ticked(AfterDatagram[c], now)
<1>1. Sound(ctx[c]) /\ ctx = [x \in Contexts |-> ctx[x]]
  BY DEF ReceiverInv, ContextInv
<1>2. ctx'[c] = Ticked(AfterDatagram[c], now)
  BY DEF WorkerStep
<1>3. CASE queue = <<>> \/ (queue # <<>> /\ Head(queue).context # c)
  <2>1. AfterDatagram[c] = ctx[c]
    BY <1>1, <1>3 DEF AfterDatagram
  <2> QED BY <1>1, <1>2, <2>1 DEF CarriesOn, Carries
<1>4. CASE queue # <<>> /\ Head(queue).context = c
  <2> DEFINE e == Head(queue)
  <2>1. e.dg.interval \in Nat
    <3>1. queue \in Seq(EntryType)
      BY DEF ReceiverInv, QueueInv
    <3>2. Head(queue) \in EntryType
      BY <1>4, <3>1
    <3> QED BY <3>2 DEF EntryType
  <2>2. AfterDatagram[c] = Processed(ctx[c], e.dg, e.copy, e.recv)
    BY <1>1, <1>4 DEF AfterDatagram
  <2> HIDE DEF e
  <2>3. /\ CarriesOn(ctx[c], AfterDatagram[c])
        /\ Sound(AfterDatagram[c]) /\ Settles(ctx[c], AfterDatagram[c])
    BY <1>1, <2>1, <2>2, ProcessedCarriesOn, ProcessedSound
  <2> QED BY <1>1, <1>2, <2>3 DEF Settles, Sound, LifeCycle
<1> QED BY <1>3, <1>4

(* The intervals that pauses and resumptions name are numbers.             *)
LEMMA IntervalsAreNat == Intervals \subseteq Nat
<1> SUFFICES ASSUME NEW c \in Contexts, NEW k \in 1 .. LastLogicalInterval(PacketTotal[c])
             PROVE  k \in Nat
  BY DEF Intervals
<1> QED OBVIOUS

(* A context takes a pause or not; in pending it is only with one ahead.   *)
LEMMA PausePends ==
    ASSUME ReceiverInv, PauseInv, NEW k \in Intervals, NEW lead, RequestPause(k, lead)
    PROVE  PauseInv'
<1> DEFINE reached == Reached({c \in Contexts : RefusesPause(ctx[c], k)})
<1>0. k \in Nat
  BY IntervalsAreNat
<1>1. /\ \A c \in Contexts :
            ctx'[c] = IF c \in reached THEN WithPause(ctx[c], k, now + lead) ELSE ctx[c]
      /\ pending' = (pending \ reached)
                       \cup {c \in reached \cap Active : LastSegment(ctx[c].timeline).first <= k}
      /\ k # 0
  BY DEF RequestPause
<1>2. \A c \in reached : ~RefusesPause(ctx[c], k)
  <2>1. \A c \in Contexts : c \in Int
    BY ReceiverAssumption DEF Contexts
  <2> QED BY <2>1 DEF Reached
<1> HIDE DEF reached
<1> SUFFICES ASSUME NEW c \in Contexts, ctx'[c].active
             PROVE  WithinRound(ctx'[c]) /\ (c \in pending' => PauseOutstanding(ctx'[c]))
  BY DEF PauseInv
<1>3. Sound(ctx[c])
  BY DEF ReceiverInv, ContextInv
<1>4. CASE c \notin reached
  BY <1>1, <1>4 DEF PauseInv
<1>5. CASE c \in reached /\ ctx[c].active
  <2> DEFINE s == ctx[c]
             t == [s EXCEPT !.pauseAfter = k, !.pauseTs = now + lead]
  <2>0. LastLogicalInterval(s.total) \in Nat \ {0}
    <3>1. s.total \in Nat \ {0}
      BY <1>3 DEF Sound, Ranges
    <3> HIDE DEF s
    <3> QED BY <3>1, IntervalCounts
  <2>1. ctx'[c] = t
    BY <1>1, <1>5 DEF WithPause
  <2>2. k < LastLogicalInterval(s.total) /\ WithinRound(s)
    <3>1. ~(k >= LastLogicalInterval(s.total))
      BY <1>2, <1>5 DEF RefusesPause
    <3> QED BY <1>0, <1>5, <2>0, <3>1 DEF PauseInv
  <2>3. t.total = s.total /\ t.timeline = s.timeline /\ t.pauseAfter = k
    BY <1>3 DEF Sound, Shape, Fields
  <2>4. c \in pending' => LastSegment(s.timeline).first <= k
    BY <1>1, <1>5
  <2> HIDE DEF s, t
  <2>6. WithinRound(t)
    BY <1>0, <2>0, <2>2, <2>3 DEF WithinRound
  <2> QED BY <1>1, <2>1, <2>3, <2>4, <2>6 DEF PauseOutstanding
<1>6. CASE c \in reached /\ ~ctx[c].active
  <2>1. ctx'[c] = ctx[c]
    BY <1>1, <1>6 DEF WithPause
  <2> QED BY <1>6, <2>1
<1> QED BY <1>4, <1>5, <1>6

(* A context that resumes leaves pending; the others keep their pause.     *)
LEMMA ResumePends ==
    ASSUME ReceiverInv, PauseInv, NEW r \in Intervals, NEW lead, Resume(r, lead)
    PROVE  PauseInv'
<1> DEFINE reached == Reached({c \in Contexts : RefusesResume(ctx[c], r, now + lead)})
<1>1. /\ \A c \in Contexts :
            ctx'[c] = IF c \in reached THEN WithResume(ctx[c], r, now + lead) ELSE ctx[c]
      /\ pending' = pending \ reached
  BY DEF Resume
<1>2. \A c \in reached : ~RefusesResume(ctx[c], r, now + lead)
  <2>1. \A c \in Contexts : c \in Int
    BY ReceiverAssumption DEF Contexts
  <2> QED BY <2>1 DEF Reached
<1> HIDE DEF reached
<1> SUFFICES ASSUME NEW c \in Contexts, ctx'[c].active
             PROVE  WithinRound(ctx'[c]) /\ (c \in pending' => PauseOutstanding(ctx'[c]))
  BY DEF PauseInv
<1>3. Sound(ctx[c])
  BY DEF ReceiverInv, ContextInv
<1>4. CASE c \notin reached
  BY <1>1, <1>4 DEF PauseInv
<1>5. CASE c \in reached /\ ctx[c].active
  <2> DEFINE s == ctx[c]
             x == Segment(r, now + lead)
             line == Append(s.timeline, x)
             t == [s EXCEPT !.timeline = line]
  <2>1. ctx'[c] = t /\ c \notin pending'
    BY <1>1, <1>5 DEF WithResume
  <2>2. r = s.pauseAfter + 1 /\ WithinRound(s)
    BY <1>2, <1>5 DEF RefusesResume, PauseInv
  <2>3. LastLogicalInterval(s.total) \in Nat /\ s.timeline \in Seq([first : Nat, ts : Nat])
    BY <1>3, IntervalCounts DEF Sound, Ranges
  <2>4. x.first = r
    BY DEF Segment
  <2> HIDE DEF x
  <2>5. /\ Len(line) = Len(s.timeline) + 1 /\ Len(s.timeline) \in Nat
        /\ \A n \in 1 .. Len(s.timeline) : line[n] = s.timeline[n]
        /\ line[Len(s.timeline) + 1] = x
    BY <2>3
  <2> HIDE DEF line
  <2>6. t.total = s.total /\ t.timeline = line /\ t.pauseAfter = s.pauseAfter
    BY <1>3 DEF Sound, Shape, Fields
  <2> HIDE DEF s, t
  <2>7. r <= LastLogicalInterval(s.total)
    BY <2>2, <2>3 DEF WithinRound
  <2>8. \A n \in 1 .. Len(line) : line[n].first <= LastLogicalInterval(s.total)
    <3> SUFFICES ASSUME NEW n \in 1 .. Len(line)
                 PROVE  line[n].first <= LastLogicalInterval(s.total)
      OBVIOUS
    <3>1. n \in 1 .. Len(s.timeline) \/ n = Len(s.timeline) + 1
      BY <2>5
    <3> QED BY <2>2, <2>4, <2>5, <2>7, <3>1 DEF WithinRound
  <2> QED BY <2>1, <2>2, <2>6, <2>8 DEF WithinRound
<1>6. CASE c \in reached /\ ~ctx[c].active
  <2>1. ctx'[c] = ctx[c]
    BY <1>1, <1>6 DEF WithResume
  <2> QED BY <1>6, <2>1
<1> QED BY <1>4, <1>5, <1>6

(* Every step keeps it.                                                    *)
LEMMA PauseStep ==
    ASSUME ReceiverInv, PauseInv, [Next]_vars
    PROVE  PauseInv'
<1>0. \A c \in Contexts : Sound(ctx[c]) /\ Carries(ctx[c], ctx[c])
  BY DEF ReceiverInv, ContextInv, Carries
<1>1. CASE UNCHANGED <<ctx, pending>>
  BY <1>0, <1>1, CourseKept
<1>2. CASE WorkerStep
  <2>1. ASSUME NEW c \in Contexts, ctx'[c].active
        PROVE  ctx[c].active /\ Carries(ctx[c], ctx'[c])
    <3>1. /\ CarriesOn(ctx[c], AfterDatagram[c]) /\ Sound(AfterDatagram[c])
          /\ AfterDatagram[c].active => ctx[c].active
          /\ ctx'[c] = Ticked(AfterDatagram[c], now)
      BY <1>2, WorkerCarriesOn
    <3>2. ctx'[c] = AfterDatagram[c] \/ ~ctx'[c].active
      <4> DEFINE a == AfterDatagram[c]
      <4>1. [a EXCEPT !.active = FALSE, !.outcome = "VerificationTimeout"].active = FALSE
        BY <3>1 DEF Sound, Shape, Fields
      <4> QED BY <3>1, <4>1 DEF Ticked, TimedOut
    <3> QED BY <2>1, <3>1, <3>2 DEF CarriesOn
  <2>2. pending' = pending
    BY <1>2 DEF WorkerStep
  <2> QED BY <2>1, <2>2, CourseKept
<1>3. CASE ConfigureStops \/ ConfigureSwaps \/ Stop
  <2>1. \A c \in Contexts : ~ctx'[c].active
    <3>1. CASE ConfigureStops
      BY <1>0, <3>1, StoppedSound DEF ConfigureStops
    <3>2. CASE ConfigureSwaps
      BY <3>2, UnstartedSound, ReceiverAssumption DEF ConfigureSwaps, Contexts
    <3>3. CASE Stop
      <4> DEFINE stopped == [c \in Contexts |->
                               IF ctx[c].active /\ ctx[c].outcome = "none"
                               THEN [ctx[c] EXCEPT !.outcome = "Stopped"] ELSE ctx[c]]
      <4>1. \A c \in Contexts : ctx'[c] = Stopped(stopped[c])
        BY <3>3 DEF Stop
      <4> SUFFICES ASSUME NEW c \in Contexts PROVE ~ctx'[c].active
        OBVIOUS
      <4>2. CASE ctx[c].active /\ ctx[c].outcome = "none"
        BY <1>0, <4>1, <4>2, StoppedByCallSound
      <4>3. CASE ~(ctx[c].active /\ ctx[c].outcome = "none")
        BY <1>0, <4>1, <4>3, StoppedSound
      <4> QED BY <4>2, <4>3
    <3> QED BY <1>3, <3>1, <3>2, <3>3
  <2> QED BY <2>1 DEF PauseInv
<1>4. CASE \E lead \in StartLeads : Start(lead)
  <2> PICK lead \in StartLeads : Start(lead)
    BY <1>4
  <2> SUFFICES ASSUME NEW c \in Contexts PROVE WithinRound(ctx'[c])
    BY DEF PauseInv, Start
  <2> DEFINE line == <<Segment(1, now + lead)>>
             u == Unstarted(PacketTotal[c])
             t == [u EXCEPT !.active = TRUE, !.timeline = line]
  <2>1. ctx'[c] = t
    BY DEF Start, Started
  <2>2. Len(line) = 1 /\ line[1].first = 1
    BY DEF Segment
  <2> HIDE DEF line
  <2>3. t.total = PacketTotal[c] /\ t.timeline = line /\ t.pauseAfter = 0
    BY DEF Unstarted
  <2> HIDE DEF t
  <2>4. LastLogicalInterval(PacketTotal[c]) \in Nat \ {0}
    <3>1. PacketTotal[c] \in Nat \ {0}
      BY ReceiverAssumption DEF Contexts
    <3> QED BY <3>1, IntervalCounts
  <2>5. \A n \in 1 .. Len(line) : line[n].first <= LastLogicalInterval(PacketTotal[c])
    BY <2>2, <2>4
  <2>6. 0 \in 0 .. LastLogicalInterval(PacketTotal[c]) - 1
    BY <2>4
  <2> QED BY <2>1, <2>3, <2>5, <2>6 DEF WithinRound
<1>5. CASE \E k \in Intervals, lead \in PauseLeads : RequestPause(k, lead)
  BY <1>5, PausePends
<1>6. CASE \E r \in Intervals, lead \in ResumeLeads : Resume(r, lead)
  BY <1>6, ResumePends
<1>7. CASE Tick \/ Network \/ WorkerEmits \/ ConfigureRejects \/ StopEmits \/ UNCHANGED vars
  BY <1>1, <1>7 DEF Tick, Network, EnqueueDatagram, WorkerEmits, ConfigureRejects, StopEmits,
                    vars
<1> QED BY <1>2, <1>3, <1>4, <1>5, <1>6, <1>7
        DEF Next, Worker, ControlCall, ControlProgress

(* Nobody runs at first.                                                   *)
LEMMA PauseInit == Init => PauseInv
BY ReceiverAssumption, UnstartedSound DEF Init, PauseInv, Contexts

(* A round whose last interval is held by a pause does not expire, and     *)
(* nothing but the deadline gives the outcome VerificationTimeout.         *)
LEMMA PausedIsSpared ==
    ASSUME ReceiverInv, PauseInv, [Next]_vars, NEW c \in pending, ctx[c].outcome = "none"
    PROVE  ctx'[c].outcome # "VerificationTimeout"
<1>0. c \in Contexts /\ Sound(ctx[c])
  BY DEF ReceiverInv, MembersInv, ContextInv
<1>1. CASE UNCHANGED ctx
  BY <1>1
<1>2. CASE WorkerStep
  <2> DEFINE a == AfterDatagram[c]
  <2>1. /\ CarriesOn(ctx[c], a) /\ Sound(a)
        /\ a.active => ctx[c].active
        /\ ctx'[c] = Ticked(a, now)
    BY <1>0, <1>2, WorkerCarriesOn
  <2> HIDE DEF a
  <2>2. a.active => ~Expired(a, now)
    <3> SUFFICES ASSUME a.active PROVE ~Expired(a, now)
      OBVIOUS
    <3>1. WithinRound(ctx[c]) /\ PauseOutstanding(ctx[c])
      <4>1. c \in pending /\ ctx[c].active
        BY <2>1
      <4> QED BY <1>0, <4>1 DEF PauseInv
    <3>2. /\ a.total = ctx[c].total /\ a.timeline = ctx[c].timeline
          /\ a.pauseAfter = ctx[c].pauseAfter
      BY <2>1 DEF CarriesOn, Carries
    <3>3. WithinRound(a) /\ PauseOutstanding(a) /\ Ranges(a)
      BY <2>1, <3>1, <3>2 DEF WithinRound, PauseOutstanding, Sound
    <3>4. HeldByPause(a.timeline, a.pauseAfter, LastLogicalInterval(a.total))
      BY <3>3, OutstandingHolds
    <3> QED BY <3>4 DEF Expired
  <2>3. Ticked(a, now) = a
    BY <2>2 DEF Ticked, Expired
  <2> QED BY <2>1, <2>3 DEF CarriesOn
<1>3. CASE ConfigureStops
  BY <1>0, <1>3, StoppedSound DEF ConfigureStops
<1>4. CASE ConfigureSwaps
  BY <1>0, <1>4 DEF ConfigureSwaps, Unstarted
<1>5. CASE Stop
  <2> DEFINE stopped == [x \in Contexts |->
                           IF ctx[x].active /\ ctx[x].outcome = "none"
                           THEN [ctx[x] EXCEPT !.outcome = "Stopped"] ELSE ctx[x]]
  <2>1. ctx'[c] = Stopped(stopped[c])
    BY <1>0, <1>5 DEF Stop
  <2>2. CASE ctx[c].active
    BY <1>0, <2>1, <2>2, StoppedByCallSound
  <2>3. CASE ~ctx[c].active
    BY <1>0, <2>1, <2>3, StoppedSound
  <2> QED BY <2>2, <2>3
<1>6. CASE \E lead \in StartLeads : Start(lead)
  BY <1>0, <1>6 DEF Start, Started, Unstarted
<1>7. CASE \E k \in Intervals, lead \in PauseLeads : RequestPause(k, lead)
  <2> PICK k \in Intervals, lead \in PauseLeads : RequestPause(k, lead)
    BY <1>7
  <2>1. ctx'[c] = ctx[c] \/ ctx'[c] = WithPause(ctx[c], k, now + lead)
    BY <1>0 DEF RequestPause
  <2> QED BY <1>0, <2>1, PausedSound DEF Unsettled
<1>8. CASE \E r \in Intervals, lead \in ResumeLeads : Resume(r, lead)
  <2> PICK r \in Intervals, lead \in ResumeLeads : Resume(r, lead)
    BY <1>8
  <2>1. ctx'[c] = ctx[c] \/ ctx'[c] = WithResume(ctx[c], r, now + lead)
    BY <1>0 DEF Resume
  <2>2. r \in Nat
    BY IntervalsAreNat
  <2>3. now \in Nat /\ lead \in Nat
    BY ReceiverAssumption DEF ReceiverInv, MembersInv
  <2>4. now + lead \in Nat
    BY <2>3
  <2>5. Unsettled(ctx[c], WithResume(ctx[c], r, now + lead))
    BY <1>0, <2>2, <2>4, ResumedSound
  <2> QED BY <2>1, <2>5 DEF Unsettled
<1>9. CASE Tick \/ Network \/ WorkerEmits \/ ConfigureRejects \/ StopEmits \/ UNCHANGED vars
  BY <1>1, <1>9 DEF Tick, Network, EnqueueDatagram, WorkerEmits, ConfigureRejects, StopEmits,
                    vars
<1> QED BY <1>2, <1>3, <1>4, <1>5, <1>6, <1>7, <1>8, <1>9
        DEF Next, Worker, ControlCall, ControlProgress

(* The deadline of a round never strikes a context behind an outstanding   *)
(* pause, whatever the other contexts, the network and the calls do.       *)
THEOREM PausedNeverTimesOut == Spec => NoTimeoutWhilePaused
<1>1. ReceiverInv /\ PauseInv /\ [Next]_vars => PauseInv'
  BY PauseStep
<1>2. ReceiverInv /\ PauseInv /\ [Next]_vars =>
          [\A c \in pending : ctx[c].outcome = "none"
                                => ctx'[c].outcome # "VerificationTimeout"]_vars
  BY PausedIsSpared
<1> QED BY <1>1, <1>2, PauseInit, ReceiverInvariant, PTL DEF Spec, NoTimeoutWhilePaused
=============================================================================
