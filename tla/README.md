# TLA+ models of the TESLA authentication system

The repository is a broadcast authentication experiment: a *Manager* prepares
and conducts rounds, *nodes* send authenticated datagrams to a multicast group
with the TESLA protocol and authenticate what they receive, *monitors* watch.
TESLA signs a packet of interval `i` with a key that is disclosed `d` intervals
later; a receiver may accept the packet only if it arrived before the disclosure.
Everything therefore rests on a shared timeline, which the Manager shifts with
pauses and resumes while threads, datagrams and commands are under way.

The models are about that timeline, about the threads of both runtimes, about who
reports the end of a round and how a node tells the Manager that the round has
drained, about the links between the processes, and about what is written on
them. TLC checks small instances; TLAPS proves what the sender, the receiver, both
together, the node runtime, the management server, the links and the group test have
to keep, for every value of the constants.

Paths below are relative to `src/src/`.

## 1. Inventory

| Component | State | Operations | Talks to | Module |
|---|---|---|---|---|
| Round parameters (`algorithm/AuthenticationRoundParameters`) | constants of a round | intervals, packets of an interval, keys disclosed | both runtimes | `AuthenticationRound` |
| Sender runtime (`algorithm/AuthenticationSenderRuntime`) | flags, pause/resume request, progress under `m_mtxState`; worker thread | configure, start, requestPause, resume, stop, fault plan; `run` | socket, result handler | `SenderRuntime` |
| Receiver runtime (`algorithm/AuthenticationReceiverRuntime`) | contexts (timeline, candidates, keys, verdicts), bounded queue, `m_mtxState`; worker thread | configure, start, requestPause, resume, stop, enqueue; `workerLoop` | socket, result, metric and observation handlers | `ReceiverContext`, `ReceiverRuntime`, `ImprovedReceiver` |
| Node runtime (`algorithm/AuthenticationNodeRuntime`) | current configuration and result archive under `m_mtxConfig` | dispatch of control messages to both runtimes | management server, both runtimes | `NodeRuntime` |
| Management server (`node/TcpManagementServer`) | three telemetry queues, pending drain, clients; accept, client, broadcast and drain threads | accept, answer, enqueue, broadcast, drain acknowledgement, stop | Manager, monitors, node runtime | `ManagementServer`, `ServerClients` |
| Node agent (`node/NodeAgentService`) | wiring; start and stop order | start, stop | all of the node | - |
| Discovery (`node/UdpDiscoveryService`) | socket, descriptor; one thread | scan answer, heartbeat | Manager | `Discovery` |
| Multicast channel, clock query (`node/`) | socket | send, receive | runtimes | network of `TeslaRound`, `ClockTolerance` |
| Manager round coordination (`gui/manager/ManagerAuthenticationController`) | prepared round, pending requests, result keys, drained nodes | prepare, fault plan, start, pause, resume, stop, process answers | network controller | `ManagerRound`, `TeslaRound` |
| Manager network controller (`gui/manager/ManagerNetworkController`) | endpoints, connections, heartbeats, uploads | scan, connect, send, upload pump, offline check | nodes | `Discovery`, `FileTransfer` |
| File upload (`algorithm/FileUploadSession`) | chunks received | begin, chunk, finish | node runtime | `FileTransfer` |
| PC node (`gui/pc_node/`) | Qt sockets, send queue, upload threads | host a node runtime, write datagrams | Manager | `PcSendPath`, `FileTransfer` |
| UAV monitor (`gui/uav_monitor/`) | one connection, two stores, timers | connect, poll, reset, refresh | one node | `MonitorLink` |
| Fault injection (`algorithm/AuthenticationFaultInjection`) | plan | drop, delay, alter a datagram | sender runtime | in `SenderRuntime` |
| Improved mode (`algorithm/ImprovedTesla*`, `KsRsMatrix`, `SamdAggregator`) | group of packets | group MACs, location of bad packets | runtimes | `KsRs`, `GroupLocation`, `ImprovedReceiver` |
| Protocol messages and JSON codec (`protocol/`) | none | construct, encode, decode | all | `ControlMessages`, `ControlCodec` |
| Packet codec (`protocol/UdpAuthenticationPacketCodec`) | none | encode, decode | runtimes | `PacketCodec` |
| TCP framing (`protocol/TcpFrame`) | stream buffer | append, cut frames | all | `TcpStream`, `FifoChannel` |
| Native mode, MAC, encoders, key chain, crypto, workloads | none | pure functions of bytes | runtimes | abstracted |
| Observations, metrics | bounded histories | append, snapshot | monitors | fields in `ControlMessages` |
| Windows, attack tool (`gui/`) | Qt widgets | display | Manager, PC node | buttons in `ManagerRound` |

Behaviours that are hard to test: control calls at any point of a worker thread;
results handed out after a lock was released; a pause computed from one clock and
carried out by another node; commands that reach some nodes only; datagrams that
are lost, repeated, late or altered; queues at their limit; a worker that sleeps
while another thread waits for it; connections that break between two messages;
shutdown in the middle of any of these. `PROJECT.json` lists each at its line
under `hazards`, with the properties that would notice it.

What makes each part correct:

* sender: in the first round of a key chain keys never precede their data, nothing leaves before its time or from
  behind a pause, a round ends with the report of its own outcome, every control
  call returns;
* receiver: verdicts follow the keys without gaps, `Completed` means complete and
  authentic, one result for a round, no timeout inside a pause, no endless round;
  in the improved mode a group's verdicts name exactly the bad packets, as long as its
  fast tag is the sender's;
* both together: whatever is stored arrived before its key was disclosed;
* node runtime: a round command is carried out by both runtimes or undone, every
  result is handed out with the fault it ran under, every call returns unless joins of
  one thread overlap;
* management server: a drain is acknowledged when, and only when, everything
  has been written; no telemetry queue starves; answers come in order; stop returns;
* Manager: a round is complete exactly when all results and all drain
  acknowledgements of *this attempt* are in; no answer is waited for for ever;
* links: nothing queued is stranded, an upload is taken whole or not at all, a
  living node stays connected, a silent one is given up, a monitor has no holes but what
  a full queue or store gave up;
* formats: what one side writes the other reads, and nothing else passes for it.

## 2. Modules

```
AuthenticationRound              the plan of a round (pure operators)
  Timeline                         when intervals begin (segments, pauses)
    SenderSchedule                   abstract: what a sender promises
  SenderRuntime                    the sender's worker and its control calls
    SenderRefinement                 SenderRuntime implements SenderSchedule
      MCSenderRuntime                  three callers
        SenderRuntimeProofs              keys behind data, pauses, reports, results,
                                         and the refinement
  ReceiverContext                  one trusted sender at the receiver (pure operators)
    AuthenticationRoundProofs        lemmas about the plan, for both runtimes, and
                                     that each operation keeps a context sound
    ReceiverRuntime                  queue, worker, contexts, control calls
      ReceiverRuntimeProofs            inductive invariant: results, verdicts
      MCReceiverRuntime                four surroundings
    TeslaRound                       Manager + SenderSchedule + receiver + network
      TeslaRoundProofs                 the security condition for all constants
      MCTeslaRound
  PacketCodec                      datagrams of both modes
  ImprovedReceiver                 verdicts group by group (with KsRs)
KsRs                             the test matrix of a group (pure operators)
  GroupLocation                    the verifier over patterns of damage
NodeRuntime                      dispatch, configuration lock, archive
  NodeRuntimeProofs                inductive invariants: fault plans, stops, reports
  MCNodeRuntime
ManagementServer                 telemetry queues, round drain, shutdown
ServerClients                    connections of the same server
  MCNodeServer                     both halves
    NodeServerProofs                 inductive invariants: answers, limits, drain
ManagerRound                     the Manager and its participants
  MCManagerRound
PcSendPath, FileTransfer, Discovery, MonitorLink
  MCLinks                          one of the four links at a time
    LinkProofs                       inductive invariants of all four, and of ManagerRound
FifoChannel                      abstract: what a connection promises
TcpStream                        frames in a stream of bytes, implements FifoChannel
ControlMessages, ControlCodec    control messages and their JSON
  MCFormats                        TcpStream, ControlCodec, PacketCodec, GroupLocation
                                   and ImprovedReceiver, one at a time
    FormatProofs                     polynomials and the matrix; inductive invariants
                                     of all parts but ControlCodec
```

`MCLinks`, `MCFormats` and `MCNodeServer` hold components that share no state: a
variable (`part`, `half`) is chosen in the initial state, the behaviour is one of
that component, and the variables of the others keep their initial values. A
liveness property of a part is stated under `part = ...` and its fairness names
that part's own variables. Operators named like `PauseDueOneLate`, introduced by
"Defect:", are plausible bugs; nothing uses them except the mutants of
`PROJECT.json`, which show that each property notices one.

**AuthenticationRound.** `Datagram(total, i, n)` is the n-th datagram of interval
`i`: its packet (0 for a disclosure only) and the key it discloses. The first
datagram of an interval carries the key of interval `i - DisclosureDelay`.

**SenderRuntime.** The first group of variables are the members under
`m_mtxState`; `pc` and the other locals are those of `run`; `ctl` is the one call
of start, stop, configure or reset in progress, split where it joins the worker,
reports, clears flags and applies. Each critical section is an action, so every
point where the lock is free is a state. `requestPause`, `resume` and the fault
plan may come at any of them. A worker may be late by any amount: no action
forces it to run before the next tick. Interval differences wrap at `WordModulus`
(2^32 in the code). `chain` is the history of the configured key chain: the run that used it first
and the keys sent since; `configure` begins a new one or, when only the payload is
replaced, keeps it, and `start` always keeps it.

**SenderSchedule, SenderRefinement.** The abstract sender has a timeline, a pause
that took effect and the interval it has reached. It sends only datagrams of
that interval, not before its start, never from behind the pause. The mapping takes
`timeline` from a history variable that records the segments and `hold` from the
pause that was accepted in time. The premise of `RefinementSpec` is that pauses
and resumes alternate: a second pause while the worker is paused changes the
boundary that `resume` compares with, and the new segment would then begin at the
wrong interval.

**ReceiverContext.** `ReceiverState` as a record, and what one datagram, one
control call or one deadline makes of it: time safety (`bIsPacketTimeSafe`),
baseline and candidate versions of a packet, keys recovered from a later key,
verdicts of an interval, the final status. A payload is one of `genuine`,
`badMac`, `badKey` and `undecodable`.

**ReceiverRuntime.** The contexts, the queue and the two batches of results that a
thread holds after it has released the lock (`workerBatch`, `stopBatch`).
`configure` is split where it works with two separate locks (`swapping`).

**TeslaRound.** The Manager's commands travel to each node in order but at any
speed, a broadcast may miss a node, datagrams may arrive any number of times in
any order or never, and the receiver's clock is off by up to `ClockTolerance`.
The sender is `SenderSchedule`, whose implementation by `SenderRuntime` is proved;
the receiver is `ReceiverContext`.

**NodeRuntime.** The messages of `msgHandleControl` in as many threads as there are
clients, and the thread that shuts the service down. `lock` is `m_mtxConfig`; a call
stops wherever it takes or releases the lock, stops a runtime or joins its worker.
The two runtimes are reduced to what their own modules show of them: a worker that
ends, reports its result and exits, a call that joins it. A result is handed out
by looking it up in `archive`, which needs the lock. `AuthenticationSenderRuntime::stop` asks
`joinable()` and calls `join()` without a lock. Two threads there at once are a data race: the
model lets it go well, each going on when the worker has ended, or end the process
(`JoinsOverlap`, after which nothing happens, `terminated`).

**ManagementServer, ServerClients.** The server in two halves that share only
`m_bRunning` and `stop`. The first has the broadcaster (`monitorBroadcastLoop`)
with its batch wait, during which the lock is free, and the drainer
(`roundDrainLoop`) with its three separate looks at runtimes, queues and pending
round; the runtimes appear in the order in which they call in. The second has
the accept thread, a thread per client that reads frames and answers, clients that
leave or cease to read, the answers of monitors that go through the broadcaster,
and the closing of sockets at `stop`.

**ManagerRound.** One Qt thread, so each handler is one action: preparation with
its requests in order, fault plan, start with its roll back, pause, resume, stop,
answers, results, drains, and the loss of a connection. Links keep order and lose
what is under way when they break. The participants are contracts of the node
modules: they answer every request and, once started, report and drain. Its theorems
are in `LinkProofs`, with those about the other links between processes.

**PcSendPath** is the queue between the sender's worker and the Qt thread of a PC
node with the results that wait for it; a `RoundStart` forgets the mark of a failed
write when the queue is empty, whatever runs and whether or not the runtime then
refuses it. **FileTransfer** is a file in chunks with the
Manager's pump, the connection, the node's session and the thread that applies
it. **Discovery** is a node's heartbeats and the Manager's endpoint with its offline
check. **MonitorLink** is the monitor's connection, its poll timer and its stores, and the node's
metric queue with its broadcaster: what the queue has no room for is dropped, and a
full store gives up what it has held longest.

**TcpStream** cuts frames from bytes that arrive in pieces; bytes are digits of a
small base, the prefix has two of them. It implements **FifoChannel**.
**ControlMessages** has every message type with its fields and what the constructor
demands; **ControlCodec** what the reader asks for, key by key, and what
becomes of a message that lost a key or carries one of another JSON type.
**PacketCodec** has the datagrams of both modes, whose layout both sides derive
from the packet index. **KsRs** is the KS+RS matrix with its verifier,
**GroupLocation** its inputs, and **ImprovedReceiver** the receiver of the improved
mode, with fast tags, taus and rival copies. From the time the key of a fast tag is
public, the end of a group may come with a tag that was made again (`remade`).

## 3. Runs

Distinct states are those of one complete run; the four violations stop early.

| Run | Question | States |
|---|---|---|
| `SenderRound` | the sender under three callers | 4 877 000 |
| `SenderErasedPause` (violation) | a pause during an outstanding resume | |
| `ReceiverRound` | the receiver in four surroundings | 980 000 |
| `TeslaRound` | the security condition while nodes agree | 814 000 |
| `TeslaLatePause` (violation) | the same without the premise | |
| `NodeRuntime` | calls of two threads, both runtimes, archive | 252 000 |
| `NodeArchiveDeadlock` (violation) | a payload during the report of a result | |
| `NodeServer` | both halves of the management server | 291 000 |
| `ManagerRound` | rounds over two nodes | 279 000 |
| `ManagerPcRound` (violation) | the same with a PC node | |
| `Links` | four links | 611 000 |
| `Formats` | five formats | 483 000 |

**SenderRound.** *Any*: two rounds of two packets in one interval, on one key chain or on two, one
pause, a fault plan, start, configure and stop at any point, three ticks. *Planned*: two packets in
two intervals and two pauses, the worker late by any amount, calls other than
pause and resume between the rounds only (`PlannedScheduleKept`). *Punctual*: one packet,
one pause; the clock runs at most one tick (`Lag`) ahead of what the worker waits for
and no call comes after `LastCall`, so that the horizon `MaxTime` never is what ends
a wait (`WorkerMovesOn`). `EarlyPauseHonoured` is stated for a pause that was
accepted ahead of the worker with no resume outstanding; `NoDataAfterKey` for the first
round of a chain, see below; `ResultsStayTrue` allows one
second result, the `Stopped` of a stop that overtook a `Completed`.

**ReceiverRound.** *Hostile*: two packets in two intervals, all four kinds of copies
in any order and number, two versions of a packet (four in the code), two ticks of
reserve. *Pair*: two contexts of different length and a pause one of them may refuse.
*Calls*: short rounds that are started, replaced, paused, stopped and configured at
any time up to `LastCall`, with two pauses, one of which may come behind the
timeline. *Fair*: one such round with fair threads. The queue holds
one datagram: the worker may take arbitrarily long before it looks at it, and
what does not fit counts as lost.

**TeslaRound.** Two packets in two intervals of two ticks, a pause and a resume, skew of
one tick either way, eight ticks, four versions. `SafeWhileAgreed` has the premise
the code needs: the sender carried out every pause, the receiver took every
resume, no command is under way. Nothing depends on absolute time, so the round is
ordered at tick 0 (`OrderedAtOnce`).

**NodeRuntime.** One client and the service, two own chains and a peer chain, two
rounds, five calls, from an unconfigured and from a prepared node. Its premise
(`PreparedSpec`) is that payloads are set between rounds, which the Manager keeps
(`PrepareEnabled` of `ManagerRound`) and without which the node deadlocks
(`NodeArchiveDeadlock`), and that a shutdown does not meet a start. It may meet a stop
of the client; if both are in the join of the sender's worker, the process may end, which
`EveryCallAnswered` and `AllReported` except.

**NodeServer.** *Connections*: a Manager with one and a Monitor with two requests, the
Monitor may cease to read, room for one or two clients, stop anywhere. *Telemetry*:
queues of one event, two metrics and one control message, batches of two, two
rounds with a stop in the first one or none. *Answers*: one round and a request
of a monitor. The node is a receiver; for one that is both see below.

**ManagerRound.** Two nodes, one of them sender, a test tool, and budgets that are split
over the initial states: two preparations with a fault plan and a broken link; a round
with two commands and a broken link; two rounds with a command. `EveryRoundEnds` is claimed while
no link breaks, nothing is refused and nobody leaves the round paused.

**Links.** *Send path*: three datagrams, a queue of three, batches of two, two rounds, one
stop of the node. *Upload*: two requests of three chunks, a backlog of two chunks and the
end, two connections, one restart. *Discovery*: heartbeat 1, offline after 3, one presence
lost in a row, two addresses, a Manager that moves. *Monitor*: two nodes, three records, a
queue of one and stores of two, a display reset, two connects.

**Formats.** *Stream*: three frames of six payloads, lengths up to the limit, every
cut. *Control*: every message type, every shape of its optional parts, fields at
and beyond their limits one at a time; one key lost or retyped. *Packet*: four rounds of both modes
with full and shorter last intervals, two changes of a datagram. *Group*: five small
groups with every pattern of damage, a group of 100 with neighbours, one residue and
packets far apart. *Improved*: five packets in groups of four, threshold one, every loss and
damage, one rival copy, delay two, so that a fast tag may be made again before its group
is judged.

Why the bounds are enough: two intervals and delay 1 already give an interval
with data and a key, one with a key only, and a pause before, between and behind
them; a second round shows what a first one leaves behind; a queue of one or two
is empty, partly filled and full; one tick of skew on an interval of two makes a
packet safe, doubtful or late; two nodes are enough for one to miss what the other got.

`CHECK_DEADLOCK FALSE` is used everywhere because a bounded clock, a finished
round or a stopped server really is the end.

### What the violations show

* `SenderErasedPause`: the worker clears `m_bPaused` and waits for the time of the resume; a pause
  that comes now is accepted. When the time is reached the worker resets
  `m_optPauseAfterInterval`, whatever it holds by then. In the run interval 1 is
  paused and resumed with interval 2, a pause behind interval 2 is accepted during the
  wait, and interval 3 is sent all the same. The Manager allows the next pause as
  soon as the resume command is out, up to two seconds earlier.
* `TeslaLatePause`: `requestPause` accepts the interval in progress although the
  worker has passed its comparison. The sender goes on and discloses the key; a
  receiver that knows of the pause calls the packets behind it safe.
* `NodeArchiveDeadlock`: a payload is configured under `m_mtxConfig`, `configure`
  joins the sender's worker, and that worker takes `m_mtxConfig` to archive its result.
* `ManagerPcRound`: a PC node never sends `ROUND_DRAIN_ACK`, for which the Manager waits;
  a round with a PC node runs until the operator stops it.

### Seen while modelling, without a run of its own

* `start` leaves the sender configured and `ROUND_START` asks for no more than that
  (`algorithm/AuthenticationNodeRuntime.cpp:1117`), so a second start without a configuration
  sends data under keys its first round has published. `NoDataAfterKey` without the
  premise `run = chain.first` is violated. The Manager's window demands a new preparation
  after each start (`StartEnabled` of `ManagerRound`), so only another client can do it.
* `stop` of the sender joins its worker without a lock (`algorithm/AuthenticationSenderRuntime.cpp:435`),
  from the threads of clients and from `NodeAgentService::stop` (`node/NodeAgentService.cpp:305`).
  Both may find the thread joinable; the second `join` is undefined and, when it throws, leaves a
  function that is `noexcept`.
* A `ROUND_START` that comes while a round of a PC node is sent, or while its result waits, wipes
  the mark of a failed write (`gui/pc_node/PcNodeNetworkController.cpp:895`), also when it is
  refused; the round may then be told as `Completed` with datagrams missing.
  `NoDatagramStranded` leaves such a round out (`wiped`).
* A monitor that reads slowly misses metrics: a full queue drops them
  (`node/TcpManagementServer.cpp:421`) without telling the monitor.
* The fast tag of a group that ends in interval `i` has the key of `i - d + 1`
  (`algorithm/AuthenticationRoundParameters.cpp:141`), which is public from interval `i + 1`, while
  packets of interval `i` are accepted until `i + d`. With `d = 1` the two meet; above that
  a fast tag that arrives late is no evidence, and the fast path believes it.
  `VerdictsAreExact` without `TaggedBySender` is violated at the delay of the run.
* A pause that is accepted while the resume of the one before is outstanding and the worker has
  not begun to wait has no effect: `run` finds the resume already there and goes on at once.
* A node that is sender and receiver may acknowledge the drain between the
  receiver's cleared flag and its summary (`node/TcpManagementServer.cpp:628`);
  `DrainWritten` is claimed for a node with one role.
* A stop while the broadcaster waits for a fuller batch clears the queue, and the empty batch
  throws out of the thread (`:512`, `:545`; position `terminated`). The liveness
  properties of the telemetry are claimed while the thread lives.
* `stop` notifies without the drainer's lock (`:265`); a drainer about to sleep
  misses it (`DrainerSleeps` after `NotifyDrainer`). `StopReturns` is therefore asked of
  the connections.
* When a PC node stops, the upload threads it means to join are no longer in its map
  (`gui/pc_node/PcNodeNetworkController.cpp:406`, against the comment at `:420`);
  `FileTransfer` takes what the code does (`StillInMap`).
* The JSON reader takes a boolean or a fraction for a number, as the library does;
  `LostFieldIsNoticed` leaves those out.

* `findBestParameters` (`algorithm/KsRsMatrix.cpp:217`) takes as many evaluation points as
  digits plus twice the threshold. Two positions share at most `digits - 1` rows, so
  `threshold` damaged packets leave every other one a row only if
  `threshold * (digits - 1) < points`. Up to three digits that is so. The Manager's window offers
  groups up to 10000 and thresholds up to 1000 (`gui/manager/ManagerMainWindow.cpp:440`), and
  from 2198 positions and threshold 4 on (field 13, four digits, twelve points) it is not.
  `GroupLocation` with size 5000, threshold 4 and altered positions 2209, 2210, 2349, 4254
  violates `LocatesExactly`: position 0, which is genuine, has no row of its own, is called bad, and the
  threshold is announced as exceeded, against `algorithm/KsRsMatrix.h:22` ("可容忍或定位的异常位置门限").
  No altered packet passes there either.
* With fewer data intervals than the disclosure delay no round can start: `buildDatagrams` asks
  for a disclosure of an interval without key, and the encoder throws. The round
  parameters accept such a plan (`algorithm/AuthenticationRoundParameters.cpp:63`).

### Fairness

* Sender: weak fairness of the worker, of the call in progress and of the clock. The
  threads are ordinary OS threads; every wait of `run` has a deadline or is notified.
* Receiver: the same; `workerLoop` wakes every 25 ms even when nothing arrives.
* Node runtime: worker of each runtime and each call. A call that waits for
  `m_mtxConfig` needs no more than weak fairness, because each holder is fair and
  the number of calls is finite.
* Management server: broadcaster, drainer, `stop` and the steps that report the end of a
  round; accept thread, client threads, writer. A write to a monitor that ceased to
  read has no timeout: only closing the socket ends it. No fairness makes a round end.
* Manager: its Qt loop takes what has arrived, nodes take what they are sent, report
  and drain. No fairness of the operator.
* Links: worker and event loop of the PC node; socket writes and reads; upload threads;
  heartbeat and offline timers, discovery datagrams that are not lost; the poll timer.

## 4. Proofs

Every theorem holds for all constants that satisfy `RoundAssumption`,
`SenderAssumption`, `ContextAssumption`, `ReceiverAssumption`, `TeslaAssumption`,
`NodeAssumption`, `ServerAssumption`, `ConnectionsAssumption`, `LinksAssumption`,
`NodesAssumption`, `FieldAssumption`, `LocationAssumption` and `FormatsAssumption`:
positive counts and natural numbers of ticks; no bound on rounds, pauses, packets
or contexts beyond being numbers. `LinksAssumption` also says that the backlog of an
upload has room for a chunk and the end (256 KiB, `gui/manager/ManagerNetworkController.cpp:34`),
and that the offline timeout (3 s) is longer than one heartbeat (1 s) more than may be lost in a
row takes. `TeslaAssumption` also says that the clocks differ by no
more than the tolerance, that the tolerance (5 ms, `node/SystemTimeSynchronization.cpp:42`) is
no larger than the lead the nodes demand (`StartLead`, 100 ms) and that the Manager gives
some notice. It bounds neither the horizon `MaxTime` nor the pauses. `FormatsAssumption` and
`LocationAssumption` say that a matrix exists for each group (otherwise the constructor of
`KsRsMatrix` throws and there is no round), that thresholds lie below the group size, that a plan
has no fewer data intervals than the disclosure delay (otherwise the encoder throws, see
above), that a length fits its prefix, and that chunks of a file are numbered from 1 and not empty.

**The plan** (`AuthenticationRoundProofs`): how intervals cover the packets, how many
datagrams an interval has, and that a datagram of interval `i` discloses the key of
`i - DisclosureDelay` or none. Both runtimes rest on it.

**The sender** (`SenderRuntimeProofs`): `SenderInvariant`, `SenderTyping` and `SenderRule`,
that is `NoDataAfterKey`, for the first round of each key chain. It is not inductive: it
speaks of the datagram sent last and the keys of the chain sent so far, and the next datagram depends on where the worker is. `SenderInv`
adds `DisclosureInv` (while the worker lives, each disclosed key is
at least `DisclosureDelay` behind its interval, so a data packet meets only smaller
keys), `WorkerInv` (at each place of `run`, interval and index are those of a datagram
that exists) and `ControlInv` (a call that reports, clears or applies has joined the
worker, so `start` resets the round when no worker is left that could send). In the first round of a
chain the keys of the chain are those of the round.

**What the sender promises** (`SenderRuntimeProofs`): `PausesAreHonoured`
(`EarlyPauseHonoured`) with `PauseInv`, which follows an early pause through the
worker's positions until its resume; `RoundsAreReported` (`EveryRoundReported`)
with `ReportInv`, which says who owes the report of the round at each point of worker
and call; `ResultsAreTrue`, an action property, with `CountInv` (packets sent so
far at each position) and `ResultInv` (the results of a round so far).

**The sender implements its schedule** (`SenderRuntimeProofs`): `SenderKeepsSchedule`,
`RefinementSpec => Schedule!Spec`. `TimelineInv` says that the segments follow one another
in interval and time and that the last one is the one the worker computes its
times from, or will be after the resume it waits for; `FollowInv` ties the worker's interval
to the abstract `reached` and the accepted pause to `hold`. The hard step is a
transmission: `SegmentFollowed` and `InTime` show that the worker's sum of segment
start and interval length is the abstract start of the interval. `PlannedKept`
(`PlannedScheduleKept`) is the same for the planned caller of `MCSenderRuntime`, whose
steps are all steps of `RefinementSpec` (`PlannedStep`).

**The receiver** (`AuthenticationRoundProofs`, `ReceiverRuntimeProofs`): a context is `Sound`
when its keys form an unbroken walk from the first, a packet is judged exactly when its
key was verified and as its MAC deserves, and a completed round holds every packet,
passed. One lemma for each operation shows that it keeps this and how it may end
the round (`Settles`, `Unsettled`). `ReceiverInv` adds that the three places of a result -
context, batch of worker or stop, handler - never hold two of one round
and hold one as soon as it is over; without the batches this would not be inductive, since
the context is closed under the lock and the handler called after it. From it follow
`ReceiverTyping`, `ReportedOnce`, `ReportedAtAll`, `VerdictsFollowKeys` and
`CompletedMeansComplete`. `PausedNeverTimesOut` (`NoTimeoutWhilePaused`) is an action
property and needs more: the timeout does not look at the pause but asks whether the
last interval of the round is held, so `PauseInv` says that the segments of an active
context and its pause lie within its round (`WithinRound`; the reason is in `RefusesPause`
and `RefusesResume`), and `OutstandingHolds` that a pause behind which no segment
begins then holds the last interval. `CarriesOn` is the lemma's worth of each datagram:
it may end a round, but not by a timeout and not by moving its timeline. The attempt
showed that the property had been too strong and true only while one pause was allowed:
`requestPause` accepts an interval behind the last segment, and such a pause holds
nothing (`algorithm/AuthenticationReceiverRuntime.cpp:387`). `pending` leaves it out, and
the run now has two pauses.

**A round end to end** (`TeslaRoundProofs`): `SafeWhileAgreedHolds`, the security
condition of TESLA for sender, receiver, Manager, network and clocks together, and
`NothingPendingHolds`. They are about `Spec`; the run's `MCSpec` only fixes when the round is
ordered. A stored packet is on time because the receiver
computes the disclosure of its key from a timeline that the sender also follows, but at any
moment each node has worked off another part of its commands. `RoundInv`
therefore compares plans, the segments a node has taken up or is yet to be told of: the
receiver plans what the sender plans (`Agreement`), later segments never begin before
earlier ones would have reached them (`Spaced`, from the way the Manager
computes the time of a resume), the sender is told of a pause whenever the receiver is
(`Pausing`), and when a key is disclosed, the interval `DisclosureDelay` after
its own has begun by every segment of the sender (`Disclosing`, `Stamped`). The
invariant has to admit states in which a late packet was stored: the receiver may know of
a pause that the sender has passed and not read yet. `LateMeansDoomed`
shows that this is the only way, or its counterpart with a resume the receiver has
not read yet: the command in question is still in a queue (`Doomed`). When it is taken the nodes have
split; while it is not, they do not agree.

**The formats** (`FormatProofs`). What the code computes in loops is a recursive function in the
model. The library's induction theorems take an operator and cannot be used; `Induction` is about a set
of numbers instead and follows from the least member of a set (`Least`), so that what the
loops compute can be proved after all.

* *The matrix.* A column is a polynomial over a prime field, and a row holds the columns with one
  value at one point. `ManyRoots`: a polynomial of `n` coefficients that vanishes at `n` points is
  zero, by division by `x - r` (`QuotientType`, `Factor`) and because a prime divides a product
  only through a factor. Hence two positions share fewer rows than a column has
  digits (`FewAgreements`), and a genuine packet keeps a row to itself if
  `threshold * (digits - 1) < points` (`Separates`). With `MatrixSensible` for what
  `findBestParameters` returns, `LocatedExactly` (`LocatesExactly`) follows for every group, threshold and pattern of
  damage. The hypothesis is necessary: the code's choice does not always meet it, see above.
  It does with up to three digits (`ThreeDigitsSeparate`), thus for groups up to
  `(2 * threshold + 1)^3`, and for all groups the window offers with thresholds up to 3
  (`ReachSeparates`); `LocatedWithinReach` says it in these terms. `NeverPasses`
  (`NoBadPacketPasses`) needs no matrix at all.
* *The improved receiver.* `ImprovedInv`: the known keys are published, and a group that was judged
  is settled: each packet of it that is absent is no longer time-safe, so it can never be stored,
  and the verdicts are those of the copies there are. A group is judged with the key of
  its end, and that key is published only after all its packets have ceased to be
  safe; this is why later datagrams change nothing. A fast tag that was made again is stored
  only when its key is public and the packet still safe (`TagsInTime`), which never happens with a delay
  of one. `SafeVerdicts`, for every matrix: where the stored tag is the sender's no altered packet
  passes and an excess is announced, and no verdict stays open. `ExactVerdicts` (`VerdictsAreExact`), and `ExactWithinReach` in
  terms of sizes: up to the threshold no genuine one fails either.
* *Datagrams.* `DatagramInv`: what is on the way is the encoding of the packet until it is
  damaged, and the answer is what the decoder makes of it. The decoder knows the length of each field from
  the trusted plan; `JoinWhereCut` and `CutWhereJoined` show that cutting by these lengths and
  joining are inverse, whatever the fields hold.
* *Frames.* `StreamInv`: on an open connection the bytes held and under way spell
  exactly the frames written and not handled (`Spells`), however they were cut; the
  loop of `batConsume` keeps this turn by turn (`TurnFollows`) and has an end within one turn per
  byte. From it follow `ChannelOfFrames` (`FramesInOrder`), the refinement of `FifoChannel`,
  and with `DatagramInv` `BytesRead` (`BytesMeet`).

The attempt changed the model where it could not be reasoned about: loops of `KsRs` and
`TcpStream` are recursive functions turn by turn (`Capacity`, `Remaining`, `SymbolAfter`, `After`), the
constants of the formats have assumptions, and what `MessagesMeet` said of frames is
part of `BytesMeet`.

**The node runtime** (`NodeRuntimeProofs`). `FaultNoted` (`FaultIsNoted`) holds for any
set of clients: `FaultInv` says that a fault plan in the sender belongs to the payload
configured last and is noted for its chain, and it survives only because
configuration and payload are exchanged under the lock after the worker was joined;
`LockInv` and `Proper` say so.
The other three need one Manager (`Clients = {m}`), next to the agent that stops the node:
with two, TLC finds `RefusedStartIsUndone` and `PauseHoldsBoth` violated, because one
Manager can start a round while the refused start of the other is answered. The server lets any
number of clients introduce themselves as Manager; the system is meant to have one, and one
thread per connection carries out its calls in turn. `RefusedStartUndone`
follows what a stop has achieved by each of its places (`UndoneInv`), also when the
agent's own stop overlaps with it, and `PauseHolds` what a pause has (`PausedInv`).
`EveryRoundAccounted` (`AllReported`) is about `OrderlySpec`: no shutdown meets a start, the
premise of the run as well. `OwedInv` names for each result that was neither
seen nor given up the one who owes it: an active context, the receiver's batch, the sender's worker,
or the thread that joins that worker and reports in its place. A process that overlapping joins have
ended is not quiet; where they go well, the invariant covers each interleaving of the two.

**The management server** (`NodeServerProofs`). `ConnectionsInOrder` and `AnswersKeepOrder`
(`AnswersInOrder`): the replies of a connection are 1, 2, 3, ... For an open connection
there is a number `h` of requests handed over such that the answers written, the one in
the writer's hands and those queued for this client are exactly 1 to `h`, the thread has
`h + 1` or nothing, and the inbox has exactly the rest (`Chain`); inbox and queue are sorted.
`stop` clears the queue, but nobody writes to a Monitor after that (`InStep`).
`NothingOutlivesStop` and `ServerWithinLimits` come from the same invariant.
`TelemetryWrittenFirst` and `DrainIsWritten` (`DrainWritten`): the drainer looks at runtimes, queues
and pending round at three moments, none under a common lock. `DrainInv` records what each look
has established, and `OutstandingStep` that a round with nothing outstanding never gets
anything again, so that looks at different moments add up. The premise is a node with one role
(`Roles = {the}`), as in the run; with two the property is false, see above.

**The links** (`LinkProofs`), each with an invariant of its own, kept by its own steps and
untouched by those of the other parts:

* `DatagramsDelivered` (`NoDatagramStranded`). Worker and event loop hand the duty to drain
  to one another, and between them lie posted calls: `DutyHeld` says that while the
  flag `m_bAuthenticationSendDrainScheduled` is set, a drain is posted, about to be posted or
  writing. `RoundsAccounted` says that the datagrams sent so far, and all those of a round
  whose `Completed` is posted, are queued, in the writer's batch or written, unless
  the fault is noted or was wiped by a `RoundStart` (`wiped`); since the verdict comes after the queue ran empty, a client that
  hears `Completed` may rely on the socket. It holds only while a client is
  connected, which is why `ClientHeld` is needed: `stop` drops the queue after it has
  dropped the client.
* `FilesArriveWhole` (`AcceptedUploadIsWhole`). A session that is active holds the first
  chunks of its upload in their order, because the node refuses an index out of turn, and a
  preparation thread has the whole file; this needs no statement about what
  is on the wire. The limit of the backlog needs the arithmetic of the pump
  (`PumpWithinLimit`): a chunk is written into an empty socket or one with room for it.
* `LivingNodeIsKept` (`LivingNodeStaysConnected`). `HeardFrom`: the time for which
  the Manager has not heard of a node within reach is at most the lost heartbeats and the
  part of the present interval that has passed, or the last heartbeat is still under way.
  With at most `MaxLosses` in a row that is less than the timeout.
* `NoMetricIsMissed` (`MetricsWithoutHole`). The snapshot and the events reach the monitor on
  one connection, a record may also wait in the node's queue, and the node counts on while they
  travel. `MetricsMeet`: what is held, queued and under way are together what the node has produced
  but for what was given up (`lost`), and after each
  message behind the snapshot there is no other hole (`Meets`). Queue and wire carry records
  in the order of their numbers (`QueuesInOrder`). It holds because the node
  handles the hello before the snapshot (`OpeningRequests`); in the other order a record may
  fall between them.

The attempt made one property stronger and one definition simpler: `LivingNodeStaysConnected`
had asked for a presence received after the start, with a variable for it, and does without:
`HeardFrom` shows that the timeout alone gives the node the time it needs; the pump of an upload was recursive and is now the number of
chunks that find room (`Fitting`), about which something can be proved.

**The Manager and its participants** (also `LinkProofs`). `StartsOnPlan` (`StartsAsPlanned`) and
`CompletionEarned` (`CompletionIsEarned`), for any finite set of endpoints, any choices of
Senders and any budgets; the run has two nodes. Both come from `ManagerInv`:

* Rounds and plans are numbered, downwards because the model takes the numbers from its
  budgets. `NumberInv` says that whatever is on a link or remembered by a
  participant is older than what is still to come, and `Ordered` that a
  link carries it in the order of its numbers. This is what the round in each message is
  good for: what is left of an earlier attempt cannot be mistaken for this one.
* `HeldInv` and `AllAccounted`: unless an answer was a refusal, each request of the
  preparation is open or held by its participant, and an answer that consents is
  on its way only while the node holds the request, for no newer request can have
  replaced it. So `m_bRoundReady` is deserved. `PlanInv` and `PlanInForce` say
  the same of the fault plan.
* `StartInv`: a round is started once, because the start makes the preparation stale
  (`prepared`); from the first sign of the round at a participant (`Begun`) no start lies
  before it, and all it owes is of this round. `ResultInv` says that each result is owed, or on
  its way or counted, and never two of these; `DrainInv` that a counted drain was
  one of this round, confirmed since the start.
* The Manager counts results and drains and compares numbers. `AllCounted` shows that the numbers
  suffice: what was counted are keys of this round's results and participants, so sets of the same
  size are the same sets. Then no key is left to be owed.

The numbers in the messages and the flag `prepared` carry all of it: the argument uses nothing
about time, and nothing about links except that they keep order.

Only model-checked: all liveness properties, which are out of the prover's reach
together with `ENABLED`. Of the safety properties, `MessagesMeet` and `LostFieldIsNoticed`: they are about
tables of some forty message types with their fields and limits, finite data that TLC goes
through completely, one change of a field at a time, and where a proof would repeat the tables case by case.
`ResultsStayTrue` of the run `SenderRound` is stated over an instance of `SenderRuntime`; its
theorem is `ResultsAreTrue` about the module itself.

## 5. Not modelled, and abstractions

* Bytes: MACs, keys, hashes and payloads are right or wrong, nothing else. Key `k`
  yields the keys below it, as the hash chain does. Numbers of messages are
  taken at, inside and outside their limits.
* Argument checks that throw before anything happened have no action.
* The sender's observation worker and the metrics of both runtimes appear only
  where they reach the management server.
* Both clocks of a node tick together; a clock that is set back is not modelled.
* The mapping of attack sources by address (`ImprovedReceiver` takes a copy as being
  mapped or not) and the recovery of the payload from authentic packets.
* A drain acknowledgement that cannot be sent is taken as sent.
* The binary format of a presence, the choice of a network interface, two endpoints
  with the same key from two addresses, snapshots for the windows.
* Not modelled at all: multicast socket, clock query, cryptography, workloads, command
  line and configuration file, widgets and text, the attack tool, third-party
  code; see `components` in `PROJECT.json` for each reason.

## 6. Possible continuations

1. Theorems about the control messages, type by type: what was written is read
   (`MessagesMeet`).
2. Start and stop order of the node agent; a clock that is stepped.
