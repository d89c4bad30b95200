# Verification of the UAV network simulation

TLA+ models, model-checking runs and proofs for the UAV extensions of ns-3 in
this repository: a priority transmit queue with bandwidth shares, the UAV
applications, and the ZeroMQ receiver that drives nodes and applications from
another process.

## 1. The system

| Component | Source | State | Operations |
|---|---|---|---|
| QoS configuration | `priority/qos-config.*`, `uav/uav-qos-config.*` | weights per priority, operation mode | `SetQueueWeights`, `SetOperationMode`, getters |
| Priority tag | `priority/priority-tag.*` | one byte per packet | set, get, (de)serialize |
| Priority transmit queue | `priority/priority-tx-queue.*` | a FIFO per priority, bytes sent this cycle, byte budgets, cycle budget | `SetQosConfig`, `SetCycleBudget`, `Enqueue`, `Dequeue`, `Remove`, `Peek`, `PeekByPriority` |
| Application base | `uav/uav-application.*` | socket | `DoInitialize`, `SendWithPriority` |
| Telemetry | `uav/uav-telemetry.*` | running flag, timer | start, stop, periodic send (class 2) |
| Commands | `uav/uav-command.*` | running flag, timer, count | start, stop, periodic check (class 1), `SendCommand` |
| Video client, server | `uav/uav-video-*.*` | frame buffer, rebuffer count, video level | adapt the level, send a frame's packets by level |
| ZMQ receiver | `zmq_receiver_app.*` | running flag, thread, socket, application lists | start, stop, `Run` on its own thread, position updates |
| Metrics | `test.cc`, `test_zmq.cc` | counters kept from the last interval | `CheckMetrics`, `ReportRealTimeMetrics` |
| Drivers | `test*.cc`, `videoStreamTest.cc` | schedule, topology | `main` |

How they interact: applications tag packets and hand them to sockets; the
device enqueues them and asks the queue for the next one when its line is idle
or a transmission has completed. The queue holds a pointer to the QoS
configuration and reads it only when `SetQosConfig` is called. All of this is
the simulator thread. The ZMQ receiver adds a second thread: it installs
applications, moves nodes and calls `StopApplication` of running applications
directly, without a lock, while the simulator thread executes their events.

What is hard here:

* the queue's unsigned byte accounting, the moment a cycle ends, budgets that
  are cut once and not followed up;
* the receiver thread against the simulator thread: a stop in the middle of a
  send, a stop before the start event, a join on a thread that is blocked;
* adaptation over a network that drops video packets and, with priority queues,
  reorders what it carries;
* the end of the program: the order of events with equal time, and a thread
  that outlives the objects it uses.

What makes each component correct:

* QoS configuration: weights are percentages; a mode names one weight vector.
* Queue: no class exceeds its share, the shares fit the cycle, urgent classes
  first, FIFO within a class, a packet is refused only for the sake of another
  class.
* Telemetry: once stopped, at most the send under way still goes out.
* Receiver: a stop reaches what was started, stopping is clean and terminates.
* Commands: a command goes out only while the application is running.
* Video: the server goes through the levels the client chose, in that order, and
  has the last one unless it was lost; a frame is counted once, old rebuffering
  lowers the level once at most.
* Metrics: an average lies within its samples.

## 2. Modules

| Module | Models |
|---|---|
| `QosConfig` | both configuration classes: `weights`, `mode` and their setters |
| `PriorityTxQueue` | the queue: one action per call, `Dequeue` split by its outcomes (`StartCycle`, `Serve`, `SendNothing`) |
| `ShareScheduler` | what the queue promises, abstractly: FIFO lines, strict priority, shares in plain integers |
| `QueuedLink` | the queue on a device under steady traffic, set up as a driver sets it up and reconfigured under way |
| `UavTelemetry` | the telemetry application, its calls split at every access shared by two threads |
| `UavCommand` | the command application |
| `ZmqReceiver` | both threads of the receiver and the driver around them; extends `UavTelemetry` and `UavCommand` |
| `VideoAdaptation` | `UavVideoClient`, `UavVideoServer` and the two transmit queues between them |
| `LevelFollower` | what adaptation promises, abstractly: one party chooses levels step by step, the other takes them over in order |
| `VideoOverQueue` | `VideoAdaptation`'s parties with `QueuedLink`'s real queue and device between client and server |
| `FlowMetrics` | the flow statistics the drivers print |
| `PriorityTxQueueProofs` | the theorems about the queue |
| `QueuedLinkProofs` | the theorems about the queue on its device |
| `ZmqReceiverProofs` | the theorems about the receiver, telemetry and their threads |
| `ReceiverShutdownProofs` | the theorems about the order in which a driver stops things |
| `VideoAdaptationProofs` | the theorems about client and server of the video |
| `FlowMetricsProofs` | the theorems about what the drivers print |
| `MC...` | the instances for TLC |

### PriorityTxQueue

`queues`, `sent`, `cycleBudget` and `budgets` are the C++ maps and fields with
absent keys read as empty or 0. `tracked` is the key set of
`m_bytesSentThisCycle`: `ResetCycleCounters` resets only keys that exist.
`shareBase` is a history variable, the cycle budget the shares were cut from. Unsigned arithmetic is modulo `UintMod`. A packet is its
tag (or none) and its size. `Dequeue` and `Remove` are modelled once a
configuration is set; before that they dereference a null pointer. The branch
for a null packet pointer in a sub-queue is left out: no caller enqueues one.
`Peek` and `PeekByPriority` are lookups with no caller and are left out.

`ShareScheduler` has neither machine words nor a rule for when a cycle ends; the
refinement maps `waiting <- queues, used <- sent, share <- budgets`.

### QueuedLink

The device is ns-3's `PointToPointNetDevice`. It calls `Dequeue` in two situations,
which `line` keeps apart. When a transmission has completed, a nullptr leaves
the line idle until the next arrival. On an arrival at an idle line, `Send` has just
enqueued a packet and hands what `Dequeue` returns to `TransmitStart` without a
test: a nullptr ends the program (`line = "crashed"`), and there is no step after
that. `LinkInit` is the state after a driver's set-up
calls: weights and mode, the cycle budget at the time of `SetQosConfig`
(`SharesFrom`) and the one in force afterwards (`CycleInForce`). `Configure` is a
mode switch under traffic: first the configuration object is told, some time
later the queue (`SetQosConfig`), which goes on with its old shares until then.

### UavTelemetry, UavCommand and ZmqReceiver

The simulator thread's position inside `SendTelemetryUpdate` is `call`: it tests
`m_running`, sends, and schedules the next update, three steps that the receiver
thread's `StopApplication` (clear `m_running`, cancel a waiting event) can
interleave with. `IsRunning` and `Cancel` (38-39) are one step: if the one says no,
nothing else is accessed, otherwise `Cancel` decides for itself on what `m_sendEvent` is by
then. `stragglers` counts since `m_running` was last cleared and starts again with a
packet sent while it is set, so that it says nothing of packets after a stop that the
start event undoes. `m_running` is an unguarded `bool`; the model lets each access
take effect atomically, in any interleaving of the two threads.

`rx` is the receiver thread's position in `Run`. `recv` blocks; what the publisher
sends is queued in `inbox`. A position update is applied one node at a time. The
start handler reads the application count, records it and adds the application;
no other thread sees the list, and the simulator sees the application only when
added, so this is one step. The stop handler takes each listed application in
order, two steps each.

Applications of the UAV are known by their position, whose type `kind` records;
the video clients at the ground station are numbered. A VideoStream start or
stop touches only lists of the receiver thread and ns-3's applications, of which
the model keeps `told` and `toldClients`, so each is one step. `Run` catches parse
errors only: a message without a field its handler reads (`Incomplete`) raises
another exception, which leaves the thread and ends the program (`Terminate`); if it
is a message of actors, those before the faulty one have been moved. `SendCommand` is
called on the receiver thread: it tests `cmdRunning` and sends, two steps. The
other operations of `UavCommand` are events of the simulator thread and change
nothing the receiver thread changes.

Left out of `Run`: the branch for a `recv` without a result (78-82), which a blocking
`recv` has only after an error of the socket, and an exception of `recv` itself; the
branches that pass over an actor whose id is no number, of an unknown type or of no
node (110-119, 126-128). An actors message is taken to name both nodes and to put
them in one place; `StopLeavesWholeUpdate` compares the nodes and relies on that.

The simulator thread runs telemetry events and the driver's own `Agenda` until
Simulator::Stop's event; then come `Simulator::Destroy` and, at the end of
`main`, the destructor of `ZmqReceiverApp`, which calls `StopApplication` again.
`test.cc` stops the receiver at 300 s and the simulator at 300.01 s. In
`test_zmq.cc` both happen at 300 s; the simulator executes events of equal time in
the order they were scheduled, and the application's stop event is scheduled
only when the application initializes.

### VideoAdaptation

`HandleRead` is one action for each packet: count the frame, lower, raise, in the
code's order. `uplink` and `downlink` are the transmit queues of the two devices; a
FIFO has one line, a `PriorityTxQueue` one for each class, and any of its lines
may be next, because `PriorityTxQueue` skips a class whose share is spent. The
player (`ReadFromBuffer`) is the ns-3 base class's: it uses `FrameRate` frames or
counts a rebuffering event; whether playing resets that count is left open.
Packets may be lost, with video and with levels; the code acknowledges nothing and
repeats nothing. `newestLost` and `countedAt` are history variables: the level sent
last was lost, and until the client sends another the server cannot know; and the
level at which the count of rebuffering events last reached three. Over FIFO
queues the module implements `LevelFollower` (`chosen <- level`,
`pending <- uplink[0]`, `followed <- serverLevel`).

### VideoOverQueue

The ground station of `test_congestion.cc`: its device (devices 1) has a
`PriorityTxQueue`, the server's has ns-3's FIFO. `HandleRead` puts the level
packets it creates into the real queue, by the class `Enqueue` finds for them, and
makes an idle line ask; `Transmit` is the device's `Dequeue`; other sources of every
class send beside it. The driver's own lines for the video applications (127-142)
are commented out; the module combines the client with the queue as they
would. `ImplementsVideo` shows that `VideoAdaptation`'s abstraction of a priority
queue, a FIFO line for each class and any line next, is what queue and device
really give (`uplink <- LevelsWaiting`).

### FlowMetrics

The state is FlowMonitor's counters and what `CheckMetrics` keeps in its static
maps. What the two functions print is a set of operators on that state
(`AvgDelay`, `AvgJitter`, `MeanDelay`, `MeanJitter`), and `delays` and
`jitters` are history variables with the samples the averages stand for. Throughput
and the loss ratio are left out.

### Faulty variants

Definitions such as `UncountedServe`, `EagerCycle` or `StopWithoutJoin` that stand
directly before an action and are used nowhere are faulty variants of it. Each
property has been seen to fail with one of them in place (`mutants` in
`PROJECT.json`).

## 3. Runs

| Run | Expected | Shows |
|---|---|---|
| `queue_api` | holds | every order of calls on a queue: types, `SentWithinBudget`, `CycleNotOversubscribed`, `CycleEndsWhenSharesSpent`, refinement of `ShareScheduler` |
| `saturated` | holds | all classes busy with packets that divide their shares, the mode switched under way: an arrival is refused only while another class has not had its share, a cycle never ends in answer to an arrival, and each class is served for ever unless the device is brought down |
| `silent_class` | violated | one class without traffic: the others have had their shares, and the next packet is refused for nobody's sake and brings the device down |
| `receiver` | holds | `test.cc`'s schedule: clean stop, at most one late message, no handling after `Destroy`, no command from a stopped application, an abort by a malformed message only while receiving, the program ends |
| `telemetry_stop` | holds | stop messages against two running applications: at most one straggler, silence for good, all applications of the type reached and no others, applications not stopped keep sending |
| `video_fifo` | holds | FIFO queues and a lossy channel: levels agree, frames counted once, an old count takes back one raise at most, refinement of `LevelFollower` |
| `video_over_queue` | holds | client, real queue and device together implement `VideoAdaptation` with a line for each class |
| `flow_metrics` | holds | printed delays and total jitter lie within what was measured; the interval's average jitter is at most twice its largest sample |
| `stop_before_start` | violated | a stop that overtakes the start event is undone by it |
| `late_stop` | violated | `test_zmq.cc`'s schedule: messages are handled after `Destroy` |
| `silent_publisher` | violated | the join never returns when the publisher falls silent |
| `level_overtaken` | violated | with a priority queue at the client a level overtakes another and the server keeps the stale one |

Bounds. `queue_api`: cycle budgets 10 and 20, packets of 2 to 8 bytes, two packets
per sub-queue, a modulus of 1024 so that `weight * cycle` really wraps in
EMERGENCY mode (1400); LOW_BANDWIDTH with a cycle of 20 gives shares the packets
can spend exactly, so that cycles end, other combinations leave rests. The link
runs use the code's own 12500 bytes with one packet per sub-queue: a longer
backlog repeats the same states. `silent_class` has the default weights;
`saturated` starts in EMERGENCY mode and switches the mode once,
to any of the four, at any moment, the queue being told at any later one. Its
packets (1250 bytes for class 0, 625 for the others) divide the shares of every
mode. Their modulus is not 2^32, which TLC's integers do not hold, but no product
comes near either. `video_over_queue` and `level_overtaken` have a cycle of 20 bytes in
LOW_BANDWIDTH mode, so that shares run out after one to four packets and a
class is skipped while it waits; one other packet and seven frames are enough for
two levels of different classes to wait at once. The device may be brought down
there, as in `silent_class`; the runs are about order, not progress. These four runs do not
check for deadlock, because a crash is an end of the program.
`receiver` and `telemetry_stop`: two waiting messages and two positions or two
applications, enough for a stop and a start to follow each other and for one
application to be stopped while another is sending.

`FastSends` is 2 instead of 50: only whether it has been reached matters.
`telemetry_stop` uses an agenda that does not end, because in a simulation that
ends everything falls silent anyway. `video_fifo` starts at level 4 of 4 with
nine frames of two packets and one frame a second: enough to go down to level 1,
to pass three rebufferings there, to fill the buffer and to be raised again with
that count still standing. `flow_metrics`: six packets and three delays, enough
for intervals with no, one and several packets on both sides of the first call.

Fairness. In `QueuedLink`, the device's call and the completion of a transmission
happen (weak fairness), and every source keeps sending: all of them are timer
driven and reschedule themselves (`UavTelemetry`, `UavCommand`,
`SendCriticalPacket`, the video server), strongly fair because a source's event
comes between those of the device. `ServedUnlessCrashed` has a premise, that no
arrival is refused, which nothing in the code guarantees: it says that a crash is
the only way in which a class with steady traffic is not served. In `ZmqReceiver` both threads are scheduled (weak
fairness) and the driver's next event is executed (strong fairness: telemetry
timers may come first, but each round of them advances the simulated time
towards it). Telemetry events are strongly fair
for the same reason: the simulator thread is in the event loop only between
calls. In `VideoAdaptation` a level does not stay in the device's FIFO for ever
(weak fairness of `ReceiveLevel`; it may still be lost). `BusyPublisherSpec` adds a publisher that does not fall silent;
nothing in the code guarantees it, which is what `silent_publisher` shows.

## 4. Proofs

Every invariant that a run checks is also a theorem, for every value of the
constants. The assumptions on the constants are the `ASSUME`s of the modules,
which TLC evaluates in the runs; further hypotheses stand in the theorems.

| Module | Theorem | Property | Hypotheses |
|---|---|---|---|
| `PriorityTxQueueProofs` | `TypeCorrect` | `TypeOK` | |
| | `BudgetRespected` | `SentWithinBudget` | |
| | `NotOversubscribed` | `CycleNotOversubscribed` | |
| | `CycleEnds` | `CycleEndsWhenSharesSpent` | |
| | `Refinement` | `ImplementsShareScheduler` | |
| `QueuedLinkProofs` | `LinkKeepsQueueInv` | `QueueInv` | |
| | `CyclesEndOnCompletion` | `CycleEndsOnCompletion` | |
| | `RefusedForTheSakeOfOthers` | `RefusedOnlyForOthers` | every class has a source; the shares use up the cycle |
| | `UnspendableShareClosesLink` | nobody is served for ever | a class without a source or whose packets do not divide its share; no mode switch |
| `ZmqReceiverProofs` | `OneStragglerAtMost` | `AtMostOneStraggler` | |
| | `OneLateMessageAtMost` | `AtMostOneLateMessage` | |
| | `ReceiverTypesCorrect` | `ReceiverTypeOK` | |
| | `StopLeavesNoHalfUpdate` | `StopLeavesWholeUpdate` | |
| | `StopReaches` | `StopReachesAll` | |
| `ReceiverShutdownProofs` | `NothingHandledAfterDestroy` | `NoHandlingAfterDestroy` | receiver stopped before the simulator |
| | `AbortsOnlyWhileReceiving` | `AbortsWhileReceiving` | receiver stopped before the simulator |
| | `CommandsOnlyWhileRunning` | `CommandsWhileRunning` | receiver stopped before the commands |
| `VideoAdaptationProofs` | `VideoTypeCorrect` | `VideoTypeOK` | |
| | `OldCountBounded` | `OldCountTakesBackOneRaise` | |
| | `NoFrameCountedTwice` | `FramesCountedOnce` | server's queue a FIFO |
| | `LevelsAgreeOverFifo` | `LevelsAgree` | client's queue a FIFO |
| | `FollowsOverFifo` | `Follower!Steps` | client's queue a FIFO |
| `FlowMetricsProofs` | `MeansLieWithin` | `MeansWithinSamples` | |
| | `IntervalDelayLiesWithin` | `IntervalDelayWithinSamples` | |
| | `IntervalJitterBounded` | `IntervalJitterAtMostDoubled` | |

**Queue.** `QueueAssumption`: sizes are naturals and budgets fit the modulus.
`WeightsAssumption`: callers pass percentages that add up to 100, as the header
asks. The inductive invariant `QueueInv` adds to the types
`SentWithinBudget` and `SharesWithinCycle`: the unsigned difference in `Dequeue` is
the true difference only while no class is over its budget, and that a class
stays within it in turn needs the true difference; the sum of what was sent is
bounded only because the budgets sum to at most the cycle they were cut from,
which holds for the rounded-down, possibly wrapped products (`ByteSharesSum`).

**Link.** `LinkKeepsQueueInv` shows that the set-up of a driver establishes
`QueueInv` and that whatever device, sources and `Configure` do is a call of the
queue's API. `CycleOpen` is the inductive invariant behind the refusals: a line becomes
idle only when something of the cycle is left or the counters have just been
reset, so that an arrival does not meet the end of a cycle; if it is refused and
the shares add up to the cycle, some class has not sent its share. Rounding and a
`SetCycleBudget` after `SetQosConfig` are what `SharesFillCycle` excludes.
`UnspendableShareClosesLink` is the general form of the run `silent_class`. A class
sends whole packets, so a share that is not a number of them is never spent
(`Unspendable`; with no source the share itself), and the rest is missing
from the sum that ends a cycle (`ShareRemains`): no counter is ever reset and the
whole link sends less than one cycle's bytes, whatever the other sources send,
for all weights and sizes and also when the cycle in force is longer than the
one the shares were cut from, as in `test_congestion.cc`. The run's constants
satisfy the hypotheses.

**Receiver.** `ReceiverInv` is a conjunction of parts that are each proved with
the help of the ones before:

* `TelemetryInv`: an application has sent no straggler while it is active, has not
  started or is inside a send. Each later straggler would need another pass of
  `CheckRunning`, which a cleared `m_running` refuses.
* `ThreadInv`: the receiver starts at most once, a joinable thread is in `Run` or has
  ended, and no message was late while the loop can still block in `recv`. It needs that
  the agenda holds at most one `receiverStart` (`ReceiverAssumption`): ns-3 starts an
  application once, and a second start would overwrite the joinable `std::thread`.
* `MessageInv`: where the thread is in `Run` determines the message in hand.
* `AppInv`: applications are numbered in the order of their installation, and the
  three lists hold those of their kind. `StartsUnderWay` counts the start messages not
  yet handled, because the model's publisher asks for no more than `MaxApps`.
* `HandlerInv`: in the middle of a position update the nodes not in `todo` are at the
  new place, and outside of one both nodes are at the same; in the middle of a stop
  the applications not in `todo` have been told.

**Shutdown.** The three theorems hold for every agenda with `StopsBefore(e, Agenda)`:
between the receiver's start and the event `e` there is a stop of the receiver.
`test.cc` schedules its events so, and its agenda in the run `receiver` satisfies it
(`e` is `simulatorStop` or `commandStop`); `test_zmq.cc` does not, and `late_stop`
shows what follows. `InOrder` carries the order over to what is left of the agenda;
that a stop event joins the thread before the next event runs
(`JoinsWhatItStops`) does the rest.

**Video.** `FrameOrder`: a FIFO line of frames is sorted and lies between the
client's last frame and the server's next one, so a frame that raises the
buffer is new. `LevelsChain`: the newest level under way is the client's;
when none is, the server has it unless it was lost. Both fail as soon as
two lines are used, which the run `level_overtaken` shows for levels. `FollowsOverFifo`
is `FollowsClient` without its fairness; it needs `ShortWhenLowered`, because a call
that both lowered and raised would be two steps of `LevelFollower`. The count of
rebuffering events is used up by the next packet unless the level is 1; from there
only a raise leads on, and it sets the account of the buffer to one second. That is
`ShortWhenLowered` and `OldCountTakesBackOneRaise`.

**Metrics.** `SumsUp` relates a sum and the number of its terms to the set of
samples: with any bounds of the samples the sum has `n` times these bounds.
`MetricsInv` says this of FlowMonitor's totals and of the differences since the
last `CheckMetrics`; the first packet of a flow brings a delay and no jitter,
whichever interval it falls into (`JitterSamples`). The minimum and maximum are
taken by well-foundedness of the naturals, and the integer division of
`ReportRealTimeMetrics` keeps a quotient between such bounds
(`QuotientBetween`).

Only model-checked:

* all liveness, because fairness and ENABLED are outside the prover's reach:
  `ServedUnlessCrashed`, `StopSilences`, `KeepsSending`, `SimulationEnds` and the
  progress that `FollowsClient` adds to `Follower!Steps`;
* `ImplementsVideo`: the levels waiting in a real sub-queue are a `SelectSeq` of it,
  and `HandleRead` puts packets into it with a `FoldLeft`; what these compute
  for every sequence takes induction over data, which the installed provers
  cannot use.

## 5. Not modelled

* ns-3 itself (events, sockets, device, mobility, the `VideoStream` base
  classes, FlowMonitor) beyond what the code uses of it; radio and topology set-up.
* `PositionConverter`, which nothing calls; the text of messages and logs.
* Torn reads of a position, and two threads inside ns-3's network stack or event
  list at once: what comes of them is up to ns-3's own state. Accesses to
  `m_running` and `m_sendEvent` are taken to be atomic, in any order.
* The PHY and mobility traces of `test.cc` (lines 175-311): every line that would
  connect them is commented out (449-456).
* `test_uav.cc` and `videoStreamTest.cc`: topologies without behaviour of their own.

### Disagreements without a run

Plain from the code, or with the same cause as a run above:

* A source that spends its share ahead of the others and sends once more while the
  line is idle brings the device down: `Dequeue` returns nullptr
  (`priority-tx-queue.cc:91`) to `PointToPointNetDevice::Send`, which does not test it.
  No queue of ns-3 answers so with a packet just enqueued.
* 1400-byte packets, the video server's size, do not divide the default shares
  6250/3750/1875/625, so the cycle never ends even with all classes busy
  (`UnspendableShareClosesLink`), and class 3 can never send one
  (`priority-tx-queue.cc:81`).
* Three rebuffering events at level 1 stay counted while the buffer fills. When it
  holds five seconds the level is raised, and the next packet lowers it again
  (`uav-video-client.cc:72`, 90-101): `OldCountTakesBackOneRaise` is what does hold.
* `SetCycleBudget` after `SetQosConfig`, as in `test_congestion.cc:97-98`, leaves
  the budgets cut from 12500 bytes under a cycle of 12500000: the shares are
  spent long before the cycle ends.
* `Peek` (line 112) compares bytes with a percentage and skips a class that has no
  counter yet; it does not show what `Dequeue` takes.
* `SetOperationMode(NORMAL)` sets {50, 25, 15, 10}, the constructor in mode NORMAL
  has {50, 30, 15, 5}.
* `UavCommand` overwrites its configured interval before every use
  (`uav-command.cc:57`).
* With a priority queue at the server, packets of frames of class 2 and class 3
  mix when the level passes 4 and the client counts a frame twice
  (`VideoAdaptation` with `PriorityDownlink = TRUE` violates `FramesCountedOnce`).
* `CheckMetrics` divides the losses noticed in an interval by the packets sent in
  it (`test_zmq.cc:48`), which can exceed 100 percent; losses noticed in an
  interval without transmissions are never printed.
* The "Avg Jitter" of `CheckMetrics` has one divisor too few after the first
  interval (`test_zmq.cc:51`): `rx` packets bring `rx` samples then. Two packets
  give the sum of two samples; `IntervalJitterAtMostDoubled` is what does hold.
* A lowered level that is lost is not repeated, and at level 1 the client never
  lowers again: the server stays at a higher level until the client has raised its
  own and that packet gets through (`uav-video-client.cc:74`).
* A start event between the two steps of `UavTelemetry::StopApplication` leaves an
  application that counts as running and never sends (`uav-telemetry.cc:37-40`);
  same cause as `stop_before_start`.

## 6. Plan

Done, in this order: the queue with its abstract scheduler and its proofs, the
queue on a link and reconfigured under traffic, telemetry, the receiver with its
threads and its exceptions, commands, video with an abstract specification and
over the real queue, metrics; then proofs of every invariant the runs check,
of their action properties, and of the safety of both refinements in single
modules. Next:

1. An abstract specification of what stopping an application promises, and the proof
   that receiver and telemetry together implement it.
2. A general form of `level_overtaken` and `stop_before_start`, as
   `UnspendableShareClosesLink` is of `silent_class`: which set-ups exclude them.
3. The order of levels in a real sub-queue, stated without `SelectSeq`, as a first
   part of `ImplementsVideo`.
