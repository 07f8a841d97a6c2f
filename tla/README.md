# Ironpulse in TLA+

A verification project for the Ironpulse engine: TLA+ modules translated from
its C++ sources, TLC configurations that check them on small instances, and
TLAPS proofs of what matters most for every value of the parameters. Paths are
relative to the repository; `ring_buffer.hpp:80` is a line of the file a section
is about.

Contents: 1 inventory, 2 plan, 3 the modules and the code, 4 the runs,
5 fairness, 6 proofs, 7 findings and observations, 8 what is not modelled.

## 1. Inventory

### The program

`src/main.cpp` builds one process. Per device a `DevicePoller` reads Modbus
registers through a `ModbusClient`, decodes them and publishes
`SensorReadingEvent`s and `DeviceStatusEvent`s on the `EventBus`. Publishing is
a synchronous call of every subscriber on the publishing thread, an io thread.
The subscriber of readings stores the value (`SeriesStore`, and through it the
write-ahead log), submits it to the telemetry exporter, updates the metrics,
lets the `RuleEngine` look at it and broadcasts it over WebSocket. The rule
engine publishes `AnomalyEvent`s, whose subscriber fills the alert log, notifies
(`Notifier`) and broadcasts. A maintenance timer flushes and prunes the log.
Main stops the parts in a fixed order (main.cpp:377-397).

Threads: a pool of io threads runs one `io_context` (pollers, clients, WebSocket
connections, maintenance timer; strands keep one device's or connection's
handlers apart), the HTTP server has threads of its own, the notifier a worker,
the exporter a consumer, and main starts and stops everything.

### Components

| Component | State it keeps | Operations | Talks to | What is hard | What makes it correct |
|---|---|---|---|---|---|
| SPSC ring (`ingest/ring_buffer.hpp`) | slots, head, tail, a cached copy of the other side's index in each thread | emplace, pop, size | two threads through two atomics | interleaving at the grain of memory accesses, wrap of the index word, stale caches | neither thread touches the other's slot; it is a FIFO; false only when full or empty |
| Ingestor (`ingest/ingestor.cpp`) | ring, batch, counters, stop token | start, stop, submit, consumer loop | exporter in front, sink behind | stop against the last submissions, failing or hanging sink, partial batches | accepted samples reach the sink once, in order, all before stop returns |
| ReadingExporter (`ingest/reading_exporter.cpp`) | accepting_, producer mutex, sensor table | start, stop, submit, stats | called by all io threads and main | many threads over a single-producer queue | one producer at a time, none after stop; a slow disk never holds up polling |
| SegmentWriter, reader (`ingest/segment.cpp`) | open segment, directory of segments | write_batch, rotate, recover, enforce limit, read | files | crashes, torn writes, clock stepping back, size limit | no finished segment overwritten; limit holds; reader resynchronises |
| ModbusClient (`protocol/modbus_client.cpp`) | socket, connected, deadline and its generation, transaction id, read buffer | connect, read_registers, close, completion handlers | asio, the device; its caller through callbacks | deadline racing a completion, late and repeated answers, close during an operation | one answer per call, bounded in time, of this request; idle connections are left alone |
| DevicePoller (`protocol/device_poller.cpp`) | cycle in progress, timer, last status, stopped flag | start, stop, run_cycle, read_block, finish/fail/schedule | client, bus; stopped by main from another thread | stop between test and use, status asked of another strand | cycles never overlap, publish whole readings, go on until stop, come to rest after it |
| Frame codec, register decoder | none | encode, decode, plan_reads | poller, client | boundaries of block sizes | the blocks cover every sensor's registers, within the protocol's limit |
| SeriesStore (`storage/series_store.hpp`) | map of series, each a ring of samples | record, history, get_or_create | bus, HTTP, log | two locks, replay | memory and log agree |
| Write-ahead log (`storage/wal_writer.hpp`) | file, buffer | append, flush, replay, read_since, prune | disk | crash inside a write or a prune, unnoticed errors | nothing flushed is lost or misread |
| RuleEngine (`analytics/rule_engine.hpp`) | per sensor: limit state, detectors, last alert | observe | bus | edge trigger and cooldown together | an excursion is announced |
| Detectors | statistics | observe | rule engine | floating point | statistical, not a matter of states |
| EventBus (`core/event_bus.hpp`) | subscriber lists | subscribe, unsubscribe, publish | everything | callbacks outside the lock, nested publish | every subscriber once per event |
| AlertLog, DeviceRegistry, Metrics | one container under one lock each | push, set, increment, read | bus, HTTP | little | bounded, last write wins |
| ThreadPool | queue, workers | submit, shutdown | not used by the program | shutdown against submit | accepted tasks run |
| Configuration | none after load | parse, validate | main | bounds | what later parts assume |
| Notifier (`notify/notifier.cpp`) | bounded queue, worker, what was told last | on_alert, on_device_status, start, stop | bus; mail and HTTP channels | retries, overflow, drain deadline | no stale or contradictory message, stop in time |
| WebSocket server (`api/ws_server.cpp`) | connections, outbox of each | accept, handshake, frames, broadcast, close, stop | asio, bus | one write in flight, close under a write, slow clients | bounded outbox, no write on a closed socket |
| HTTP server | none of its own | GET handlers | stores, log | reads while others write | answers from consistent copies |
| Wiring, maintenance, shutdown (`main.cpp`) | flags, timers, threads | start, maintain, stop | all | stop order while io threads still publish | what was read is on disk at exit |
| Logger, base64, sha1, messages, serializer, export tool, dashboard, Python tools, build | - | formatting and byte work | - | - | - |

`PROJECT.json` lists the same components with the modules that model them, and
under `hazards` the places where this code can go wrong in a way a test would
hardly reach.

## 2. Plan

In the order of what the program stands on; each line is one step.

| Step | Modules | Refines / composes | Runs | Theorems |
|---|---|---|---|---|
| 1 (done) | `BoundedFifo`, `SpscRing`, `SpscRingProofs` | SpscRing implements BoundedFifo | `spsc_ring` | types, slot ownership, caches only lag, refinement of the queue's safety |
| 2 (done) | `ReadingExporter`, `ReadingExporterProofs` | uses the queue BoundedFifo specifies | `exporter` | types, one producer, nothing lost, stopped is drained, counters |
| 3 (done) | `ModbusClient`, `DevicePoller` | DevicePoller composes client, device and poller | `device_poller`, `poller_silent_network` | types, one thing at a time, whole readings, earned status, harmless deadlines |
| 4 (done) | `WalStore`, `TelemetryJournal` | WalStore implements TelemetryJournal, and has main's maintenance and stop order | `telemetry_store`, `clean_shutdown` | types, refinement of TelemetryJournal, young samples survive, memory follows the log |
| 5 (done) | `SegmentLog` | - | `segment_log` | types, nothing overwritten, the total is bounded, the oldest goes first |
| 6 (done) | `WsConnection` | server and connection with the broadcasting threads | `ws_connection`, `ws_too_slow` | types with the bounded outbox, frames arrive in order; one write in flight is part of the invariant |
| 7 (done) | `RuleEngine`, `Notifier`, `AlertPipeline` | AlertPipeline composes the two as main wires them | `alerts`, `sustained_excursion` | types, alerts keep apart, attempts are justified |
| 8 (done) | `ConfigTypes`, `RegisterPlan`, `FrameCodec`, `SensorReading`, `SegmentReader`, `ConfigLoading`, `Algorithms`, `AlgorithmsProofs`, `MCAlgorithms` | SensorReading composes plan, frames and decoding; Algorithms all three | `algorithms` | every sensor is read, damage is contained, an accepted configuration is usable |

No module has a RECURSIVE operator or uses Bitwise: loops are recursive
functions, the prover loses its SMT backend behind either of the two.

## 3. The modules and the code

`PROJECT.json` "map" gives the lines of every definition.

**BoundedFifo** is the abstract queue: Push/Accept/Reject and Pop/Take/Miss,
each call one atomic effect between call and return, both operations wait-free.

**SpscRing** is `SpscRingBuffer`, one action per access to memory the other
thread also accesses: the reload of the other side's index, the construction or
move of an element, the store of the own index. Accesses to what only one thread
touches (cached index, own index) are folded into the neighbouring step. Indices
count modulo `Modulus` and are reduced on access, distances are computed in
unsigned arithmetic. The code's release stores and acquire loads are modelled as
atomic registers: a load returns the last value stored. A stale value an acquire
load could return is one an earlier load would have returned, and the cached
index models acting on it.

**ReadingExporter** is ReadingExporter and Ingestor together: the exporter only
adds the mutex, the flag and the sensor lookup in front of the Ingestor. Push
and pop of the queue are single steps here. This is what SpscRing justifies
(`ImplementsFifo`), provided only one thread pushes, which `OneProducer` checks.
The actions of io threads, the consumer, main and the clock interleave freely.
`flush_due` abstracts the clock: has flush_interval passed since last_flush? The
consumer's back-off is a plain return to the loop. A batch is a sequence of
sample numbers; encoding is left out, the encode buffer's bound is not
(`BatchesHoldSamples`). `accepted` and `handed` are history variables.

**ModbusClient** has one action per handler on the client's strand. What makes
handlers ready interleaves: calls from outside, the completion of the one
operation in flight, and the deadline, whose handler may be queued already when
it is disarmed. Ready handlers run in any order, since io threads race to queue
them. The deadline's generation counter matters only in comparisons with the
current one, so a queued expiry is `current` or `stale`. The device remembers
the last request and the one before, and may answer either at any time, correctly,
with an exception, too short, undecodably, with a malformed header, or twice.
Cancelling a lookup that is under way may end it with an error or let it run on
to its result (`CancelOutcomes`); `device_poller` considers both.
`write_single_register` shares `send_request` with reads and has no caller, so
it has no action. `timed_out_` only words an error and is left out.

**DevicePoller** EXTENDS ModbusClient and adds the poller's strand and main's
`start`/`stop`. A handler that ends a cycle is two actions, the test of
`stopped_` and `finish_cycle` or `fail_cycle`, so that `stop()` can come between
test and use. Sensor values are `fresh` or `late` (read out of an answer to an
older request). When the timer expires is left open.

**WalStore** is one sensor's telemetry: `record()` from the poller's handler
(time stamp, first touch with replay, push to the ring, append to the log, each
its own step), flush, prune, history requests, the maintenance handler and main
from start to exit. The log's lock shows only while a prune holds it from its
temporary file to the rename; everything else under it is one step. The ring is
modelled by its array, write index and size. A refused write keeps a prefix of
whole records. A crash or exit loses memory and pending batch; the files stay.
**TelemetryJournal** is the abstraction: an ordered log that at most a batch is
missing from, from which only age, or a counted refused write, removes samples.

**Subsequence** is one operator, `Only`: the elements of a sequence that are in a
set, in their order. It is what the copying loops of the log leave, written as a
recursive function so that proofs can expand it.

**SegmentLog** is SegmentWriter over its directory. A file has its name (time
and sequence number), whether it ends in `.part`, its size, and the batches that
are whole in it. `write_batch` is taken apart at the places where a crash leaves
different files. Faults: a file that cannot be created, written, renamed or
removed. `irregular` remembers what excuses the order of deletion. Nothing
relates the size of a batch to that of a segment, as in the code: a segment's
first batch is written whole, however large (`SegmentSizes`).

**WsConnection** has an action per handler of the connection's strand, whose
queue is FIFO, and per completion of an outstanding operation, which puts the
handler in the queue with its outcome before anything else is known. That gap,
between an operation's success and its handler, is where the connection can be
closed. The accept loop, `stop()` and the two halves of `broadcast` (copy the
targets, send to each) run beside it.

**RuleEngine** and **Notifier** are components without a specification of their
own; **AlertPipeline** EXTENDS both and joins them as main's subscribers do. A
reading is abstracted to where it lies against the limits and how many detectors
vote. The time of the last alert is kept as its age up to the cooldown. The
notifier's status filter and its queue have separate locks and are separate
steps; a transport call is two steps, and its answer is open. History variables
say what an observer saw: `told` the age of the last alert of each kind and its
distance from the one before, `excursion` the present stay beyond a limit,
`last_word` the last status of a device that a channel took (what `deliver`
returns), `lost` whether the newest notice about it was dropped by the full
queue or taken by no channel.

**RegisterPlan**, **FrameCodec**, **SensorReading**: operators over sensors,
blocks and bytes. `SensorReading!ReadCycle` chains them: plan, encoded request,
the device's bytes, header and frame, decoded answer, value of each sensor.
**SegmentReader** is `read_segment` over a file in 8-byte units.
**ConfigLoading** is the way from document and environment to a configuration or
its refusal. The code's exceptions are values here: every part says whether it is refused.
**ConfigTypes** has the types both sides share.
**Algorithms** has one action per algorithm: it takes a case from the constants
(lists of sensors, segments, configurations) and records what the algorithm
gives. It states what that should be without using the algorithms' definitions:
`OneRequest` and `FewestRequests`, `ValueOf`, `Intact`. **MCAlgorithms** gives
the constants bounded sets, one input per behaviour.

Every module has a section of *plausible mistakes*: variants of its definitions
(a forgotten test, a missing reset, an off-by-one) that are no part of the
specification. `PROJECT.json` "mutants" names for each property the variant that
violates it, which shows that the property can fail at the checked bounds.

## 4. The runs

| Run | Question | Bounds |
|---|---|---|
| `spsc_ring` | Do the two threads stay out of each other's slots, and is the ring the queue its users rely on? | 4 slots, index word of 8: the word wraps every two laps, so the behaviour repeats and the state space is complete without a cut |
| `exporter` | Is everything accepted handed to the sink once, in order and by the time stop returns, whatever the sink does; do samples reach it, and do stop and submit return? | 2 io threads, queue and batch of 2 and 3 submissions (the queue can be full, a batch partial), 2 starts (one restart) |
| `device_poller` | Do cycles neither overlap nor stop, is what they publish whole and true, and does stop bring rest? | 2 blocks (an answer can be late for the next block and for the next cycle), 3 transaction ids, 1 frame waiting unread |
| `poller_silent_network` | Is connect bounded if the network stays silent? (It is not: section 7.) | 1 block, cancelled lookups end with an error |
| `telemetry_store` | Do log, memory and pending batch agree whatever flushes, prunes, dies or refuses in between? | ring, batch of 2; 4 samples, so that the ring wraps and the file outlives several batches; 3 instants with retention of 1 tick, so that a sample can expire while younger ones stay; 1 crash, 1 refused write, any number of restarts |
| `clean_shutdown` | Is nothing unflushed when the program has exited? (Something may be: section 7.) | 1 sample |
| `segment_log` | Does every acknowledged batch stay where it is until the limit takes it, and does the limit hold? | 4 batches of three sizes (two of the smallest fit a segment, one of the middle size, and the largest does not fit), 2 instants (names collide within one), 1 crash, 2 faults, 1 step back of the clock |
| `ws_connection` | Does the client see a gapless stream, and does everything that starts end? | 2 threads with 2 broadcasts each, an outbox of 2 (the third frame of the four can find it full), 1 ping |
| `ws_too_slow` | Is disconnecting a slow client harmless? (It is not: section 7.) | 1 thread, 2 broadcasts, an outbox of 1 |
| `alerts` | No storm of alerts, no attempt without reason, and is what a channel took last about a device true? | 1 sensor, 1 device, 2 channels, queue and attempts of 2, cooldown of 1 tick |
| `sustained_excursion` | Does a sustained excursion produce a notification? (Not always: section 7.) | the same with 1 channel, queue and attempts of 1 |
| `algorithms` | Does each algorithm yield what its caller relies on? | see *algorithms* below |

*spsc_ring.* `SlotOwnership`: no construction over a live element, no move out of
a vacant slot, never both threads at one slot. `ImplementsFifo`: the refinement
of BoundedFifo, with its fairness.

*exporter.* `OneProducer` is the contract of the queue (ingestor.hpp:34).
`NothingLost` relates what submit accepted to where each sample is now.
`StoppedIsDrained` says that nothing is left when stop has returned.
`CountersFollow`: statistics may run one sample behind, and are exact after
stop. `BatchesHoldSamples` bounds what the encoder and the counters see. Each
liveness property states what it assumes: `SamplesReachSink` that the consumer
runs, time passes and writes return or fail; `StopReturns` also that main
carries stop through; `SubmitReturns` nothing of the consumer. The safety
properties are proved for any number of submissions and starts (section 6).

*device_poller.* `OneThingAtATime`: a timer, a call, an operation, a result or a
handler, never two of them, so requests never overlap on a connection.
`ReadingsAreWhole`: a published cycle has every block, each from an answer to
this cycle's request. `StatusIsEarned`: online needs a frame of the device in
this cycle, offline a closed connection. `IdleConnectionIsKept`: a deadline that
fires late never closes an idle connection. `RequestIsBounded`,
`PollingContinues`: a device that never answers holds up neither its request nor
the cycles after it. `StopQuiesces`: after stop the two come to rest for good.

*telemetry_store.* `ImplementsJournal` is the refinement of TelemetryJournal.
`YoungSamplesSurvive`: what is within retention is in the log exactly once, in
order, unless a crash took it from memory or the disk refused it.
`MemoryFollowsLog`: what the ring shows is an unbroken run of the surviving
samples up to the newest, across replay and wrap. `PendingIsFlushed`: however few
readings come, the maintenance timer writes them.

*segment_log.* `NothingOverwritten`: every batch `write_batch` returned for is
whole in exactly one file, in order, until the limit removes that file.
`TotalIsBounded`: finished segments and the open one together keep to the limit,
restarts included. The room made for a segment is `max_segment_bytes`; a batch
that is larger makes a segment larger than its limit, and then that segment,
of that one batch, is what the total exceeds its limit by (`WithinLimit`, and
section 7). The run writes such batches. `OldestGoFirst`: what is deleted is older than what
stays, if the clock does not go back and the disk obeys.

*ws_connection.* `ClientSeesEveryFrame`: no mixed bytes, and of each thread every
frame from the first received on. `ClosedIsReleased`: a closed connection leaves
the list and is destroyed. `QueuedIsDelivered`: the outbox empties or the
connection ends.

*alerts.* `AlertsAreSpaced`: at most one limit alert for a stay beyond a limit,
and a cooldown between two alerts of one kind, whatever alerts of the other kind
come between. `AttemptsAreJustified`: a channel is tried again only after an
answer that may be retried and not beyond `kMaxAttempts`, and given up early
only past the deadline. `LastWordIsTrue`: for a device that stays as it is, the
last notice a channel took becomes the truth, unless the newest one was dropped by
the full queue or taken by no channel. *sustained_excursion* is the other half of
the promise `AlertsAreSpaced` checks: not only no storm, but one notification.

*algorithms.* `EverySensorIsRead`, over up to 3 sensors at 5 addresses of 3
kinds, two pairs of limits (a small one and the protocol's 125 registers), 6 kinds of
answers: each sensor in one block, blocks within the limit and as few as
possible, each value exactly what its registers hold, and no values from an unusable
answer. `DamageIsContained`, over segments of up to 3 batches with one unit
overwritten and cut at every half unit: nothing is delivered that was not
written, nothing whole is lost, what is lost is reported. `AcceptedConfigIsUsable`,
over documents and environments at the bounds of each field, part by part: what is
accepted is within what the other modules assume of the constants they take from
the configuration, wherever the values came from.

CHECK_DEADLOCK is off where the system may stop: the exporter, segment,
WebSocket, alert and algorithm runs end when what they consider is used up, and
a stopped poller is meant to come to rest. It is on for the ring and the log.

*Bounds.* `TxModulus` 3 keeps the id of the current request, of the one before
and the next apart, which is what the device model can confuse; the 2^16 ids of
the code reuse an id only after 65,536 requests, and an answer that late is not
considered. `MaxStream` 1 lets one unread frame wait while another is being read.
The capacities of 2 in the newer runs are the smallest with a full, a partly full
and an empty state; none of the code's tests distinguishes more than these. Each
property's mutant (`PROJECT.json`) shows that its case is reached within the bounds.

## 5. Fairness

- SpscRing: a thread inside a call goes on; nobody has to call.
- Exporter: a thread inside submit goes on (weak), a thread waiting for the
  mutex is granted it at last (strong: others may take it in between; every
  holder releases it in bounded time). Nobody has to submit or to call stop. The
  consumer, the clock and the disk are fair only where a property says so.
- WalStore: a handler or call that has begun is carried out, and the maintenance
  timer fires. Nobody has to record, read history or stop.
- WsConnection: io threads run what is queued on the strand, a thread that
  broadcasts goes on, an operation on a closed socket fails, and a write ends in
  success or failure: a client that stays connected takes what is sent to it,
  else TCP gives up. The client need not send anything.
- AlertPipeline: the worker and the publishing threads go on; a transport call
  returns (http_post sets 10 s timeouts). Nothing has to be read or reported.
- Poller: io threads run queued handlers and armed timers expire (weak). The
  device need never answer and no request need complete. `Spec` adds that the
  operating system ends a resolve or a connect, with success or an error, as
  resolver and TCP timeouts do. `SilentNetworkSpec` drops that.

## 6. Proofs

`SpscRingProofs` proves for all `Values`, every `Capacity` and `Modulus` with
`CapacityAssumption` (at least 2 slots; Modulus a multiple of Capacity, at least
twice; a power of two below 2^64 is a case of it) and `NoItemAssumption`:

- `TypeCorrect`, `SlotsAreOwned`: the two invariants of the run;
- `CachesLag`: a cached index lies between the other side's past and present,
  across the wrap.

SlotOwnership is not inductive: nothing in it says why a slot should be vacant.
`IInv` adds that a cached index only lags (`CachedIndicesLag`), that slot
numbers follow the indices across the wrap (`SlotsFollowIndices`, which is where
Modulus being a multiple of Capacity is needed), that the answer of the test is
still true when it is used (`ThereIsRoom`, `ThereIsAnElement`), and that exactly
the slots from head to tail hold elements (`SlotsAreOccupied`). The proof has a
lemma per action; lemmas about modular arithmetic (`SlotSucc`, `DistanceFacts`,
`DistanceSplits`) keep division out of them.

`RingIsAFifo`, in the same module: Spec implements the safety part of
BoundedFifo, for the same parameters. Each step of the ring is mapped to a step
of the queue (`PublishImplements`: storing tail is the push; `AdvanceImplements`:
storing head is the pop) or shown to leave `Contents` alone (`ConstructImplements`:
the slot being filled lies after the last element; `MoveOutImplements`: the
element moved out still counts). It uses IInv before and after the step. That
every call returns, the rest of BoundedFifo, stays with TLC.

`ReadingExporterProofs` proves all six invariants of `exporter` for any
set of io threads, any `QueueCapacity` of at least 2 and `BatchSize` from 1 to it
(`OptionsAssumption`, what Ingestor's validate() lets through), and any number of
submissions and starts: `TypeCorrect`, `ProducersTakeTurns`, `NothingIsLost`,
`StopDrains`, `CountersKeepUp`, `BatchesAreBounded`. `StoppedIsDrained` is the one
that is far from inductive. `IInv` explains it: the mutex is held exactly by the
thread inside submit (`MutexIsHeld`), so when stop() clears accepting_ under it
nobody is past the test (`AcceptedWhileOn`); the consumer sees a stop only after
that (`ConsumerFollowsMain`); so when it sees the stop and then an empty queue,
the queue stays empty (`LastRoundIsLast`), and `NothingLost` leaves the samples
nowhere but with the sink. `AllButOneCounted` makes `CountersFollow` inductive, and
`BatchesHoldSamples` is proved inductive relative to IInv.

`DevicePollerProofs` proves all invariants and action properties of
`device_poller` for every number of blocks (`BlocksAssumption`: at least one,
since the configuration refuses a device without sensors, config.cpp:298), every `MaxStream` from 1 and every `TxModulus` from 3
(`TxAssumption`): `TypeCorrectness`, `SingleActivity`, `PublishedReadingsAreWhole`,
`AnnouncedStatusIsEarned`, `LeftoverDeadlinesAreHarmless`. They are proved for any
order of expiries, completions and late, repeated or lost answers.
`OneThingAtATime` counts; the invariant says the same without counting
(`OnlyOneActivity`), since a step hands the activity on. `ReadingsAreWhole` needs
to know which requests a frame in the stream can still answer (`DeviceKnows`,
`StreamIsRecent`): the present one, the one before, or, while a late frame is
being read, the one before that. `IdBefore` and `IdAfter` then show where three
ids suffice: a late frame's id is never the current one (`LateFrameIsTold`). The
status rests on `StatusHasCause`: what leads to finish_cycle has heard the device,
what leads to fail_cycle has lost it or heard it.

`AlertPipelineProofs` proves the invariants and the action property of `alerts`
for any sensors, devices and numbers of detectors and channels, any cooldown,
and any limits of queue and attempts (`RuleAssumption`, `NotifierAssumption`,
`NotifiedAssumption`): `TypeCorrectness`, `AlertsKeepApart`,
`RetriesAreJustified`. `MemoryIsTrue` ties what the rule engine remembers to what
happened: `limit_state` is the side of the present stay, and each kind's cooldown
runs from the last alert of that kind an observer saw. `AttemptsSoFar` says, at
each place of run() and deliver(), what the answers so far were.

`WsConnectionProofs` proves both invariants of `ws_connection` for any set of
broadcasting threads and any limit of the outbox: `TypeCorrectness`,
`FramesArriveInOrder`. `SendersAssumption` only keeps the threads' names apart
from the kinds of the other frames. The life of a connection comes first
(`LifeInv`): until it is open, one token, an operation or its handler, moves the
handshake on (`HandshakeToken`); once it is open, one write is in flight, of the
outbox's first frame (`OneWrite`). `OpenInv` then follows a thread's frames
through four places, received, waiting in the outbox, posted on the strand,
aimed at by broadcast: they lie there in the order of their numbers (`InOrder`)
and none is missing between them (`NoneMissing`); the first of the outbox may
have been received already, which only `Acknowledged` tells.

`SegmentLogProofs` proves all four invariants of `segment_log` for any limits,
any sizes of batches, larger than a segment or not (`SegmentAssumption`), and any number of
batches, faults, crashes and steps of the clock: `TypeCorrectness`,
`BatchesAreKept`, `OldestDataGoesFirst`, `TheTotalIsBounded`. The files have
different names and hold different batches (`DirInv`); what the constructor and
the limit do to them is proved for any set of files. For the order of deletion
`AgeInv` relates the names, which carry time and sequence number, to the
batches: a file with an earlier name holds earlier batches while the clock does
not go back. For the total, `TotalInv` says that a segment is only begun
when there is room for a whole one, and that only a segment's first batch makes
it larger than that; the lemmas under it (`BytesOf`, `BytesAdd`,
`EnforceFits`) are about sums over sets of files and about removing files in
order until the rest fits.

`WalStoreProofs` proves all invariants of `telemetry_store` and the refinement,
for any capacity, batch size and retention and any number of samples, instants,
crashes and refused writes (`WalAssumption`): `TypeCorrectness`,
`YoungSamplesAreKept`, `TheRingFollowsTheLog`, `TheLogIsAJournal`. Samples are
numbered as they are recorded, and file, pending batch and the sample in hand
keep that order (`RecordInv`, `OrderInv`). Two sequences in that order with the
same elements are equal (`SameElements`); so `YoungInv`, which says of each young
sample by itself whether the log holds it, is all that
`YoungSamplesSurvive` needs, and it is inductive: one lemma, `LogStep`, covers
every step that moves samples within the log or loses some. A prune that holds
the lock has decided what stays (`PruneInv`, `Kept`), with a cutoff that only
gets older; nothing can be appended meanwhile. `MemoryInv` describes the ring by
what it shows; `PushShows` and `ReplayShows` do the modular arithmetic of
push(), recent() and replay for any capacity. The refinement maps an append that fills
the batch, a flush and the flush of a prune to Append1 and Persist, a rename to
Expire, a refused write or a shortened file to Damage, and the end of the process
to Crash. TelemetryJournal has no fairness, so this is the whole of
`ImplementsJournal`.

`AlgorithmsProofs` proves all three invariants of `algorithms`:
`EverySensorIsAlwaysRead`, `DamageIsAlwaysContained`,
`AcceptedConfigIsAlwaysUsable`. The runs try bounded sets of inputs; the
theorems hold for every list of sensors within the address space, limits of 2 to
125 registers, any gap and any contents of the registers (`SensorAssumption`,
`ContentsAssumption`), every segment shorter than the number that stands for a
garbage count, any unit of it damaged and cut anywhere (`SegmentAssumption`), and
every document and environment of the types of section 3 (`ConfigAssumption`). A
state holds a case and its result, so the lemma about states says no more than
that (`EveryStateIsAResult`); the proofs are about the operators:

- *Recursion.* TLA+ defines a recursive function by CHOOSE. That one exists that
  satisfies the equation is proved once (`RecursionExists`) and for each loop:
  the blocks of plan_reads, the batches of read_segment (`ReadingExists`, which
  runs from the end of the file, since every round of the loop moves on), the
  concatenation of lists, `Only`. What the function computes is then proved from
  the least, or the greatest, counterexample (`LeastOf`), for one given set: the
  library's induction theorems take an operator, which no installed prover can
  instantiate.
- *Requests.* The invariant of the loop of plan_reads (`Planned`): each sensor so
  far is in one block; the blocks reach from their first sensor to the last end
  of any; and the sensor that opened a block could not be read together with the
  block before. Two sensors that opened different blocks can then not share any
  request (`Apart`: either the request would be too long, or there is a stretch
  without a sensor wider than the gap that it would have to cross; this is where
  the sort is needed). So every plan needs as many requests as there are blocks
  (`PlanIsFewest`), whatever order std::sort left equal addresses in.
- *Bytes.* Request and answer are followed through the encoding: a frame with a
  PDU of up to 253 bytes is cut out of the stream and decoded to the words it
  was made of (`FrameIs`, `BodyIsDecoded`); every other kind of answer, and a longer
  one that no frame can hold, is refused (`OtherIsRefused`). Each sensor's words are in
  its block's answer (`WordsOfSensor`) and decode to what they stand for.
- *Damage.* From a position past the damage the reader delivers every whole batch
  (`ReadsAll`); at the damage it goes on behind the batch, or searches for the
  next header and cannot miss it (`SkipsNoBatch`, `PastDamage`); before it every
  batch is delivered in turn (`BeforeDamage`).
- *Configurations.* Each field is in its range or refused (`IntIs`, `ParseOrIs`);
  the lists of devices and sensors are taken element by element
  (`AllSensorsAre`); an id occurs twice exactly if there are fewer ids than
  elements (`NoRepeats`); the bit test of `IsPowerOfTwo` passes no number from
  2^4 to 2^24 but the powers (`CapacityIsAPower`).

The invariants `IInv` of these modules (and `AgeInv`, `TotalInv`) were checked by
TLC on the instances of the runs; that of ws_connection quantifies over all positions
of a sequence, which TLC evaluates with positions bounded by 7, more than either
queue of that instance ever holds. The bounds that only
cut the state space (`MaxTime`, `MaxCrashes`, `MaxFrames` and so on) are constants of the theorems like
the others: they hold for each of their values.

Only model-checked:

- liveness: `ImplementsFifo`'s fairness, `SamplesReachSink`, `StopReturns`,
  `SubmitReturns`, `RequestIsBounded`, `StopQuiesces`, `PollingContinues`,
  `PendingIsFlushed`, `ClosedIsReleased`, `QueuedIsDelivered` and `LastWordIsTrue`.
  Fairness and ENABLED are beyond the prover.

No safety property of a run that passes is only model-checked.

## 7. Findings and observations

*Connecting is not always bounded.* `poller_silent_network` checks `ConnectIsBounded`, the comment of
modbus_client.hpp:33, "Every connect and request is bounded by a timeout". TLC
finds it violated. connect() arms one deadline for the resolve and the
connection attempt together. If the deadline expires while the successful
completion of the resolve is already queued on the strand, its handler cancels a
resolver that has nothing left to cancel and closes a socket that is not open
yet. The resolve's handler looks only at its own error code (:72-82) and starts
`async_connect` (:83) with no deadline armed. From there only the operating
system ends the attempt, and with it the poller's cycle. The run lets a
cancelled lookup always end with an error, so the finding does not hang on how
the resolver treats cancellation. All other requests are
bounded (`RequestIsBounded`).

*The last flush comes too early.* `clean_shutdown` checks what wal_writer.hpp:53-54
says of `flush_all`, that it is called "on shutdown so nothing sits unflushed
indefinitely" (also docs/adr/0002, lines 36-37). main calls it (main.cpp:386)
before it stops the io_context and joins the io threads (:389-393). `stop()` does
not end a handler that is past its test of `stopped_`; what it records after the
flush stays in `pending_` and is gone at exit. The exporter is stopped after the
join for this reason (:395-396).

*Disconnecting a slow client.* `ws_too_slow` checks that being "disconnected
instead of buffering without bound" (ws_server.hpp:49-50) is all that happens.
`enqueue()` calls `close()`, which clears the outbox (ws_server.cpp:370), while
the completion of the write in flight may be queued with success; its handler
then pops from the empty deque (:358). The model marks this as `undefined` and
goes on with an empty outbox, so the other properties are about executions in
which the undefined operation did no harm.

*A sustained excursion without a notification.* rule_engine.hpp:45-46 says "A per-sensor
cooldown applies to each mechanism separately, so a sustained excursion produces
one notification instead of a storm" (also config.hpp:50-51 and
README.en.md:162). `sustained_excursion` checks `SustainedExcursionIsAlerted`: a stay
beyond a limit, of which a reading comes when the last limit alert is a
cooldown old, has been alerted. TLC finds it violated. An alert is raised, the
value returns or jumps beyond the other limit, and a new stay begins within the cooldown:
check_limits sets `limit_state` (rule_engine.hpp:141) and then suppresses the
alert (:142). The readings that follow find `limit_state` as they are and are
no news, however long the excursion lasts. That there is no storm holds and is
proved (`AlertsAreSpaced`).

Met while modelling, and not a run of their own:

- notifier.hpp:72-73 says that stop waits "at most `drain_timeout`". When the
  deadline passes, the call in progress is finished, and each channel that is
  left is still called once for the notification being delivered. Each of these calls may take
  ten seconds or more (http_post), so stop can wait longer by as many calls as
  there are channels. No property bounds this wait.
- `on_device_status` marks a device as told when it queues the notice
  (notifier.cpp:226), and `run` only passes on to a metric what `deliver`
  returned (:258-264). A full queue drops the oldest
  notification, which may be the newest about its device, and all channels may
  refuse one. Then the device stays marked: "back online" may follow a failure
  that nobody was told of, or a failure be told after a recovery nobody heard
  of, which the comment of :216-217 ("only worth saying if we said it went offline")
  leaves out. `LastWordIsTrue` excepts exactly these (`lost`).
- In a prune, `if (!out)` (wal_writer.hpp:187) comes before the data has left
  the stream's buffer; a write refused when the stream is closed goes unnoticed
  and a shortened file is renamed over the log. The model counts it as damage.
- A failed rename of a segment is counted as completed, and the file that keeps
  its `.part` is not counted by the size limit until the next start.
- The configuration does not relate the size of a batch to that of a segment, and
  `write_batch` does not ask: with `segment_max_mb` 1, `max_total_mb` 3 and
  `batch_size` 65536 (1.57 MB) every segment holds one batch and is larger than
  its limit, and the directory can exceed the "Upper bound for all segments in
  the directory together" (segment.hpp:65, docs/export-format.md:27-29) by what
  the newest is too large. `TotalIsBounded` states this bound, and that nothing
  else exceeds it.
- A system clock that is set back prolongs the cooldown of alerts, and lets the
  limit delete newer segments first.
- If the acceptor is closed while an accept handler is queued, the loop goes on
  failing until the io_context stops, a moment later in main.
- A damaged batch count that stays within the file makes the reader skip the good
  batches it covers; the comment of segment.hpp:147-151 promises the next batch.
  The count has no checksum; `DamageIsContained` excepts it (`LengthIsLost`).
- Environment overrides bypass the upper bounds of the document: 100000 hours of
  retention are accepted. `std::stoull` reads -1 as the largest number; validation
  or the width of the field catches it in every field where it matters here.
- ModbusClient compares only the transaction id of an answer, and
  accepts more registers than it asked for.

## 8. What is not modelled, and why

- The third-party parts (asio, TCP, the device, the clock, the disk) are modelled
  only as far as the code uses them: "external" in the map.
- HTTP server: its GET handlers copy from the stores under their locks and format.
  The one that changes state, history, is in WalStore.
- EventBus: its publish is a synchronous call, which the composing modules make
  directly; nobody unsubscribes. AlertLog, DeviceRegistry and Metrics are atomic
  containers nothing depends on. ThreadPool is not used by the program.
- The arithmetic of the poller's next tick, and size() of the ring as statistics
  read it: no decision depends on either but the moment of the next poll.
- Detectors: floating-point statistics; RuleEngine leaves their votes open.
- Serializer: decode_view and decode_copy, which the program does not call.
  Checksums are taken to tell payloads apart.
- Weak memory beyond what SpscRing says; exceptions thrown by allocation; a crash
  of the operating system, which could tear a record of the log.
- Formatting, JSON, hashing, wording, export_tool, dashboard, simulators, build.
