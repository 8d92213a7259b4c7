# TLA+ models of StarterCpp

This directory holds TLA+ models of the concurrent and protocol parts of
StarterCpp, the TLC configurations that check them on small instances, and
TLAPS proofs of the central results. `PROJECT.json` lists the components, the
runs, the source lines behind every definition, the hazards and the theorems.

## The system

| Component | State | Operations | How it interacts |
|---|---|---|---|
| HighBandwidthPublisher | socket, running flag, message id counter | constructor, publish, destructor | called by any thread; sends datagrams to a multicast group |
| HighBandwidthSubscriber | handlers, reassembly buffer, flags, socket, receive thread | subscribe, start, stop, destructor, receiveLoop | receives datagrams; calls handlers on its thread |
| DataHandler | queue, listeners, stop flag, two mutexes, worker thread | signalData, registerListener, unregisterListener, watermarkInfo, destructor | calls listeners on its thread |
| Timer | running flag, thread | startOneShot, startPeriodic, stop, destructor | calls a function on its thread, with its mutex held |
| SnoozableTimer | deadline, period, running flag, thread | start, stop, snooze, updateSnoozePeriod, destructor | calls a function on its thread, with its mutex released |
| PlaybackEngine | lines of the recording, two flags, playback thread | loadRecording, start, stop, destructor | publishes, and reports progress and the end, through callbacks on its thread; commanded by the web clients |
| Omniscope application | web socket connections, recording file and flag, transports, playback engine; three mutexes | onopen, onclose, the commands of the clients, onTransportMessage, destructor | Crow's worker threads on one side, the transports' threads on the other |
| TransportDds, DDSSubscriber, DDSPublisher | active topics, one poll thread and one reader per topic | subscribe, unsubscribe, isSubscribed, publishFromJson, destructor | implements ITransport over CycloneDDS |
| TransportZyre, ZyreNode, ZyreSubscriber, ZyrePublisher | active topics, handlers, two nodes, one receive thread | the same | implements ITransport over zyre |
| VITA 49.2 codec | byte order, scale factor | parse and encode headers, signal data, context packets, streams | called by the tool Vita49FileCodec and by tests |
| DDS and protobuf topic configuration, JSON dispatch | constant tables | look up | used by the transports |
| GeneralLogger, gRPC service, test programs, generators | – | – | I/O around third-party libraries |

What is hard about them:

* **Concurrency.** Every stateful class owns a thread, and its life cycle
  (start, stop, destructor) races with that thread: lost notifications, flags
  read before a lock is taken, threads assigned or joined twice, callbacks after
  stop, callbacks with or without a mutex held. In Omniscope several such classes
  meet: a client's command joins a thread that is inside the callback, with the
  transport's mutex held, while other clients wait for that mutex.
* **Unreliable delivery.** The high-bandwidth channel fragments messages over
  UDP multicast; datagrams are lost, duplicated, delayed and reordered, sends
  fail half way, and several threads or publishers interleave.
* **Time.** Reassembly timeouts, cleanup periods, poll timeouts, snoozing.
* **Arithmetic.** `size_t` wrap-around, rounding at fragment boundaries, 32-bit
  message ids; packets at their largest size, saturation and rounding of samples,
  values that span words in two byte orders.

`PROJECT.json` lists each of these at the line where it bites ("hazards"), with
the properties that watch it.

What correctness means for each: the channel delivers only whole published
messages, none after stop, and reclaims what will never be complete; the
DataHandler hands every datum to every listener in order and never calls a
listener whose removal has returned; the timers call their function no earlier, no more
often and no later (with respect to stop) than they promise; every stop and
every destructor returns; a transport calls back only for subscribed topics, in
order and once; a recording has all that was handled while it was on, and playing
it back publishes all of it in order; and what the codec encodes it reads back,
whatever else is in the stream and wherever the stream is cut.

## Modules

| Module | Models | EXTENDS |
|---|---|---|
| `Fragments` | what publisher and subscriber share: messages, datagrams, the fragment header and the `size_t` arithmetic of fragmentation | – |
| `HighBandwidthPublisher` | the publisher class | `Fragments` |
| `HighBandwidthSubscriber` | the subscriber class | `Fragments` |
| `LossyChannel` | abstract specification: a channel that may lose, repeat and reorder messages, and delivers nothing else | – |
| `HighBandwidth` | publishers, network and subscriber together; properties; refinement of `LossyChannel`; the inductive invariant | both |
| `HighBandwidthProof` | the theorems | `HighBandwidth` |
| `DataHandler`, `Timer`, `SnoozableTimer` | one class each | – |
| `DataHandlerProof`, `TimerProof`, `SnoozableTimerProof` | their theorems | the class |
| `Vita49Packet` | packet headers, signal data and context packets, as operators on words | – |
| `Vita49Codec` | the codec: what it encodes into a stream, and `parseStream` on any part of it | `Vita49Packet` |
| `Vita49FileCodec` | the round trip of the tool: parse, encode again, parse again | `Vita49Codec` |
| `Vita49Proof` | the theorems about packets, codec and round trip | `Vita49FileCodec` |
| `PlaybackEngine` | the playback engine with the callbacks Omniscope gives it | – |
| `PlaybackProof` | its theorems | `PlaybackEngine` |
| `Transport` | abstract specification: what `ITransport` promises, per topic and data instance | – |
| `TransportDds`, `TransportZyre` | one transport each, with the subscriber and publisher classes below it | `Mutex` |
| `OmniscopeApp` | the server: workers, both transports, recording, shutdown; refinement of `Transport` | both transports |
| `OmniscopeProof` | the invariant of the server and its theorems | `OmniscopeApp` |
| `TransportDdsProof` | the refinement of `Transport` by TransportDds | `OmniscopeProof` |
| `MCHighBandwidth`, `MCVita49`, `MCPlayback`, `MCOmniscope` | constants for TLC | the channel, the file codec, the playback, the server |

### The high-bandwidth channel

A payload is abstracted to the interval of byte positions it occupies: a chunk
is `[msg, off, len]`, so that splicing, gaps and overlaps can be told apart and
sizes stay exact. `publish()` is one action per packet (`PublishBegin`, then
`SendFragment` for each `sendto`), and other threads run in between; `SendFails`
is the early return in the middle of the loop, `PublishRefused` the ones before
it. `datagrams` is the set of all packets ever sent: a packet in it may be
received never, once or many times, at any later moment, which is loss,
duplication, delay and reordering in one. Sizes are `size_t` values modulo
`SizeMod`, message ids modulo `IdMod`.

The subscriber's thread is at the loop test (`LoopCheck`), in `poll`, or in a
delivery. `ProcessFragment` is `recv` and the whole of `processFragment` up to
the unlock; the handler is looked up (`LookUpHandler`) and called
(`CallHandler`) in separate steps because both locks are released in between.
`StopBegin` sets the flags and `StopEnd` is the join. `Tick` lets the ages of
entries, of the last cleanup and of the current `poll` grow, up to a cap beyond
which no comparison in the code can tell them apart.

### DataHandler

Every member function reads `_stopFlag` before it takes its mutex, so a call is
two steps (`Call...`, then the locked part). The wait of the worker is split into
taking the mutex (`WorkerLock`), testing the predicate (`WorkerTest`) and going
to sleep (`WorkerSleep`): a flag set and a notification sent without the mutex
can fall between the last two. A datum is its position in the order of pushes.
`unregistered` remembers the calls of `unregisterListener` that have returned, and
whether they found `_stopFlag` set: such a call (`UnregisterStopped`) returns at once,
leaves the listener registered and does not wait for the round of notifications that
is under way. The other functions do nothing when they find the flag set.
The destructor may only finish once no call is inside the object, which is the
caller's obligation in C++.

### Timer and SnoozableTimer

The timer's thread holds `_mutex` except while it is blocked, so the owner of the
mutex is a function of where the thread is (`Locked`). Timer abstracts intervals:
a wait may time out at any moment. SnoozableTimer keeps discrete time, as the
time that is left until the deadline. `wait_until` takes `_executionTime` by
reference: the kernel waits for the deadline at the start of the wait (`wakeAt`),
and whether the wakeup counts as a timeout is decided with the mutex held again
by the deadline of that moment (`Wake`), as libstdc++ does.

### The VITA 49.2 codec

A buffer is a sequence of words: every length test of the code is one on whole
words. `Vita49Packet` has one operator per function or check of the packet
classes, on the bit fields of word 0, the halves of a sample and the bits of CIF0;
the width of the size field and of a sample are parameters, so that a packet can
be filled in a small instance. The byte order is visible where it matters on
words: in 64-bit values and in the order of I and Q. A float or double is given
in half steps of the integer it is scaled to, which keeps rounding and saturation;
the precision of floating point itself is left out (a frequency whose raw value is
beyond 2^53 is rounded when it is read, and one near 2^63 overflows when it is written
again), and so is a level or a gain beyond 16 bits, whose conversion is undefined in
C++. `Quantise` has the cast of `lroundf`'s `long` to `int` that precedes the clamp: a
scaled sample beyond the range of `int` wraps around and may change its sign.
`IntBits` is twice the width of a sample, as 32 is of 16. `FitsInt` is the condition
under which `SamplesSurvive` speaks of a sample's value.

`Vita49Codec` has an action for each call of an encoder, with a history of what it
was given, and one for each turn of `parseStream`'s loop on any leading part of
the stream. `PutPacket` adds packets that other equipment may send: other types,
class identifiers, fields and types the codec does not know, impossible sizes, and
a full packet without a stream identifier. `OtherPacketAssumption` says what each is:
its size field never promises more words than it has, and it is well formed exactly if
`parsePacket` accepts it alone. `Vita49Assumption` asks for a size field that has room
for a header and a sample, `CodecAssumption` for fields that have a width, and
`PowersOfTwo` states the law of exponents, which the prover does not have; TLC
evaluates all of them on the run's constants.

What was read back is compared with what was given result by result: `SamplesSurvive`
says where in the call's samples each packet's samples stand, and `PacketsNumbered`
that the first packet of a call has the count the encoder was given and each next one
the count after it, modulo 16. `HeadersSurvive` asks for the given timestamps in the
first packet of a call only, for which `Vita49Codec.h:102-103` documents them; the code
repeats them in every packet of the call, which the model has and no property demands.
Where a buffer ends within a packet, `ParsesEveryWholePacket` speaks of the calls whose
words lie wholly in the buffer; of a call that is cut, `SamplesSurvive` says that a
prefix of its samples is found.

`Vita49FileCodec` adds what the tool's `doRoundTrip` does with the packets that
were found: `ReEncode` calls the encoder of the packet's kind with what the header
says, and `DoRoundTrip` parses the result. A packet without a stream identifier
gets one and grows by a word, so a full one is split. `ParseAll` is all of
`parseStream` in one step, as a recursive function over the turns of its loop (`Turn`);
a loop that has ended repeats its last state.

### PlaybackEngine

Callers (`loadRecording`, `start`, `stop`, the destructor: each stops the old playback
first) share one playback thread; the run has one caller. A line of the recording is no
JSON, and is skipped, or it has or lacks a topic, a timestamp and data of which a message
can be made. What a line lacks throws where it is read: the timestamp of the first line
before the loop (`BaseTime`), timestamp and topic at the head of the loop (`Loop`), data
and its fields when it is published (`Publish`). Nothing in the thread catches it, so the
program ends (`Terminated`), and nothing else happens then. `stop()` is split at the flag, the notification, the join
and the last store, none of which holds `_stopMutex`; the thread's `wait_for` is
split at its test and its blocking, so the notification can be lost in between and
the end of the wait (at most 5 s, `TimesOut`) is what lets `stop()` return.
`events` is what the web clients are told, `sent` the lines that went to the transports.

### Omniscope and its transports

A web client is served by one worker at a time, so each worker stands for a client
as well. A command is split where the code takes or releases a mutex or joins a
thread: `subscribe` of TransportDds, for example, is `Subscribe` (mutex, new
reader, thread started), `Insert` (activeTopics, mutex released) and one
`ListTopic` per topic for the answer. `ddsMutex`, `zyreMutex` and `wsMutex` hold
their owner; `recMutex` and `_handlersMutex` are never held across a step. The
threads of the transports run their loop (`Poll`, `Receive`) and
`onTransportMessage` (`Record`, `BroadcastLock`, `SendText` per connection,
`BroadcastUnlock`). `DestroyImpl` is the end of `run()` and the destruction of all
members but the transports; the destructors of the transports follow, step by step,
while their threads go on.

DDS and zyre are external. A sample or a shout is put into the reader or the inbox
at once, or is lost. The DDS topics are keyed (`sensor_id`, `track_id`), and the values
of a key are the data instances of a topic: a reader keeps the last `Depth[t]` samples
of each instance, and `take()` returns the samples of one instance after those of
another, in an order of instances that DDS chooses (`PollNextSample`). A Zyre topic is
one instance. Messages of an instance are numbered, which is all that order, loss and
repetition need. Their conversion from and to JSON succeeds or fails; a missing field,
for which `fromJson` throws, is a case of the playback, which alone publishes from JSON. What playback publishes is, to the transports,
one more publisher.

`Transport` knows for each instance how many messages were sent and the latest message
that may no longer be passed on, and for each topic whether it is subscribed and whether
the callback runs. It promises the order of each instance and nothing across instances. The mapping takes a topic as subscribed from the first step of
`subscribe()` to the last one of `unsubscribe()`: the thread may call back before
`activeTopics` knows the topic.

## Runs

Passing runs:

| Run | Checks | Bounds, and why they are enough |
|---|---|---|
| `channel` | only whole published messages are delivered; none after `stop()`; the channel implements `LossyChannel` | two messages of 1 or 2 fragments from two threads, any loss, duplication and order, one restart of the subscriber (a second socket), with an entry left over from before it; the two threads are interchangeable (symmetry): splicing needs two messages and two fragments |
| `one_message` | the fragments of a message partition its payload; no packet exceeds the MTU; `stop()` and the destructor return; stale entries go away as long as `poll` times out now and then | one message; 4 bytes per packet after the header, topics of 1 and 4 bytes, so that the first packet has room for 3 bytes or for none, payloads of 0, 3, 4, 7 and 8 bytes, on both sides of every boundary from 1 to 3 fragments; what a reassembly entry does to others is the question of `channel` |
| `datahandler` | listeners hear consecutive data; none once `unregisterListener` has returned, unless it found `_stopFlag` set; data leave the queue; the destructor returns unless its notification falls between the worker's test and its wait | two clients, three data, two listeners: a gap needs a datum on each side of it |
| `timer` | a running timer can be started again; no call after stop; a one-shot timer calls once; `stop()` returns without the interval running out; a timer left alone calls its function | one owner; the state space needs no bound |
| `snooze` | no call before the period since the last snooze, none twice, none after stop; `stop()` returns; a snooze is noticed and the call comes | two snoozing threads, periods 0 and 2, so that a snooze can shorten and lengthen the wait |
| `vita49` | samples (that fit an `int` once they are scaled), headers and context fields are read back as they were given; the packets of one call are numbered and full; `parseStream` finds every whole packet before the first bad one, for every cut; what it found is bit-exact after encoding and parsing again | two calls, so that one packet can disturb the next; a size field of 5 bits (31 words, longer than any context packet) and 56 samples, which is two or three packets with every choice of timestamps and trailer, two of them beyond the `int` of 6 bits; counts that wrap; both byte orders; scale factors 0 and 2 |
| `playback` | no thread runs that nobody can join; what is published is the recording in order, up to where it was stopped; the end is reported once; nothing is published after `stop()`; `stop()` returns and a playback ends, unless a line ends the program | no line; a recording with a pause and two lines out of order; a line that is no JSON first or within; lines without a timestamp, a topic or data to publish, first or not; the calls need no bound |
| `omniscope` | Zyre messages come in order and once; broadcasts go to connections that exist; every command returns; shutdown ends with all threads joined | two clients, one topic per transport, two messages, four commands: connect, subscribe and unsubscribe, and another client that connects and waits for a mutex meanwhile; a reader that holds one sample, so that it overflows |
| `dds_recording` | TransportDds implements `Transport`; recordings are complete and in the order of each instance | two clients, one topic with two keys and a reader that holds two samples of each; three messages, so that two of one key stand on both sides of one of the other, and a cache can overflow; six commands: two connections, a subscription and a recording that is started, stopped and started again by either, or a subscription that is ended and renewed; clients, and keys, are interchangeable (symmetry) |

Violation runs show where the code does something else than a comment or a
document of the repository says ("findings" in `PROJECT.json` quotes the lines):

| Run | Shows |
|---|---|
| `two_publishers` | two publishers on a group use the same ids, and their fragments are spliced into one delivery |
| `zyre_unsubscribe` | `unsubscribe()` of a Zyre topic takes it out of `activeTopics`, which no callback looks at: TransportZyre does not implement `Transport` |
| `omniscope_shutdown` | the transports are destroyed last, so that their threads use `recFile`, `wsMutex` and `wsConnections` after these are gone |

Seen while modelling, without a run of their own:

* HighBandwidthSubscriber cleans up only when `poll` times out, so on a busy group
  a message can be delivered long after its timeout; `stop()` keeps incomplete
  messages, although the header says that they are discarded, and leaves its socket
  open, so a restart leaks it. A topic longer than a fragment's payload wraps the
  publisher's free space around. (A topic that fits has a length that the 16 bits of
  the header hold, so the cast of its length is the identity in the model.)
* DataHandler's destructor sets `_stopFlag` and notifies without `_cvMutex`: if the
  worker is between its test and its wait, `join` never returns. Its worker ends
  with data in the queue, `unregisterListener` during the destruction returns while
  the worker may still call the listener, `watermarkInfo` reads the queue's size under the wrong
  mutex, and a listener that calls back into the object waits for itself.
* Timer: starting a one-shot timer that has fired assigns to a joinable thread and
  terminates the program. Concurrent starts are not synchronised, in spite of
  `docs/DESIGN.md:89` (the model has `joinable()` and `join()` of `stop()` in one step,
  which only two callers at once could tell), and a function that stops its own timer
  waits for itself.
* SnoozableTimer: a `snooze()` made while the function runs is overwritten when it
  returns. `start` is not synchronised with `snooze`.
* PlaybackEngine: `apps/Omniscope/DESIGN.md:191` says that `stop()` wakes the thread
  immediately; in the window above it takes up to 5 seconds. Two clients that start
  and stop at once join the thread twice, or assign to a joinable one. The clients
  hear `playback_started` after `start()` has returned, possibly after
  `playback_finished`, and then show a playback that has ended. A line that lacks its
  topic, timestamp, data or a field of its data ends the program.
* Omniscope: a recording whose file cannot be opened is reported as started; two
  recordings within a second have the same file name, and the second truncates the
  first; the topic list is put together topic by topic and may mix two states.
  The messages of two keys of a DDS topic may be recorded in another order than they
  were published in.
* Packet headers: `serialize()` writes an optional part if its value is set,
  `sizeInWords()` counts it if its flag is; both encoders set them together. A level
  or gain beyond 256 dB has no defined conversion. A sample that is beyond the range of
  `int` once it is scaled is cast before it is clamped (`SignalDataPacket.cpp:144-147`):
  65536.0 with the scale factor 32768 is encoded as -32768, although the test
  `ScaleFactor_LargeValuesClamped` has large values clamped to full scale with their sign. `encodeSignalData()` gives every
  packet of a call the timestamps that `Vita49Codec.h:102-103` describes as those "for
  first packet".

Deadlock checking is off where the program may stop for good: objects get
destroyed, and bounded numbers of calls are used up.

### Fairness

A thread that can run does run (weak fairness of its steps), a thread that asks
for a mutex gets it in the end (strong fairness where others keep taking it), and
callbacks return. Nobody is obliged to call anything, the network is obliged to
nothing, and a spurious wakeup is never relied upon. `PollTimeoutsDrain` states
its own assumption, that `poll` times out again and again. In the two timers
`stop()` is shown to return without any assumption about time; the properties
that say that the call comes in the end (`TimerFires`, `SnoozeFires`) state as
their hypothesis that waits end at their deadline, for Timer with strong
fairness, because the deadline of `wait_for` is fixed before its first wakeup.
The playback's `TimesOut` is strongly fair for the same reason: a spurious wakeup
does not move the deadline. In Omniscope each worker and each thread is weakly fair
as a whole; clients, messages and the end of the server are up to the environment.
A mutex that is taken again and again could starve a thread under weak fairness,
but messages and commands are bounded here, so nothing in the results rests on how
mutexes are handed over. `zyre_event_new` is not assumed to return without an event:
`ShutdownEnds` rests on the STOP event alone.

## Proofs

`HighBandwidthProof` is checked by TLAPS for every number of publishers,
threads, topics, handlers, every MTU, header size, payload size and counter
width that satisfies the assumptions of `Fragments` and
`HighBandwidthSubscriber` (`FragmentsAssumption`: sizes are naturals, the MTU is
larger than the header, and a topic and a packet have a length that `size_t` can
hold; `SubscriberAssumption`: times are naturals).

* `TypeCorrect`: the type invariant of publishers and subscriber, and `PubInv`.
* `ReassemblySafe`: `ReassemblyInv`, if `IdsNotReused`.
* `DeliverySafe`: `DeliveredWasPublished`, if `IdsNotReused`.
* `PacketsFit`: `PacketsFitMtu`, if every topic fits into a fragment (`TopicsFit`).
* `Refinement`: the channel implements `LossyChannel`, if `IdsNotReused`.
* `PublisherPartitions`, `ChannelPartitions`: `FragmentsPartitionPayload`, of the
  publishers alone and within the channel.
* `StopIsFinal`: `NoCallbackAfterStop`.

`IdsNotReused` (one publisher whose counter has not wrapped) and `TopicsFit` are
hypotheses of the theorems and not assumptions of the model. The run
`two_publishers` shows what happens without the first. Without the second,
`firstFragPayloadSpace` wraps around and one packet larger than the MTU is built
(give `one_message.cfg` an `Mtu` of 15, less than the header and the longer topic, to see it).

The argument. `DeliveredWasPublished` is not inductive: it says nothing of the
packets under way. `PubInv` says that every packet on the network equals the
closed form of some fragment of a published message (`IsFragment`), for which
`CallInv` ties the running `payloadOffset` of the send loop to `Offset(m, k)`.
The arithmetic is in `OffsetSteps` (offsets never decrease and advance by at most
a fragment's room) and `OffsetEnds` (the number of fragments computed up front is
the one at which the loop has sent everything; this is where the rounding and the
wrapped free space matter). `ReassemblyInv` says that every entry of the buffer
holds fragments of one message with the entry's id, each in its place; receiving a
fragment keeps that because ids tell messages apart (`IdsUnique`). A complete
entry then is the whole message. The refinement follows: a delivery maps to the
message it is the whole of. `FragmentsPartitionPayload` adds that fragments go out in
order (`SentInv`: a call has sent all fragments before its next one, and whenever a
fragment is out, those before it are). `StopIsFinal` needs `LoopIsOwned`: the receive
thread is in its loop only while the subscriber is running or its owner is inside `stop()`
or the destructor.

`DataHandlerProof` holds for every finite set of clients and any number of data and
listeners (`DataHandlerAssumption`).

* `TypeCorrect`; `DeliveredInOrder`: `HeardInOrder`; `UnregisterIsFinal`:
  `NoCallAfterUnregister`.

`HeardInOrder` needs to know what is still to come: `QueueInv` says that the queue
holds the data after the one the worker took last, and `HeardInv` that a registered
listener has heard up to that one, or up to the one before it while its turn is due.
`RoundInv` keeps the listeners of a round registered, because `_listenersMutex` is
held, and `GoneInv` says that a listener whose removal has returned is registered only if
that call had found `_stopFlag` set. `_cvMutex` plays no part: with one worker it matters only for liveness.
`BoundInv` counts the calls under way and keeps the model's own bounds.

`TimerProof`, for every set of callers:

* `TypeCorrect`; `FiresOnce`: `OneShotFiresOnce`, from `SpentEnds`: a one-shot timer
  whose function was called never comes back to its wait.
* `RestartIsSafe`: `RestartSafe`, and `StopIsFinal`: `NoCallAfterStop`, if `OneCaller`.
  This hypothesis is needed: with two callers a start sets `_isRunning` again between
  the flag and the join of the other's `stop()`. `UnjoinedInv` says that outside of
  `stop()` a thread that was not joined belongs to a running timer or to a one-shot
  timer that has called.

`SnoozableTimerProof`, for every set of users and every set of periods
(`SnoozableTimerAssumption`):

* `TypeCorrect`; `NeverEarly`: `NoEarlyCall`; `NeverStray`: `NoStrayCall`.

`DeadlineInv` says that the time that is left and the time since the last snooze make
up at least the period, and `SpentInv` that after a call, until the next snooze, the
deadline is out of sight.

The type invariants of these three classes and of the channel are not invariants of a
run: the theorems `TypeCorrect` cover every instance.

`PlaybackProof`, for every set of recordings of any length (`PlaybackAssumption`):

* `TypeCorrect`: `TypeOK`, for any number of callers: no thread runs that nobody can join.
* `ReplayIsExact`: `ReplaysRecording`, `EndIsToldOnce`: `EndsOnce`, and `StopIsFinal`:
  `NothingPublishedAfterStop`, if `OneCaller`.

Without `OneCaller` they are false: a second caller may clear `_stopFlag` between the
flag and the join of the first. `Owned` says that between the end of `stop()` and the
creation of the next thread there is none, `Running` what the thread has told and why
it left its loop, `Replayed` that what went out is exactly the well-formed lines
before the thread's place. `ReplaysRecording` speaks of the positions in `sent` and
`events`, so that the order (`PublishesInOrder`, `ReportsInOrder`) is an invariant of
appending and needs no induction.

`OmniscopeProof`, for every number of workers, topics, data instances, messages and
commands and every reader depth (`OmniscopeAssumption`):

* `TypeCorrect`: `TypeOK`; `LiveConnections`: `SendsToLiveConnections`;
  `RecordingSafe`: `RecordingComplete`; `ZyreOrdered`: `ZyreInOrder`.

All rest on one invariant (`Invariance`), whose parts say who may hold each mutex and
where (`WsLock`, `TransportLocks`), that a topic has a poll thread from the first step of
`subscribe()` to the join (`PollThreads`, `Handlers`, `Calls`), that the samples of an
instance in a reader or among those taken, and the shouts in the inbox, are in the order
they were sent and later than what was passed on (`DdsOrder`, `ZyreOrder`), and what the recording holds (`Recording`).
A broadcast sends to connections that exist because the worker that would remove one
waits for `wsMutex`; it is the mutex, and not the order of anything, that makes it safe.

`TransportDdsProof` shows from the same invariant that TransportDds implements `Transport`
(`DdsRefinesTransport`), instance by instance: every step is one of the abstract operations or
none, under the mapping of `OmniscopeApp`.

`Vita49Proof`, for every width of the size field and of a sample, all sample runs, fields,
stream identifiers and sequences of calls, and for the scale factors 0, 1 and 2, with which
half steps stay whole; `SampleRoundTrip` and `SamplesHold` speak of the value of a sample
if it fits an `int` once it is scaled. The first half is about the operators:

* `HeaderRoundTrip`, `SampleRoundTrip`, `FieldRoundTrip`: a header, a sample, a context
  field is read back from its words. They are the arithmetic of bit fields, of saturation
  and of the two halves of a 64-bit value.
* The words of each encoder are `Parted` into packets (`SignalParted`, `ContextParted`,
  `OtherParted`): there is a sequence of places at which packets begin, each packet's size
  field is the distance to the next place, and the places cover all words.

The second half is about the specification:

* `TypesHold`: `TypeOK`; `HeadersHold`: `HeadersSurvive`; `FieldsHold`: `FieldsSurvive`;
  `NumbersHold`: `PacketsNumbered`; `SamplesHold`: `SamplesSurvive`; `WholePacketsHold`:
  `ParsesEveryWholePacket`.

Their invariant (`Invariant`) says that the calls follow one another and cover the stream
(`CallsOK`), that the stream is cut into packets at some set of places (`Cut`), that the
reader stands at one of them (`ReaderOK`), and that each result is the one of the packet
at its place and the next result's packet begins where it ends (`EntriesOK`,
`RefusedAhead`). Two facts make it inductive: appending to the stream leaves the packets in
it alone, and what `parsePacket` returns depends on the packet's own words only
(`PacketSeen`). The set of places is quantified in the invariant, which is too much for TLC
to enumerate; the run checks the properties themselves. `SamplesHold` adds an induction
along the results of a call. It goes through `SetInduction`, which is induction for a set of
naturals: the library's own takes an operator, which the provers cannot instantiate. The
recursive functions of the model are shown to exist in the same way.

The last part is about the round trip of the file codec:

* `RoundTripHolds`: `RoundTripExact`.

The property compares two parses, and the stream of the second depends on what the first
one found. Its argument has three steps. A value that was read needs no rounding and
cannot saturate: it is an even number of half steps within the width it came from
(`SampleAgain` for samples, `FieldRead` and `ContextFound` for fields), so storing and
reading it is the identity, where `SamplesHold` and `FieldsHold` allow half a step. A
context packet that was read fits when it is encoded again: a class identifier and the
fields the codec does not know go away, nothing is added (`FieldsFit`), so
`encodeContext` does not refuse it (`ContextReEncoded`); signal data need no such
argument, because `encodeSignalData` splits them anew. And the loop of `parseStream`
over the new packets finds them one after the other: `Reads` says that after some turn
it stands at a place with given samples and fields found, `ReadsOne` takes it over one
packet, `SignalAgain` by induction over the packets made of one result, and
`RoundTripInv` by induction over all results. The invariant provides what it starts
from: that each result is the one of a whole packet.

The hypotheses of theorems, as opposed to assumptions of the model, are four:
`IdsNotReused` and `TopicsFit` of the channel, and `OneCaller` of Timer and of
PlaybackEngine.

Every safety invariant and action property of a run is stated by a theorem, or is
refuted on purpose by one of the three runs that expect a violation. Only model-checked is
liveness (`StopReturns` of four classes, `PollTimeoutsDrain`, `QueueDrains`,
`DestroyReturns`, `TimerFires`, `SnoozeFires`, `PlaybackEnds`, `CommandReturns`,
`ShutdownEnds`), because fairness is outside what the prover supports.

## Not modelled

* Address parsing and socket options: only whether construction succeeds.
* Contents of payloads, protobuf serialisation, logging.
* Datagrams from other programs on the group.
* Callbacks that call back into the object that runs them.
* The HTTP and web socket protocols, JSON, file names, and zyre's and DDS's
  discovery: a message may be lost whenever they matter.
* Two callers of one PlaybackEngine at a time are in the model and in the theorem
  `TypeCorrect`, with the outcomes that terminate the program, but in no run: the calls
  are not synchronised, and what they do to `_lines` and `_thread` is undefined.
* Playback within `OmniscopeApp`: it publishes like everybody else, and its
  callbacks take `wsMutex` alone, as `onTransportMessage` does; nobody waits for the
  playback thread with a mutex held.
* A restart of a ZyreNode, which nothing in the repository does.
* The components with status `not_modelled` in `PROJECT.json`: constant tables, a
  wrapper of the logging library, a browser page, a demonstration of gRPC whose
  handlers are one locked statement each, test programs and a build-time generator.
  None has state whose changes could interleave with anything modelled here.

## Plan

Open, in the order in which it would be worth doing:

1. An abstract specification of what TransportZyre does satisfy: the order and
   at-most-once delivery of `Transport` without silence after `unsubscribe()`. The order
   is proved as an invariant (`ZyreOrdered`).
2. Runs with two callers of PlaybackEngine, once its calls are synchronised.
