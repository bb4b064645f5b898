# A TLA+ model of trigger-daq

trigger-daq acquires data from a small device and serves it to browsers. The
device streams samples, or waits for a trigger and sends a *burst* of data
packets; a gateway receives the frames, collects the bursts and offers them for
inspection, saving and deletion. This directory holds the models of that
system, the TLC configurations that check them on small instances, and the
proofs about them. File references are relative to `src/`.

## 1. The system

| Component | Source | State | Operations |
|---|---|---|---|
| Device application | `device-simulator/app.c`, `main.c` | mode, status, enabled channels, the trigger record, timers | one handler per command, the periodic task, the main loop |
| Transmit and receive rings | `device-simulator/protocol/io_buffer.c` | two byte rings | feed, extract a frame, enqueue, dequeue |
| Frame format | `protocol/protocol.c` (three identical copies) | none | build, parse, CRC |
| Transports of the device | `transport_tcp_client.c`, `transport_test.c` | two sockets | init, wait, recv, send |
| Threaded transport | `examples/chunk-stream/` | block pools and queues of both directions, a flag with its condition variable | send, receive, delivery by the driver, the sending thread |
| Interrupt transport | `examples/baremetal-chunk/` | two byte rings, the operations of the hardware | send with rollback, drain, interrupt handlers |
| Gateway device task | `data-gateway/src/device_communication.rs` | connection, parser buffer, `trigger_active`, `current_trigger` | connect, commands, ping, read and dispatch a frame |
| Gateway event loop | `data-gateway/src/main.rs` | packet count, connection status | one branch per event kind |
| Data processor | `data-gateway/src/data_processing.rs` | numbering, open burst, cache of completed bursts | process packet, start, complete, remove, reset, export |
| Web server | `data-gateway/src/web_server.rs` | mode, collection flag | control, list, save, delete, files |
| WebSocket server | `data-gateway/src/websocket.rs` | client table, subscriptions, mailboxes, broadcast channels | broadcasts, connect, messages, close |
| File manager | `data-gateway/src/file_manager.rs` | a directory | save, list, clean up |
| Second device program | `device-simulator-cli/` | its own mode, trigger and buffers | commands, simulation step |
| Command-line reader | `protocol-cli/serialread.c` | connection, frame batch, output file | keys, receive, batch, flush, next file |

How they interact. Users call the web server, which posts commands on a channel
to the device task. The task writes them to the link as frames; the device
handles each in the main loop and answers it. The device's own frames (data
packets, trigger events, completion signals) travel back, the device task labels
each data packet with what *it* believes about mode and trigger, and posts an
event on an unbounded channel to the event loop. The loop calls the data
processor under its mutex. The web server calls the same processor to list,
save and delete. Each of these tasks is connected to the next by a queue only;
nobody waits for an acknowledgement.

What is hard here:

* *Order across tasks.* Three parties (device, device task, processor) each keep
  a notion of "the current burst", and no frame but the trigger event carries
  an identification. Their agreement rests on order alone, while mode
  commands change each party's notion at a different time.
* *Cut-off bursts.* A stop, a restart or a mode command may come at any point of
  a burst; which of `armed`, `occurred` and `sending` each of them clears
  decides what the device does next.
* *Loss.* A full transmit ring drops single frames, a failed send loses one, a
  broken link loses all that is on its way, and no command is repeated.
* *Time.* The device's clock is a 32-bit counter, sampled once per pass of a loop
  whose passes vary in length; one timer subtracts and the other compares.
* *Bytes.* A receiver sees chunks of any size, noise and damage; what it keeps
  of them, and how far it believes a length, decides whether it finds the next frame.
* *Threads and interrupts.* Two of the device's transports share queues between the
  main loop, a thread and interrupt handlers, and leave their critical sections to
  call the hardware.
* *Two steps in a handler.* The web server stores a mode and then posts the
  command; a save asks the processor again for every format; the WebSocket
  server enters a client into its table before it greets it.
* *Bounded cache.* The completed bursts are kept in a map whose keys are made of
  a device timestamp that recurs and a wall clock that may be set.

What makes each component correct:

* Device: the frames of a burst follow one another with nothing foreign in
  between; the completion signal follows the last of them; packets keep their
  distance; a burst ends; a waiting trigger fires.
* Transmit path: what the peer receives is what was produced, in order,
  possibly with gaps, and in whole frames.
* Receive path: good frames come out, damaged ones do not, nothing is made up, and
  the parser ends.
* Stream transports: a block has one holder, no byte is lost after it was accepted,
  none overtakes another, and the sender does not sleep over a full queue.
* Processor: the cache is bounded, never loses the newcomer, evicts the oldest
  and never changes a completed burst.
* Device task with event loop and processor: a packet is never filed under a
  burst of another trigger; the numbering of a burst is its position; a
  burst is closed by its own signal; an undisturbed burst is whole; a finished
  burst arrives; both sides agree on the mode; the connection status settles.
* WebSocket server: a client sees what it subscribed to, in order and without holes,
  and is counted while it is there.
* Saves: the directory keeps its limit, and what a save reports is there.
* Second device program: a closed burst is whole, stamps advance, a burst ends.
* Reader: every frame is in the files once, in order, and the files are full.

`PROJECT.json` lists every component with its state of modelling, and under
`hazards` each place in the code where one of these could go wrong.

## 2. Modules

```
DeviceApp ──┬── BurstSource ──────────────┐      Frames ─┬─ FrameDamage
            └── TriggerDevice             │              └─ FrameLine ─┬─ RxRing
                  (implements BurstSource)├── Acquisition              └─ FrameParser
DeviceManager ────────────────────────────┤
BurstProcessor ──┬────────────────────────┘
                 └── BurstFeed

below the device:    TcpLink  ChunkStream  BmStream
above the processor: WebControl  BurstSaves  WebSocketHub
other programs:      DeviceCli  CsvData  SerialRead
```

**DeviceApp** translates `app.c`. Its variables are the fields of `g_app`
without the timers. Each `case` of `app_handle_command` is an action
(`SetModeTrigger`, `StopStream`, ...; the ones that only answer are
`AnswerOnly`), `ReplyTo` is the one answer every command gets, and each path of
`app_periodic_task` that produces frames is an action (`FireEvent`,
`SendBurstPacket`, `CompleteBurst`, `SendStreamPacket`). `FireEvent` covers the
fall-through of the code: the call that sends the event goes on to the data
phase and sends the first packet if it is due. The history variable `last` is
the last frame the device produced on its own. The millisecond stamp that names
a burst is its ordinal modulo `StampMod`. A frame is a record of its command
and what the properties tell apart; the completion signal, which has no payload
in the code, carries its burst and length for the properties' sake only, and no
action reads them.

**BurstSource** is the abstract specification of the device: the application,
and a sequence `out` of frames on their way. `Emit` appends a frame or, if
`Lossy`, drops it; `Deliver` and `Lose` take one away.

**TriggerDevice** is the device as it runs. `pc` follows one pass of `main.c:127-148`:
`LoopTop` lets one to `MaxPass` time units pass and samples the clock once,
`RxCommand`/`RxDone` are `app_process_rx_buffer`, `Periodic` is
`app_periodic_task` with the sampled time, `TxSend`/`TxFail`/`TxDone` are
`app_process_tx_buffer`. `Elapsed` is the subtraction of two unsigned
clock values, `TriggerDue` the comparison of `app.c:301`. `Enqueue` is
`enqueueTxFrame`: a frame that does not fit whole is dropped and its caller goes
on. `gap` and `restarted` are history variables that measure the time between
two data packets.

**BurstProcessor** translates `data_processing.rs`. Every public operation runs
under one mutex and is one action. `Trimmed` returns a *set* of caches: bursts of
equal age are told apart only by the iteration order of a hash map.
**BurstFeed** calls it in any order the event loop and the web server can,
with a wall clock read twice per burst, as the code does.

**DeviceManager** translates the device task: `Connect`, `ReadError`,
`KeepAlive`, `HandleCommand` and `HandleFrame` with a branch per frame kind.
The labelling state changes when a command is written, whether or not the write
succeeds, because that is what `handle_command` does.

**Acquisition** instantiates BurstSource, DeviceManager and BurstProcessor and
adds the link (`Break`, the two directions `out` and `down`), the event loop
(one `On...` action per event of `main.rs` that changes state) and the users.
`disturbed` and `closings` are history variables: which bursts met something on
their way that the code does not guard against, and what each burst held when
it was closed.

A broken link that returns stands for a serial line, or a TCP connection to a
device that accepts again. The TCP transport in this repository accepts one
client (`main.c:113`); a gateway that reconnects to it is never answered, which
is the behaviour in which the device takes no further step.

**Frames** is the frame format: the CRC with its polynomial, `buildFrame` and
`parseFrame` with their checks and 16-bit lengths. **FrameDamage** sends one frame
through a line that inverts some neighbouring bits. **FrameLine** is what two
receivers have in common: a stream put together from frames and from other
bytes, read in chunks of any size. **RxRing** is the receiver of the C programs,
`io_buffer.c`: `feedRxBuffer` drops what does not fit, and `tryExtractOneFrame` is
`TakeFrame`, one frame per step, until none is left. The ring is the sequence of the bytes
between its indices. **FrameParser** is the Rust receiver, `ProtocolParser`, whose
buffer grows. The Rust parser steps over a head that turns out to be none and loses no good
frame (`GoodFramesKept`); the C parser removes all the bytes a head promises. So RxRing
hands over every frame of a line of frames (`FramesComeOut`), and, with other bytes between
them, every frame that no false head reaches over (`UnspoiltComeOut`). `Reach` says how far the
heads reach, by the bytes of the stream alone and not by what the parser does. A head whose
size wraps to 0 takes nothing out of the ring: the loop is then `Stuck`.

**TcpLink** is `transport_tcp_client.c` with `main.c` around it, from the listening
socket to the clean-up. The application is reduced to the frames it queues, the
frames are bytes, and the socket takes any part of what it is offered. The two
sockets and the peer are external.

**ChunkStream** has three actors: the application (`Recv`, `Send`), the sender thread
(`Thread`) and the driver (`Driver`, in a task or, with `FromIsr`, in an interrupt).
One action is one critical section. A queue of length n holds n-1 blocks, as the
code's comparison of indices has it. **BmStream** has the main loop and two
interrupts. Its indices are masked at each step, as in the code, which is the remainder
as long as the capacity is a power of two; a word is the set of its bits that are one, so
that the shifts and ORs of the rounding need no bitwise operators. `InitKeeps` FALSE is the code; TRUE is the code without the `memset` that
clears the hardware operations stored before (section 4), so that
the drain can be studied at all. `TxIsr` says whether the transmit interrupt drains too.

**WebSocketHub** has one forwarding task per kind of message, a sender and a receiver
task per client, and the client table under its lock. A channel keeps the last
`Capacity` messages; a reader that is further behind gets an error.

**WebControl** has the two halves of each control handler, `Store` and `Post`, and
behind them no more of the device task and of the device than the mode and
the stream status. `Handle` takes a command off the channel, notes the mode and writes
the command, which arrives or, for want of a connection, a failing write or a loss on
the way, does not; nobody learns of it. Three history variables name what may go wrong:
`lost`, the kinds of command (mode or stream) whose last one never arrived; `owed`,
the handlers that have stored and not posted; and `crossed`, the kinds whose commands were
posted in another order than stored. **BurstSaves** follows a save request through its
steps: `Ask` looks up the burst, each `Export` takes the processor's lock again, `Write`
creates or overwrites a file, `CleanupLists` and `CleanupRemoves` are
`cleanup_old_files`. Deletion and eviction come at any point.

**DeviceCli** is the second device program. It shares no code with `app.c` and differs in
what the modes and commands do, so it has a state machine of its own; one
`Loop` step is one pass of its main loop. **CsvData** is its file of recorded samples, which
is read twice. **SerialRead** is the reader: `Boot` opens connection and file, `Loop`
handles a key and what has come, and a frame goes through batch and file until it is
written.

`MCTriggerDevice`, `MCBurstFeed` and `MCAcquisition` hold the values that the `.cfg`
files cannot write. **MCTransports**, **MCReception**, **MCServices** and **MCPrograms** each
check several components that do not act on one another. All but MCReception *extend*
their components, with the constants of the `.cfg` for one scenario, and instantiate a
component again for each further scenario that needs other constants. The variable `part`
says which scenario a behaviour belongs to; the variables of the other components keep
their initial values. The invariants of these runs are the components' own, the same
definitions the theorems are about, and hold in every scenario; assumptions on the
constants are evaluated with them. The variables of the components therefore have
different names. MCReception only instantiates, and its properties read
`part = ... => Component!Property`.

The theorems stand beside the models: `TriggerDeviceProofs`, with the refinement,
and `BurstFeedProofs`; `AcquisitionProofs` for Acquisition;
`TransportProofs` (ChunkStream, TcpLink and BmStream), `ReceptionProofs` (Frames, RxRing and
FrameParser), `ServicesProofs` (WebSocketHub, WebControl
and BurstSaves) and `ProgramsProofs` (DeviceCli, CsvData and SerialRead). `SequenceOrder`
is the theory they share: which of the entries of a queue that matter follow one
another, what `Append`, `Tail`, `SubSeq` and `\o` do to that order, and what joining a
sequence of sequences does.

## 3. Runs

A violation run states a sentence of the documentation; TLC finds the code doing
something else, and `PROJECT.json` quotes both. Deadlock is checked in the runs of
the device, the processor and Acquisition, and not in the four composite runs, whose
programs and streams come to an end.

| Run | What it shows |
|---|---|
| `device_clock` | `TypeOK`; `BurstUnbroken`: nothing foreign between the frames of a burst, whatever is switched, stopped and restarted; `NeverTooSoon`: packets keep their distance across the wrap of the clock; `CompleteAfterLastPacket` |
| `device_ring` | `ImplementsSource`: the detailed device refines BurstSource with `out <- wire \o txq`; `BurstEnds`, `ArmedFires` under `FairSpec`, the latter as long as passes do not step over the end of the clock time and again |
| `device_wedge` | violates `RunningMeansListening` (`docs/protocol_doc.md:162`): a stop in mid-burst leaves `occurred` set, and a restarted device neither sends nor waits |
| `burst_cache` | `TypeOK`, `CacheSound`, `NewestCached`, `EvictsOldest`, `CompletedUnchanged` |
| `acquisition_race` | `ClosedByOwnSignal`, `UndisturbedBurstWhole`, `ModesAgree` with mode commands racing bursts and streamed packets |
| `acquisition_faults` | `BurstPacketsMatchTrigger`: a packet filed under a burst carries its label and was sent in it, with the exceptions of section 5; `NumberingMatchesPosition`; with frames lost and the link broken and restored |
| `acquisition_live` | `StatusSettles` and, under `FairSpec`, `FinishedBurstArrives` with all nine commands, disabled channels and a link that breaks once |
| `acquisition_whole` | violates `CompletedBurstWhole` (`docs/protocol_doc.md:332, 527`): a completed burst may lack packets |
| `transports` | `BlocksSafe`: every block of the threaded transport has one holder and fits, whatever chunk sizes are set; `BytesInOrder`: what its two directions hand on is what they accepted, in order; `RingsKeepBytes`: the same of the two byte rings of BmStream, with `CapacityIsPowerOfTwo`: rounding a requested ring size, from 0 to beyond the maximum, gives the masks a power of two; `FramesIntact`: a TCP peer reads whole frames, however the socket cuts them up; `QueuedLeaves`: what was queued goes out |
| `reception` | `GoodFramesOut`: from the ring all frames of a clean line, and between noise those that no false head reaches over; from the gateway's parser all of them; `NothingInvented`: an overflowing ring makes up no frame; `ParseEnds`: every frame taken uses up bytes of the ring, unless a size wraps to 0; `FrameOrNothing`: what is built is parsed, what is damaged is refused |
| `services` | `SubscriptionOrdered`, `NoHoles`, `ServedArrives` (`Due` leads to `Settled`) for WebSocket clients; `LimitKept`, `CreatedIsThere` for saves; `ShownIsTrue`, `DataAskedInTriggerMode` for control requests, with commands lost and handlers crossing |
| `programs` | `ClosedBurstsWhole`, `StampsAdvance` for the second device program; `EveryFrameSaved` for the reader: nothing lost, nothing written twice, and every file but the last full; `SamplesAreRead` for recorded samples; `NothingHangs`: bursts and both programs end |

The scenarios of the composite runs:

| Run | `part` | Scenario |
|---|---|---|
| `transports` | `chunk rx`, `chunk isr` | two deliveries of three bytes into blocks of at most two, from a task or from an interrupt, with chunk sizes that change |
| | `chunk tx` | two frames of three bytes in blocks of one or two; the second, or the rest of the first, may find no free block or no room in the queue |
| | `bm ring` | the receive ring of the code as it is |
| | `bm drain` | transmission with `InitKeeps`, for every size asked for |
| | `tcp` | up to three frames and two requests, a socket smaller than a frame, a peer that may close, break or stay |
| `reception` | `clean` | a ring with just the room a frame and a chunk need |
| | `noisy` | good frames behind bytes without a head, a bad checksum, a bad tail, and heads whose length is too large, promises more bytes than the noise has, is short, or wraps the size to 0 |
| | `full` | chunks larger than the ring |
| | `gateway` | the Rust parser, also behind heads that promise more bytes than follow or a length that is too small |
| | `damage` | one frame with inverted bits, at every position |
| `services` | `hub changes` | a client that changes its subscription |
| | `hub lags` | two clients and a broadcast task that is overtaken |
| | `hub serves` | a client that is to get what is published |
| | `saves two`, `saves one` | two requests that write the same names; one with all it may ask for |
| | `web one`, `web two` | one or two users of the control handlers, with a link that loses any command |
| `programs` | `cli bursts` | all commands, time for two bursts |
| | `cli stream` | a long stream, stopped and started |
| | `cli lasts` | a burst on a clock that wraps |
| | `reader saves`, `reader fails` | all keys; files that cannot be opened |
| | `csv` | every file of up to four lines, which may change between its two readings |

### Bounds

* *Clock.* `ClockMod` 6 with `Interval` 2 and passes of up to 2 lets the clock wrap
  between any two packets, with the boot close to the wrap. Only clock values
  relative to the interval matter. `device_ring` checks liveness with a clock of 4
  and passes of 1 or 2, which may step over the trigger time and the wrap at once. Its
  commands are the two modes, the start and a configuration that names an unknown channel:
  a stop and the other commands are in `device_clock`, and `DeviceImplementsSource` covers all.
* *Ring and wire.* A capacity of one or two units and frames of one or two units make
  every enqueue meet an empty, a partly filled and a full ring, and a data
  packet that fits while a reply does not any more. `SendMayFail` lets any send fail.
* *Bursts* of 1 and 2 packets have a first packet that is also the last, and a last
  that is not the first. Two stamps are enough to tell a burst from the one
  before it.
* *Acquisition*: one or two packets per burst, two bursts, three or four commands, two frames on the link in each
  direction and two waiting events. The hazards are pairs: a command against
  the burst before and the burst after it, an event against the packets behind
  it. Two of everything in each queue give every relative order of these pairs.
  `MaxCachedBursts` 1 makes the second burst evict the first.
* *Cache*: capacity 2, two recurring device timestamps and a clock up to 4: a cache that
  fills, evicts, and is emptied by deletions, with ids that would collide
  without the clock.
* *Stream transports.* Three blocks, queues of three places (two usable) and
  chunks of one or two bytes against deliveries and frames of three: every
  delivery spans blocks, and pool and queue are exhausted in turn. BmStream masks and
  wraps rings of 4 and 8 bytes and rounds sizes from 0 to 12 under maxima of 6 and 10,
  which are no powers of two.
* *TcpLink.* Frames of one and three bytes and a socket of two: one frame does not
  fit the socket at once, and two may meet in it.
* *Byte streams.* A frame is real to the bit, its CRC included. Streams of up to seven
  pieces are cut into chunks of every size up to `MaxChunk`, so that every frame is
  split at every place. The ring is 16 to 40 bytes for frames of at most 14; the code
  has the same proportions or more room. `damage` inverts bits at every position of
  two frames, in all patterns of up to 7 bits and in a choice of longer ones.
* *WebSocketHub.* One or two clients, up to three messages and a channel of one or two: a
  reader that is on time, at the limit and beyond it.
* *BurstSaves.* Two requests at once, up to two formats each, a limit of two files: a single
  request may reach the limit, two exceed it.
* *WebControl.* Two handlers and four requests: any two of them interleave at both halves,
  with one before to set a mode and one after to show it.
* *DeviceCli.* Bursts of two packets, time for two of them; 20 instants for a stream that
  is stopped and started again; a clock of 3 that wraps within a burst.
* *SerialRead.* A batch of two and files of four, ten frames: three files, the
  last one neither empty nor full. `reader fails` has batches of three, which do not
  divide a file of four, and any file may fail to open.

Counters that bound a run (`MaxBursts`, `MaxCommands`, `MaxStream`, `MaxBreaks`,
`LinkCapacity`, `EventCapacity`, `MaxClock`, `MaxNumber`, `MaxFrames`, `MaxOffered`, `MaxArrived`,
`MaxPublished`, `MaxRequests`, `MaxAsks`, `MaxInFlight`) occur in guards only.

### Fairness

`TriggerDevice!FairSpec` assumes weak fairness of the steps of the main loop,
which is a `while (g_running)` without blocking calls but a send that retries
while the wire is full (`tcp_send`), and of the peer that reads. Receiving is
not fair: nothing promises that commands come. A receive call returns at most
4096 bytes, so that `RxDone` follows. Nothing is assumed of `TxFail`.
`Acquisition!FairSpec` assumes weak fairness of connecting, of noticing a lost
connection, of reading and of the event loop; `tokio::select!` picks a ready
branch at random, so reading is not starved by commands or pings. Users and
device are not fair; the property is about bursts the device has completed.

The composite runs assume the fairness of their components while `part` is theirs.
`ChunkStream` schedules the application's main loop and the sender thread,
and lets a delivery that has begun finish; nothing is assumed of the arrival of
data. `BmStream` assumes weak fairness of the main loop's steps, and strong fairness of
the poll and of a hardware that takes bytes: a busy UART is ready again, however often
it was busy in between. `TcpLink` assumes the program's own steps and a peer that reads; a
full socket is a program that stays where it is, as `tcp_send` does, and `FramesArrive`
is about a peer that stays. `WebSocketHub` schedules the tasks of the server; clients and
publishers are not fair, and `ServedArrives` excepts a broadcast task that was
overtaken. `DeviceCli` assumes that the loop runs, and that the clock, which several passes
may read unchanged, advances time and again. `SerialRead` assumes the program's steps and a
device that answers. `ParseEnds` counts the frames taken in one parse and needs no fairness.

`ArmedFires` has a premise: from some point on no pass steps over the trigger time and the
wrap of the clock at once (`StepsOver`). `app.c:301` compares clock values with `>=`, and a pass that steps over the
last instants before the wrap misses a trigger set there, until the clock has
come round after 49.7 days. A pass lasts `usleep(1000)` and whatever the socket makes it
wait, so nothing in the code keeps this from happening each time round; the run has such passes.

## 4. Statements the code refutes

Besides the two violation runs, TLC refuted each of the following on a small
instance. The property stands in the module, with a comment that names the code; a
`.cfg` that gives the module constants like those of its scenario shows the
counterexample. A starred one was refuted with the fairness of its module.

| Module, property | The statement | What the code does |
|---|---|---|
| TriggerDevice, `FirstTriggerIsAhead` | `app.c:215`: the next trigger is 5 to 10 s from now | `app.c:216` counts from the start of the program; later than 10 s after it the trigger fires at once |
| Acquisition, `ResetOnModeSwitch` | `data_processing.rs:614`: called on mode switches | called on `Connected` only (`main.rs:92`); a burst that was open stays open |
| ChunkStream, `FramesQueuedWhole` | `examples/chunk-stream/readme.md:94`: `send()` queues the whole frame | a short count makes `app.c:407-412` give the frame up; its first blocks go out, and the next frame follows them |
| ChunkStream, `DeliveryTakenWhole` | `readme.md:109`: a delivery in an interrupt is split into blocks | line 361 leaves the loop after one block |
| BmStream, `QueuedReachesHardware`* | `examples/baremetal-chunk/readme.md:125`: the rest goes out by interrupt or poll | `bm_init` (line 179) clears the operations stored by `create`; no byte leaves |
| BmStream, `TakenInOrder` with `InitKeeps` and `TxIsr` | `transport_bm_stream.c:72`: the ring helpers are safe against each other; `examples/baremetal-chunk/readme.md:83`: the interrupt pushes the ring into the hardware | the drain calls the hardware outside its critical section (line 115): main loop and interrupt offer the same bytes, and both move the tail; between a short write and its rollback (lines 224-230) the interrupt sends part of a frame that was refused. The code as shipped drains nothing (row above) |
| TcpLink, `CtrlCEnds`* | `main.c:120`: Ctrl+C to exit | `tcp_send` waits for a full socket without looking at `g_running` |
| TcpLink, `ErrorEnds`* | `app.c:389`: transport error, exiting | nothing sets `g_running`; the loop goes on and prints it every millisecond |
| TcpLink, `TestNeedsNoSocket` | `device-simulator/readme.md:60, 74`: a mode without sockets | `main.c:95` always creates the TCP transport |
| RxRing, `GoodFramesTaken` | `protocol/readme.md:82-84`: a frame can be reliably identified in a stream | bytes of no frame stay until one is found behind them and may fill the ring for good (`io_buffer.c:81`); a head that occurs by chance takes the good frames behind it with it |
| RxRing, `BytesUsedUp` with a length of 65530 | `io_buffer.c:64`: longer than the maximum, skip this head | the size is computed in 16 bits; it becomes 0, and the loop never ends |
| RxRing, `ParseDefined` | `io_buffer.c:33`: the minimum frame length of `protocol.c` is 8 | the shortest frame has 10 bytes; with 8 or 9 the payload length wraps to 65534 or 65535 (`protocol.c:133`) |
| WebSocketHub, `PublishedArrives`* without the exception | `data-gateway/README.md:9`: real-time distribution to several clients | a broadcast task that lags gets an error and ends (`websocket.rs:79`); nobody receives that kind any more |
| WebSocketHub, `WelcomeFirst` | `docs/api_doc_en.md:658`: welcome, then data | the client is in the table before the welcome is in its mailbox |
| WebSocketHub, `GoneIsUncounted` | `docs/api_doc_en.md:66`: number of connected clients | a closed client is counted until something is sent to it |
| WebControl, `ShownIsTrue` without `crossed` | `docs/api_doc_en.md:71`: the current mode | two requests that overlap are stored in one order and posted in the other (`web_server.rs:234`) |
| WebControl, `ShownIsTrue` without `lost` | the same | a command that cannot be written or is lost is only logged (`device_communication.rs:354`), and the stored mode stays |
| BurstSaves, `LimitAlwaysKept` | `config.rs:32`: how many files are kept at most | a save that fails half-way ends before the cleanup (`web_server.rs:515`) |
| BurstSaves, `SavedIsThere` | `data-gateway/README.md:12`: safe data storage | an overwritten file keeps its creation time and may be removed by the save that reports it |
| BurstSaves, `ListedOnce` | `web_server.rs:420`: duplicates are removed | bin and binary are told apart until afterwards (line 439): one file, listed twice |
| DeviceCli, `RunningMeansListening` | `docs/protocol_doc.md:162`: START begins event listening | STOP switches the trigger off, START does not switch it on |
| DeviceCli, `NeverTooSoon` | `device_simulator.c:514`: 10 to 15 s apart | a trigger time that wraps is reached at once (line 536) |
| DeviceCli, `RequestedIsSent` | `docs/protocol_doc.md:174`: the device uploads its buffered data | the request is acknowledged and sends nothing; after a STOP nothing else does |
| DeviceCli, `PacketInBuffer` | `device_simulator.c:444`: default channels are enabled | line 455 makes a packet of 20008 bytes in a buffer of 8192 |
| DeviceCli, `DisabledStaysSilent` | `docs/protocol_doc.md:271`: rate 0 means disabled | the next packet enables all channels when none is |
| DeviceCli, `StampIsCurrent` | `docs/protocol_doc.md:281`: time stamp of the first sample | the stamp counts packets (line 422) and falls behind the clock |
| CsvData, `EveryRowLoaded` | `device-simulator-cli/README.md:20`: data from CSV files | the inner `strtok` (`platform_abstraction.c:317`) ends the loop over the lines after one row |
| SerialRead, `GoesOnUnsaved` | `serialread.c:802`: frames won't be saved | the full batch is not emptied; the next frame is written behind it (line 384) |
| SerialRead, `TransmissionShown` | `protocol-cli/README.md:22`: shows the device's state | nothing asks for the status, so it stays OFF while the device streams |

## 5. Proofs

TLAPS checks the following for every value of the constants that satisfies the
named assumptions of the modules.

`TriggerDeviceProofs` (assumptions `PacketCountsAssumption`,
`StampModAssumption`, `ClockAssumption`):

* `TypeCorrect`: every variable keeps its type.
* `BurstIsUnbroken`. `BurstUnbroken` speaks of a device that runs in
  trigger mode and is not inductive: nothing in it forbids that a burst paused by
  leaving trigger mode, or by a stop, is taken up again with a foreign
  frame as its last. `BurstInv` drops the status (a stop clears `sending`) and
  keeps the condition on the mode (the command that returns to trigger mode
  clears `sending` too). `StepsAreAppSteps` reduces every step of loop, ring and
  clock to a step of the application, so the induction is over `AppStep`.
* `CompletionFollowsLastPacket`, an action property from the same invariant: with at
  least one packet per burst, `packets_sent >= packets_to_send` and the
  invariant make the last frame the last packet.
* `TimerNeverEarly`. The strengthening `GapMeasured` says that the modular
  difference *equals* the time gone by as long as that is below `Interval`;
  `ElapsedAdds` is the arithmetic of one pass across the wrap, for which
  `Interval + MaxPass < ClockMod` is needed.
* `DeviceImplementsSource` (also `RequestsAssumption`), the refinement mapping of
  `device_ring`. Initial states map to initial states; `LoopTop`, `RxDone`, `TxSend` and
  `TxDone` are stutters, `RxCommand` is a `Command`, `Periodic` a `Produce` or a stutter,
  `TxFail` a `Lose`, `PeerReads` a `Deliver`.

`BurstFeedProofs` (assumptions `MaxCachedAssumption`, `NoneAssumption`,
`FeedAssumption`):

* `TypeCorrect`, `CacheIsSound`, and `EvictionTakesOldest`, the last for any
  movement of the wall clock.
* `NewestIsCached` and `CachedBurstsStayUnchanged` for a wall clock that moves
  forward between two bursts (`ClockSteps \subseteq Nat \ {0}`). The invariant
  `ForwardInv` says that bursts are created and named in the order of the
  clock, so the open burst is younger than every cached one and has a new
  name. Both fail if the clock may stand still or be set back: the newcomer may
  then be the oldest, or replace a burst of the same name. Bursts follow one
  another at a distance of seconds unless a mode command re-arms a trigger
  whose time has passed.

`SequenceOrder` is the vocabulary of the proofs about Acquisition. A queue is described
by value: of its entries in a set `D`, `FirstIn` is the first, `LastIn` the last,
`NextIn` one and the next, and `NoneIn` says there is none. An invariant on a queue then
has three parts: what may follow what, what may come first given the state of the
reader, and what the last (or, if there is none, the reader) says of the state of the
writer. Each action is one of a few lemmas: an append in or outside `D`, a removal in or
outside `D`, a cut. It also has `FlattenSeq`, which the community modules define by
recursion. The prover cannot use an induction scheme, but it can use that a set of
numbers has a least one (`LeastNumber`): `FlattenAppend` and its companions say what a
piece more or less does to the joined sequence, shown for the shortest sequence for
which they would fail.

`AcquisitionProofs` (assumptions
`NoneIsNoNumber`, `DeviceAssumption`: a burst has at least one packet,
`CacheAssumption`, `BoundsAssumption`, `PostedAssumption`: users post commands the
gateway knows, `NoneIsNoBurst`). The bounds of the runs are constants like the others,
so what is proved holds for any number of bursts, commands, breaks and any capacity of
the two channels:

* `TypeCorrect`. `TypeOK` says nothing of the frames on the link and the events in the
  queue; `Types` does, kind by kind, so that a stamp read from one is a stamp.
* `StatusIsRight`. `StatusInv` takes the events that move the status: the last of them
  in the queue says whether the device task is connected, and if there is none, the
  status shown does.
* `ModesAgreeAlways`. `ModeInv` is the same on the way down: before the first break, the
  last mode command on the link is what the device task believes, and if there is none,
  the device's mode is.
* `PacketsAreNumbered`, and of the next theorem that a packet carries the label of its
  burst. Three invariants stand on one another. `Ordered`: trigger events rise along link and queue and are later than
  everything the processor has seen. `LabelsFit`: a labelled packet in the queue follows
  its own trigger, another of its packets or a `Connected`; the first one finds its
  burst open with the numbering where the packets are, or no burst open. `PacketsFit`:
  what is stored is of its burst and numbered by its place. None holds without the one
  before it: a trigger whose stamp came back would go on with the numbering of another.
* `BurstsClosedByOwnSignal`. A completion signal does not name its burst, and the
  packets before it do not help: what counts is that no trigger lies between. The
  invariant looks at events not handled and frames not read as *one* sequence, `Pipe`,
  in which a frame keeps its place while the device task makes an event of it.
  `OwnSignals` says that a signal in the pipe follows the trigger of its burst; that one
  at the head belongs to the open burst; and that a device still sending has its trigger
  as the last mark. This takes a link on which frames are not lost one by one (`~Lossy`,
  as in `acquisition_race`): a lost trigger would leave its signal to the burst before.
  Broken links are allowed.
* `UndisturbedBurstsAreWhole`, also for a link that loses frames. A burst is *intact*
  while it is under way and not in `disturbed`. `InOrder`: of an intact burst the pipe
  holds a trigger, packets 1, 2, ... and the signal without a gap, the first of them is
  the one the processor is due, and the last is the last the device sent. `Labelled`:
  the device task's trigger is the intact burst's. `Reaching`: as long as anything is
  intact, both sides are in trigger mode, with the link up and no mode command on its
  way. `Sending`: the device's counter is the number of the last packet. `Past` keeps
  frames of later bursts out. Every step that breaks one of these puts the burst into
  `disturbed`: the proof also shows that this history variable misses none.

* `PacketsMatchTheirBurst`: the label of a packet is also right, the device sent it in this
  burst. Stream packets are excepted, which a mode command on its way lets in, and on a
  lossy link the packets of a disturbed burst: if its event is lost, they go to the burst
  before. Without such loss, `OwnCarriers`: in the pipe a packet of a burst follows its
  own event, another of its packets or a `Connected`, and one at the head is of the open
  burst. With it, a packet at the head is of the open burst or of a disturbed
  one: an intact burst is open when its packets come (`Undisturbed`), unless it is already
  closed, and `Ended` says that nothing of a burst follows its own signal.

`TransportProofs`, on ChunkStream (assumptions `PoolAssumption`: finite pools;
`LengthAssumption`: a chunk has room for a byte, deliveries are not empty):

* `TypeCorrect`.
* `BlocksAreSafe`. `BlocksHeldOnce` counts the places of a block, and is inductive once
  it is known which actor holds one (`Positions`: an actor has a block exactly where its
  program counter says so). The test in `rx_free_blk` and `tx_free_blk`, which would
  drop a block on a full stack, never fails: `RoomForBlock` is the pigeonhole for a
  stack without repetition while one block is out.
  `BlocksFit` needs that a round begins with bytes to take, and, from the
  invariant before, that the application never touches the block the driver fills.
* `BytesStayInOrder`, over blocks of any size and frames that are cut anywhere. The bytes
  of a direction are those handed on, joined with the blocks in the queue, joined with the
  block an actor holds. `OrderInv` adds `ReadSoFar`, what has been copied out of the block
  at hand, and `BlockInv` from the theorem before: only because a block has one place
  does filling it leave the data of the queued ones alone.

On TcpLink (`SizesAssumption`: frames are not empty): `FramesStayIntact`, for a socket of
any size. `RingInv`: the frames in the ring are later than the one being sent, of which
`sending` is the rest. `StreamInv`: what the peer has, with what the socket holds, is
made of whole frames, and while the link is up the next byte to be sent is the one that
fits. `PhaseInv` ties the phases of the program to the link: nothing goes out before
the one connection, and after a break nothing that would fit is sent any more.

On BmStream (`RingAssumption`: arrays and sizes that fit a `uint16_t`), for every size asked
for and every length of read, delivery and frame:

* `ReceivedIsRead`: what is read is what was accepted, and the capacity is a power of two within
  the array, whatever the interrupts do. `CapacityIs` follows a word through shifts and ORs:
  smearing sets exactly the bits up to the highest one (`Smears`), so that one more is a power
  of two, and no word has the same bits as another (`SameBits`). `PushIs`, `PopIs` and `CutIs`
  say what a write, a read and a rollback do to the content of a ring that wraps anywhere.
* `RingsKeepTheirBytes`: `RingsKeepBytes` and the types, under `~(TxIsr /\ InitKeeps)`: one context
  drains, or none does. The hypothesis is needed (section 4). `TxRing` adds to
  `TakenInOrder` that what the main loop has looked up is still the first piece of the ring
  when the hardware has taken a part of it, which another drain would spoil.

`ReceptionProofs`. The checksum is written with sets of bits, so that shifts and
exclusive ors are unions and differences:

* `BuiltIsParsed` and `ParsedIsBuilt`, on Frames: `parseFrame` returns what `buildFrame` was
  given, and accepts nothing else, for payloads of any bytes and any length that fits.
* `CleanRing` and `CleanParser`. The line is any sequence of frames (`CleanLine`: built frames
  of at most the maximum), read in chunks of any size. For the ring `RingFits` asks for room for the
  longest frame and a chunk, as the code has it with a ring of 65535 and frames of 8192
  (5120 in the reader). `CleanInv` says that the bytes kept begin where a frame begins, and
  that what was handed over are the frames before; the head found first is then the head
  of the next frame, whatever its payload looks like.
* `LoopEnds`, for any bytes at all and without a condition on ring, frames and chunks: a size that is not 0
  uses up bytes, and `Stuck` is the only exception.

`ServicesProofs`:

* `SubscriptionIsOrdered` and `NoHolesInMail` (`ChannelsAssumption`, `CapacityAssumption`),
  for any number of clients. `QueueIsLatest` says that a channel holds the last of what was
  published, in order, so that a broadcast task takes the next message or has lagged,
  and then ends. `UpToDate`: as long as a client has asked for nothing, what it
  got last of a channel is what was last taken from its queue. `InEffectAll`: the
  subscription in the table is the last one confirmed in the mailbox.
* `NeverAskedInContinuousMode`, for handlers that overlap and commands that are lost in any way:
  unless the last mode command was lost, device task and device
  agree on the mode whenever a command is handled, and the task refuses by its own.
  `WhatIsShownIsTrue`: `WebInv` looks, for mode and stream status each, at where the
  commands in the channel lead (`Leads`), and then at the handlers that have stored and
  not posted, in their order (`Owing`): the last of them shows what its request says. Both exceptions
  are exact: `lost` and `crossed` drop a kind as soon as a command of it arrives, or a
  handler stores while no other of the kind has yet to post. Without them the property is
  false (section 4).
* `LimitIsKept` (`MaxFilesAssumption`), for requests that overlap. The directory may be over
  its limit while a request is on its way to its cleanup. `LimitInv` counts the files
  that no cleanup under way has listed: a cleanup lists all the excess at once, so that
  several of them remove more than they need, and never less.
* `CreatedStays`, under the condition `RoomForOne` on the constants: the limit is at least one, and no
  request asks for more formats than the limit. Its default is 200 (`config.rs:65`) and
  there are three formats. Without it a request's cleanup removes what it has just
  written. `CreatedInv` says that a request alone has the youngest files.

`ProgramsProofs`:

* `SamplesComeFromRows` (`FilesAssumption`), although the file may change between counting
  and parsing.
* `StampsNeverGoBack` (`ClockAssumption`), an action property. `StampInv` bounds the stamp
  that counts packets by the clock: it is ahead by the one millisecond of a packet just made, at most.
* `BurstsAreWhole` (`BurstAssumption`). `BurstInv` says that the log of a burst under way is its event and as many
  packets as the counter says.
* `FramesAreSaved` (`BatchAssumption`), for files of any length and batches of any length, whether one divides the other or
  not. `DiskInv`: the open file is the last, and only it has room. `Kept`: the files joined with the
  batch are the frames that came, in order. A flush is a recursive function over the frames of a batch,
  which may fill one file and open the next at each of them; `FlushKeeps` is shown for the
  first frame at which it would fail.

Only model-checked: liveness (fairness and ENABLED are beyond the prover), that is
`BurstEnds`, `ArmedFires`, `FinishedBurstArrives`, `QueuedLeaves`, `ServedArrives` and
`NothingHangs`; and of the receivers, what they do between noise (`UnspoiltComeOut`, and
`GoodFramesKept` and `CaughtUp` of the gateway behind noise), after an overflow
(`NothingInvented`) and with damaged frames (`FrameOrNothing`), which the checksum
recognises by its polynomial.

## 6. What is left out

Sample values, channel statistics, quality, export formats, sequence numbers of
frames, log lines and log events change none of the modelled state. CsvData follows
rows, not their numbers.
The web server's stored mode is in WebControl, not in Acquisition,
where a user may post any command at any time; so `RequestBufferedData` is also
posted there when the web server would refuse it, which the device task refuses again.
Handlers that only list, read or route, and deleting a single file by request, are left
out; so are a full disk and the rejection of illegal paths.
`DeviceManager` starts from frames and FrameParser from bytes; the parser's buffer,
which survives a reconnection, is empty at each `Connect` of Acquisition.
Simplified in detail: ChunkStream reads a chunk size once where the code reads it twice without a
lock (`transport_chunk_stream.c:287`, `343-344`). In CsvData the second `fopen`, which
the code does not check (`platform_abstraction.c:307-308`), succeeds, and rows have at most two
columns; of a longer one the code parses the rest as another line (`317-326`). In
BurstSaves a cleanup can remove what it lists, although the code ignores a failure
(`file_manager.rs:117`), and no two files have the same creation time (`129-138`). In SerialRead
`cache_frame` finds memory (`serialread.c:381`). In DeviceCli a frame is logged as sent when
the program sends it, also if the socket takes none or part of it (`platform_abstraction.c:134-135`).
A frame with a length below four is undefined in the code, which reads beyond it: RxRing
stops there.
The gateway's configuration is read once at start. `device-simulator-cli/config.h` holds
constants, `mcu_hal.h` an interface that no program in the repository implements;
`transport_test.c` is never created. Opening ports, and parsing addresses and arguments,
are input and output. The dashboards and the test script keep no state that others
depend on.

The type invariants of TriggerDevice, BurstFeed, Acquisition, ChunkStream and BmStream are theorems, and the types
of TcpLink and of the components in ServicesProofs and ProgramsProofs are conjuncts of their inductive
invariants. The type invariant of RxRing held when TLC checked
it; the runs listed here do not repeat that.

## 7. Plan

Every safety and action property of the runs is proved but those of reception next to noise,
overflow and damage. Left, in this order:

1. *Acquisition implements BurstFeed*, step by step, which would carry the cache theorems over.
2. *Refinement*: the frame-level `Enqueue` of TriggerDevice by a ring of bytes with its
   length prefix; FrameParser under `HandleFrame` of DeviceManager.
3. *Receivers behind noise*: `UnspoiltComeOut` and `NothingInvented` for any stream.
4. *The checksum*: every change within sixteen neighbouring bits changes it, by its polynomial.

A module that is only instantiated has no named assumptions on its constants; those that a
proof needs come with a composite module that extends it.
