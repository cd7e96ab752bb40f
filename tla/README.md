# A TLA+ model of TpxServer

TpxServer sits between a Timepix3 readout board (SPIDR) and Python clients. Clients send commands
over ZeroMQ; the server passes them to the board over TCP, or to one of its own threads, and sends
back exactly one reply. Pixel data arrive from the board over UDP and are published.

This directory holds the specification of the server's core, the TLC runs that check it on small
instances, and TLAPS proofs of its main properties for all instances.

## Inventory

| Part | State | Operations | Talks to |
|---|---|---|---|
| `MainWindow` | the active server thread, "manually cancelled" | launch, stop, serverDone (automatic restart) | starts a `CommsThread` in the global `QThreadPool`, calls `cancel()` on it, receives `threadDone` through the event queue |
| `CommsThread` | cancel and reset flags, pointers to three secondary threads and their command sockets, the two managers, the ZeroMQ context | `execute()` (a polling loop), `resetClientConnection`, `bindUdpPort`, clean-up | owns everything below |
| `TimepixConnectionManager` | connected / executing flags, queue of commands, source of the command in flight, asio operations | `attemptConnection`, `poll`, `sendCommand`, `commandSent`, `commandRecv`, `terminateConnection`, `clearAnyClientRequest` | the board over TCP; answers through the client manager recorded in the queue |
| `PythonConnectionManager` | a REP socket, the code of the last command | `poll`, `handleCommand`, `sendResponse`, `sendError`, `forwardToSecondaryThread` | clients; queues commands for the board, forwards others to the threads and waits for them |
| `UdpThread`, `ClusterThread`, `HistogramThread` | cancel flag, a REP socket, their manager | `execute()`, `pollCommands`, handlers | created by `CommsThread`, run and deleted by the pool; PUB/SUB between them |
| `UdpConnectionManager` | rollover counter, last time of arrival, save file | `handleMessage`, `publishRawData`, `setSaveFile`, `resetToaRolloverCounter` | board over UDP, subscribers |
| `ClusteringManager`, `HistogramManager` | open clusters / bins, save file, parameters | `poll`, `handlePackets`, `flush`, ... | subscribe to packets, publish clusters / histograms |
| UI panels, log, `main` | widgets, settings | - | - |

What is hard about it:

* the server is one polling loop, but asio completions, the client socket, the user, and threads that
  are *deleted by the pool* act between any two of its steps;
* both ends of the client protocol are strict state machines (REQ/REP): one reply too few blocks a
  client or makes the next receive fail, one too many throws;
* raw pointers are kept across asynchronous operations (`mLastCommandSource`, the sender of a queued
  command, the thread pointers) while their objects are replaced or deleted;
* every exception path skips part of the clean-up;
* the receive from a secondary thread has no timeout.

What makes it correct: a reply reaches the client whose request it answers and no other; nobody is
answered through a dead object; a thread is never forgotten while it runs; everybody is answered unless
the server is cancelled; after Stop everything ends; the extended times of arrival are right; what is
saved is what was published and can be read; every packet is in one cluster and in one histogram frame;
the window keeps control of the server it shows. `PROJECT.json` lists the hazards line by line.

## Modules

* `ServerCodes` - the command tables (`ServerCodes.h`, `COMMAND_MAP`, the three forward sets), the
  error codes and what a message looks like to the checks.
* `PythonConnectionManager`, `TimepixConnectionManager`, `SecondaryThread` - the state of each
  component and, for each operation, the part of a step that falls to it. The operator names are those
  of the C++ functions.
* `CommsThread` - composes the three. `pc` is the place in `execute()`; a step ends where the thread
  looks at something others write (cancel flag, asio, client socket, command socket, an object the pool
  may delete). `Execute` is the thread, `ThreadStep(t)` a secondary thread and the pool, `Environment`
  the clients, the user, the board and the network.
* `RequestReply` - the abstract specification: requests are taken one at a time and answered at most
  once, with their own code and data or with an error; dropped requests are never answered. Data that
  belong to a request are its id, so "own data" is a set of ids; stale bytes carry id 0.
* `CommsThreadProofs` - theorems about `CommsThread`.
* `BgThread` - what a `BgThread` promises to whoever starts one: cancelled for good, returning once it
  is cancelled, deleted by the pool after that. `CommsThread` is shown to implement it, and `MainWindow`
  relies on it.
* `UdpConnectionManager` - the rollover counter of the raw data path, with the true time of the newest
  packet as a history variable; `ResetTimers` is the clock that starts anew when the board obeys
  RESET_TIMERS, of which the thread is not told.
* `RawDataFile` - `parseBytes` and `setSaveFile` of the same class: the stream that writes chunks with
  their header, `SET_RAW_TPX3_PATH`, a disk that takes only part of a chunk.
* `PacketFormat` - the 64-bit words of the data path: the raw packet, the published packet, the cluster,
  with the masks and shifts of the three files that put them together and take them apart. A word is the
  set of its bits.
* `ClusteringManager` - `handlePackets` with one action per iteration of its two loops (`Match`,
  `Close`), because `ClusterList::remove` reorders the list under them; `Flush`,
  `SetClusterParameters`, `SetRawPacketServerAddress`, `SetSaveFile` are the commands of `ClusterThread`.
  A packet is a position in x, y and t with a weight; the history `log` keeps what each packet met.
* `HistogramManager` - the loop of `HistogramThread` with its manager: `PollCommands` and `Poll` in turn,
  `HandlePacket` per packet, `Output`; around it the servers it subscribes to, the communication thread
  that commands, cancels and terminates, and the clock.
* `MainWindow` - `launchServer`, `stopServer`, `serverDone` with its five seconds of sleep, `closeEvent`,
  and the end of `main()`; server objects are queued, starting, serving, done or deleted, and
  `threadDone` counts the events that wait. `wanted` is the user's last order.
* `SpidrServer` - the bytes between the server and the board: `sendCommand` and `commandRecv` word by
  word, and the test board (`test/DummySpidr.cpp`) at the other end of a TCP stream that may deliver
  messages in parts. `TimepixConnectionManager` abstracts a reply to good, wrongsize, unrecognised,
  malformed, short (a header that promises less than itself) or errorcode (an error code beyond the
  tables of messages); this module makes the decision from the words.
* `CommsThreadProofs`, `UdpConnectionManagerProofs`, `RawDataFileProofs`, `PacketFormatProofs`,
  `ClusteringManagerProofs`, `HistogramManagerProofs`, `MainWindowProofs`, `SpidrServerProofs` - the
  theorems.
* `MCCommsThread`, `MCClusteringManager`, `MCPacketFormat` - the constants of runs.

Operators called "Mutant of ..." are deliberately wrong variants of the definition that follows them.
They are used to see that the properties notice.

### How the code is abstracted

* A message is a command code and a *shape*: right size, wrong size, ragged, empty. The id of a request
  doubles as its payload, so that a reply can be traced to the request it answers.
* ZeroMQ is modelled by what the code relies on: a REP socket refuses to receive while it owes a reply
  and to send when it owes none; a closed socket loses what it holds; a PUB socket drops what a full or
  absent subscriber does not take; the context waits for its sockets when it is destroyed and makes
  their receives fail meanwhile.
* The pool starts queued objects in order, needs a free thread for each, and deletes an object when its
  `run()` returns. `undefinedBehaviour` records a use of a deleted object or a read past the data or a
  table; from then on the process may crash. A word count that wraps (an empty message, a short reply)
  either makes `reserve()` throw or has the loop read on until the process goes down; both are steps.
  `failed`, in the record of a thread, is history: the thread has ended its loop itself.
* `Faults` chooses what may go wrong: the local endpoint or the client socket cannot be bound, the
  board refuses, the connection breaks, a secondary thread fails.
* The queue of pending requests in the REP socket is a set: a client has one request outstanding, and
  the socket chooses among the clients fairly but in no order the code depends on.
* A mean of the cluster thread is its exact numerator over the weight, and not a number when the code
  would divide zero by zero. Bins, the size field of a chunk and the period of the histogram keep their
  width as a constant (`BinMod`, `SizeMod`, `IntMod`): they wrap in the runs as they do in the code.
* A stream that fails takes a prefix of what is written, and is bad from then on.

## Runs

| Run | Shows | Bounds |
|---|---|---|
| `comms_safety` | types, `SourceAwaitsReply`, `QueueServesClient`, `ReplyHasClient`, `NoLeakedThread`, `OnlyFailedThreadsDangle`, `TakenWhenIdle`, and that `RequestReply` is implemented (`KeepsPromise`), with every fault, every kind of reply, Stop, and replacements of the client socket | 2 clients, 2 requests of 10 classes |
| `comms_live` | `EveryRequestAnswered`, and that `BgThread` is implemented (`LifeCycle`): a cancelled server ends and is deleted with its threads | 2 clients, 2 requests, rejected, short and erroneous replies, a connection that is refused, breaks or cannot be bound, Stop |
| `udp_rollover` | `RolloverCounted`, `StampsExact` | clock of 20 ticks, 17 rollovers, gap and lateness up to 2 ticks, resets of the clock up to tick 15, chunks of up to 3 packets |
| `raw_data_file` | `FileReadable`, `SavedIsPublished`, `OnlyAskedFile` | 2 paths, 3 chunks of up to 2 packets, 3 commands |
| `packet_format` | `FieldsSurvive`, `PixelsDistinct`, `ClusterOfOne` | words with each field empty, full and at its ends |
| `clustering` | `EachClickOnce`, `BoxIsHull`, `NeighboursTogether`, `NoneOverdue`, `CentroidInHull`, `FileComplete`, `MessageHandled` | 3 packets of one pixel at 4 times in any order, weights 0 and 1, 2 settings, 1 flush, 1 file |
| `histogram` | `CountsExact`, `FramesKeepComing`, `CommandsHandled`, `ThreadEnds` | 1 pixel, 2 servers, bins modulo 3, periods 2 and -1, 1 message waiting |
| `main_window` | `ServerControlled`, `RestartPossible`, `StopIsFinal`, `DanglesUntilThreadDone`, `StopEnds`, `CloseExits`, `Recovers` | 3 server objects at a time |
| `spidr` | types, `ReplyIntact`, `NoWrap`, `CommandsAnswered` | 3 of 13 commands, messages whole or cut after 1, 4, 5 or 6 words |
| `comms_malformed` | violation: a reply that is rejected leaves the command in execution for ever | 1 client, 1 request |
| `comms_stop_race` | violation: Stop before a queued command is sent leaves its client unanswered | 1 client, 1 request |
| `clustering_skip` | violation: a packet that joins three clusters leaves one of them unmerged | 4 packets on a cross of pixels |

Two clients are needed for replies to be mixed up, and two suffice because the socket serves one at a
time. Two requests reach every fault in every place, a replaced client socket and a UDP port that is
rebound with a thread behind it. Seventeen rollovers wrap the 4-bit counter. A pool of four threads is
the smallest that runs the server and its three threads; with fewer, a command forwarded to the thread
that did not get one blocks for ever. Three packets make two clusters and join them; packets of one pixel
differ in time only, which is the dimension in which clusters are finished; the proofs cover the others.
Three objects are one that is being deleted, one that failed because the first still held the port, and
one that is being started.

The programs may stop (the user stops them, clients have sent all their requests, the bounds are
reached), so deadlock is checked only in the runs of the two sequential modules `UdpConnectionManager`
and `ClusteringManager`; elsewhere termination and progress are properties of their own. Symmetry in the
clients is used in `comms_safety` only, which checks no liveness.

### Fairness

`FairSpec` assumes weak fairness of: the thread itself (the operating system runs it, and the loop never
sleeps except for the second after RESET_MODULE); the start, the polling and the end of each secondary
thread (the pool runs them); the end of the connection attempt (TCP times out); the reply of the board
to a command it has received. No client has to send, nothing has to fail, nobody has to press Stop.
`EveryRequestAnswered` leaves out the server that is cancelled, the one that hangs after a rejected reply
(`Hangs`, see `comms_malformed`) and the process that crashed; unrecognised replies and failing threads
are left out by the configuration, because the observations below apply to them.

In the other modules: the loops of the cluster and histogram threads and the event loop run whenever
they can (none of them waits for anything but a timeout), time passes (`Tick`), the pool runs and deletes
what it was given, both ends poll asio and the network delivers (`Server`, `Board`). A server that is told to stop
ends: this is `LifeCycle`. `FramesKeepComing` assumes that messages keep arriving. `Recovers` assumes that
failures stop, and says that from any moment at which there is a server, or its failure is being handled,
and from which on the user leaves the window alone, a server ends up serving. These are premises of the
properties and not fairness.

## Proofs

`CommsThreadProofs` proves, for any set of clients and messages, any number of requests, any kinds of
reply, faults and size of the pool:

* `Invariance`: `TypeOK` and `SafetyInv` always hold. Neither is inductive alone: that a popped queue
  is not empty comes from the invariant, the arithmetic of ids and sequences from the types.
* `SourceSafe`, `QueueSafe`, `ReplySafe`, `TypeCorrect`: consequences.
* `NoLeak`: `NoLeakedThread` is inductive relative to `Invariance`.
* `TakenIdle`, and `Refinement`: every step is a step of `RequestReply` or changes none of its variables.
* `LifeSafety`: every step is a step of `BgThread` or leaves its state and its cancel flag alone. This is
  `LifeCycle` without its fairness.

`SafetyInv` says where the one request being served is. `ClientInv`: whoever waits in the socket or is
owed a reply has not been answered. `InFlightInv`: a command with the board is the only one queued, is
the one of the client that is owed the reply, and comes from the live manager. `QueuedInv`: a command
queued and not sent exists only between `handleCommand` and the next `poll`, or is left behind by an
error on a connection that is gone. `WireInv`: bytes on a connected link belong to the command in
flight. `PlaceInv`: what holds at certain places of `execute()`. `ForwardInv`: a secondary thread holds
a request or a response only while `CommsThread` waits for it. The refinement needs all of them: the
code a reply carries is `mLastCommand`, and only the invariant says that this is the code of the client
that receives it.

The lifetime of the threads and the requests that wait have invariants of their own:

* `FailedThreadsDangle`: `OnlyFailedThreadsDangle`, from `PointerInv`: while the server runs, a thread it
  points to is deleted only after it was told to stop, and one that was told to stop is pointed to only
  when it told itself (`failed`) or between the two `cancel()`s of a reset. The proof goes through every
  step that creates, cancels or forgets a thread. Nothing is assumed of the faults: a thread may fail at
  any time, and what the theorem says is that nothing else makes a pointer bad.
* `RequestsKept`: `NoneForsaken`. While the server runs, a client without an answer still waits in the
  client socket or is being served; this is the safety part of `EveryRequestAnswered`. It is the one
  theorem that asks something of the constants, `KnownReplies`: the board sends no reply `HANDLER_MAP`
  lacks. After such a reply the socket is reset and closed with the requests in it, so the condition
  cannot be dropped. `OwedInv` says that whenever the client socket is polled, the reply it may owe is
  for the command that keeps the server from polling; hence `recv()` is never refused and the reset never
  runs. `RecognisedInv` is what `OwedInv` needs of the board.

`UdpConnectionManagerProofs` proves `CounterCorrect` and `StampsCorrect` for every length of the clock,
provided `MaxGap + MaxLate < Quarter` (packets are never so late or so far apart that a quarter of the
period, 2^32 ticks, goes unnoticed), `LatestStart + MaxGap < 3 * Quarter` (the thread is not started
in the last quarter of a period: it then misses the first rollover) and `LatestReset =< 3 * Quarter` (the
clock is not reset in the last quarter: with one tick more TLC finds `RolloverCounted` violated). The
invariant relates the last packet to the newest (`LastInv`) and the halfway flag to the phase
(`HalfwayInv`). A reset of the clock leaves the flag on and the last packet of the old clock behind; what
saves the counter is that never both of them look like the end of a period (`ResetTimersInv`).

`RawDataFileProofs` proves, for any paths and packets and any chunk whose bytes fit the size field
(`PacketBytes * MaxChunk < SizeMod`; in the code 8 and BUFFER_SIZE / 8 against 2^16), that files can be read from header to
header (`FilesReadable`), hold what was published since they were opened up to the first write that
failed (`SavedCorrect`), and that only the file asked for last is changed (`OnlyAsked`). `FileInv` adds
to them that the open stream is the one of the last command (`AskedInv`).

`PacketFormatProofs` proves the three statements about words for *all* words: `FieldsCorrect`,
`PixelsCorrect`, `ClusterCorrect`. Membership of each single bit is followed through masks and shifts;
nothing is said by arithmetic.

`ClusteringManagerProofs` proves `ClusteringTypes` (types, and the bounds of the two loops' indices),
`ClicksOnce`, `BoxesAreHulls`, `NeighboursStayTogether` and `OverdueClustersFinished` for any pixels, times, settings and numbers of packets. `ClusteringInv` adds to
the properties: indices stay in the list and `last_cluster` stays behind `cix` (`LoopInv`), clusters consist of
packets that were handled (`MembersInv`), a packet is in a finished cluster only after a flush or a packet
from the future of its box (`ClosedInv`), and the first loop has left no cluster behind that contains the
packet (`SearchInv`). That removal swaps in the last cluster breaks the last of these when a cluster is
skipped; this is the exception in `NeighboursTogether`.

`CentroidsInHull` and `FilesComplete` are proved there too. A centroid is kept as the product of mean and
weight, so the proof is about sums: `WeightInv` says that `tot_total` is at least the weight of each packet
of the cluster, the bounds of two parts add up to bounds of the whole (`MeanAdd`, `MeanMerge`), and a
centroid in the hull of some packets stays there as `log` grows (`MeanLog`). `FileComplete` is inductive by
itself: only publishing, opening and flushing touch what it compares.

`HistogramManagerProofs` proves `FramesExact` and `InputIsCurrent`; `CountsExact` needs only that a
message is counted completely before the output (`MessageDone`) and the width of the bins.

`MainWindowProofs` proves `ServerStaysControlled`, `RestartNeverThrows`, `StopStaysFinal` and
`DanglingIsBrief` for any number of objects. `WindowInv` says that a `threadDone` waits exactly while the
pointer stands for a server that has ended (`EventInv`), that the widgets follow the pointer
(`WidgetInv`), that the settings of the active server were good (`SettingsInv`), and that what runs was
ordered (`OrderInv`).

`SpidrServerProofs` proves `ReplyIntactAlways` and `NoWrapEver` for any set of commands, data words, number
of commands and way TCP cuts the stream. `SpidrInv` adds to them that between two commands nothing is on
its way (`QuietInv`), and that during one (`ExchangeInv`) the command is untouched, or the whole reply
waits, or only zeros do, because the board answers every part of a command it does not understand with
its error message. That a reply cut short is not accepted follows from the size in its header; that an
error message, or a piece of several, is not accepted from the zeros it has there.

Every proof module also proves its type invariant, by itself or as a part of its inductive one; types
are the ground the other proofs stand on and seldom a result of their own. The assumptions are those stated with the constants;
TLC evaluates them in the runs.

Only model-checked: liveness (`EveryRequestAnswered`, `MessageHandled`, `FramesKeepComing`,
`CommandsHandled`, `ThreadEnds`, `StopEnds`, `CloseExits`, `Recovers`, `CommandsAnswered`) and the
refinement `LifeCycle`, which contains liveness, are beyond the prover (`LifeSafety` is the part of
`LifeCycle` that can be proved), and the three violations are behaviours TLC exhibits. No invariant or
action property of a passing run is without a theorem.

## Observations

The three violations are findings in `PROJECT.json`. While modelling, these behaviours of the code were
met too; they are in the modules as the code has them, and properties name them as exceptions or a run's
configuration leaves them out:

* A UDP port that cannot be bound ends the UDP thread (`UdpConnectionManager.cpp:62`), the pool deletes
  it, and nobody tells `CommsThread`: the next SET_UDP_PORT, or the clean-up, calls `cancel()` on the
  deleted object (`CommsThread.cpp:80, 129`), although the comment there counts on the deletion: "should
  auto-delete once run() is finished". `OnlyFailedThreadsDangle` has it as an exception.
* `resetClientConnection` (`CommsThread.cpp:111-112`) calls `cancel()` twice on an object the pool may
  delete after the first call, and keeps `mUdpCommandSocket`: a later command for the UDP thread goes to a
  thread that has ended, and the receive never returns.
* `open()` at `CommsThread.cpp:50` is outside the `try` block: when the port cannot be bound again,
  threads are not cancelled and the destructor of the ZeroMQ context waits for the command sockets.
* RESET_MODULE on a broken connection destroys the `io_context` under a socket that is still there
  (`TimepixConnectionManager.cpp:87, 139`).
* Data are read outside their buffers: after an empty message from a client, whose word count wraps
  (`PythonConnectionManager.cpp:150`, `SecondaryThread.cpp:66`); after a reply whose header promises less
  than 16 bytes (`TimepixConnectionManager.cpp:341`); with an error code above 10, or above 11 for the
  second table (`TimepixConnectionManager.cpp:436, 439`); and after SET_CLUSTER_PARAMETERS with fewer than
  three words (`ClusterThread.cpp:108`). All of them set `undefinedBehaviour`.
* A packet that joins two clusters is added to the second (`ClusteringManager.cpp:229`) before that is
  added to the first, which has the packet already (line 231): its time over threshold is in `tot_total`
  twice, and the centroid is drawn towards it. `EachClickOnce` is about which packets a cluster has and not
  about their weight; `CentroidInHull` allows for it.
* RESET_TIMERS in the last quarter of a period makes the next packet count a rollover that did not take
  place, because nothing tells the thread, and `resetToaRolloverCounter` leaves `mLastToA` and
  `mHalfwayToRollover` alone (`UdpConnectionManager.cpp:236`). The assumption on `LatestReset` leaves this
  quarter out.
* `flush()` (`ClusteringManager.cpp:199`) publishes clusters but does not save them: `FileComplete` leaves
  them out.
* `setInputServerAddress` (`HistogramManager.cpp:45`) and its counterpart in the cluster thread swallow
  the exception of `connect()`: the client is told of a success (the state `"dead"`).
* Between the deletion of a server by the pool and the handling of its `threadDone`, Stop calls
  `cancel()` on a deleted object (`MainWindow.cpp:129`); `DanglesUntilThreadDone` bounds the interval.
* The test board answers `CMD_GET_CHIPBOARDID` with a reply that names `CMD_GET_FIRMWVERSION`
  (`DummySpidr.cpp:216`), and `commandRecv` does not compare the two.

## Not modelled

* UI panels, settings dialogs and the log: pure I/O. `clustering_test.cpp` is commented out.
* asio and toml, vendored under `ext/`, which are nearly all of the lines of the repository; ZeroMQ and
  cppzmq are submodules whose contents are not in it. They appear as the code uses them. The share of the
  repository's lines that the map covers is small for this reason; of the program's own sources the
  managers, threads and the main window are covered.
* A board that replies late or twice, and clients that give up and reconnect.
* SET_PIXEL_CONFIG commands larger than the 1024-byte command buffer
  (`TimepixConnectionManager.cpp:248`): a write past a buffer is undefined.
* The wrap of the 38-bit times in the cluster thread after sixteen periods, and cluster parameters of
  2^31 or more, which become negative.
* `Cluster::settings` is static and survives a server; the model starts with the defaults and lets the settings change between
  any two messages.

## Plan

1. *(done)* the request/reply core, its refinement and proofs; the rollover counter.
2. *(done)* clusters, histograms, save files, packet formats, message framing with the test board, the
   main window and `BgThread`, with their proofs.
3. *(done)* proofs for the test board, the centroids, the files of clusters and the lifetime of threads;
   resets of the board's clock.
4. Left: times that wrap in the cluster thread; a fixed variant of the three findings with the
   exceptions of the properties removed; the composition of `MainWindow` with `CommsThread` instead of its life cycle.
