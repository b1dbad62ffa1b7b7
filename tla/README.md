# TLA+ models of SRTdatacontroller

This directory holds TLA+ specifications of the SRTdatacontroller tool, which is in
`src/structure/SRTdatacontroller/`. It also holds the TLC configurations that check
those specifications. Every module is translated from the C++ source.
`PROJECT.json` maps each definition to the lines it models. It also lists the runs,
the mutants that show each checked property can fail, the defects found, and the
hazards of the code.

## The system

SRTdatacontroller is a command-line tool. Its subcommands move data over SRT. Each
subcommand is a set of threads around one or two SRT endpoints.

| Part | Source | State and operations |
|---|---|---|
| SRT endpoint | `srt_socket.cpp/.hpp`, `socket.hpp` | One SRT socket id with two epoll ids when non-blocking. The URI constructor validates options, sets pre-options, creates the epolls and binds. Then come `listen`, `accept`, `connect`, `read`, `write` and the destructor. Every failure path closes the id with `srt_close` and throws `socket::exception`. |
| Connection factory and reconnect loop | `misc.cpp` | `create_connection` builds the endpoint for a URI. In listener mode it keeps the listening socket in a caller-owned slot, `listeningSock`. `common_run` loops: it waits for the next one-second deadline, connects, attaches the connection to the stats writer, runs the processing function, detaches, and repeats while `reconnect && !force_break`. |
| Route | `route.cpp` | Copies messages from `src` to `dst`. In bidirectional mode a second thread, started with `std::async`, copies the other way. A read that returns 0 is skipped. A short write is logged and the message is dropped. |
| Forward | `file-forward.cpp` | Two `forwardMessage` threads over two `SrtNode`s. Each thread closes both nodes when it ends. Then it waits up to 3 s for undelivered data. The outer loop restarts immediately. |
| Generate | `generate.cpp` | Writes numbered payloads at a paced rate. The run is bounded by a count or a duration. It can skip messages to inject loss, and prints a rate report once a second. |
| Receive | `receive.cpp` | Reads messages and optionally prints or validates them. A metrics thread shares the validator under a mutex and is stopped with `metricsStop`. |
| File send and receive | `file-send.cpp`, `file-receive.cpp` | Files go in segments. Each segment starts with a one-byte flag header holding the start and end-of-file bits. The first segment of a file also carries its NUL-terminated name. Each side has a stats-logger thread. |
| Acceptor | `acceptor.hpp` | A loop of `async_accept` calls whose futures are discarded. |

These parts interact in a few ways. `generate` and `receive` pass their pipe to
`common_run`, which owns reconnection, the held listener and the stats writer.
`route` calls `create_connection` once for each side without reconnecting. `forward`
has its own restart loop.
Route and forward run two threads over the same pair of endpoints. `force_break` is
an atomic flag that the signal handler sets and every loop reads.

Some code the source uses is not in the repository: `udp_socket`, `srt_socket_group`,
`socket_stats` (the stats writer), `SrtNode`, the pacers and the metrics classes.
Where the model needs their behaviour, it is taken from `spec.md` and marked
`spec_modelled` in the map.

### Hard behaviours

- Partial failure inside the constructor. `srt_create_socket` runs before option
  validation, and the epolls are created before `bind`. A throw from a constructor
  never runs the destructor, so these resources leak.
- The `listeningSock` slot outlives attempts. What it holds after each kind of
  failure decides what the next attempt does.
- Close paths. `srt_close` is called both on the failure path and in the destructor.
- Timing. There is a one-second retry deadline, infinite `accept` and `read`
  timeouts, and a cancellation flag.
- Threads. Route and forward run two directions at once, and file transfer and
  receive each run a metrics or stats thread beside the pipe.

## Modules

### `ConnectionLoop` (from misc.cpp and srt_socket.cpp)

This module models `common_run` together with `create_connection` on the SRT path,
and the life of every SRT socket id those functions touch.

State:

- `cfg` is the parsed URI and options. It covers mode, scheme, whether the options
  are valid, blocking, bind, reconnect, close_listener and stats.
- `pc` is the program point. `sleeping` is the sleep in the loop, `accepting` and
  `connecting` are inside `srt::accept` and `srt::connect`, and `processing` is
  `processingFn`.
- `srt[h]` is one record per socket id. It holds the library state, how many times
  `srt_close` was called on the id, whether a C++ object owns it, and how many
  epolls that object holds.
- `slot` is `listeningSock`, and `conn` is the connection of the current session.
- `stats` is the set of sockets attached to the stats writer.
- `forceBreak` is the flag, and `lastErr` is the class of the last caught exception.
- Time is relative and counted in whole seconds. `nextIn` is the seconds until
  `nextReconnect`, `sleepIn` is what the current sleep still has to wait, and
  `sinceStart` is the seconds since the last attempt began, saturating at 2.

Actions:

- `LoopTop` models lines 116-122: it reads `tnow`, picks the sleep, and sets
  `nextReconnect`.
- `AttemptStarts` models the end of the sleep.
- `CreateConnection` models `create_connection`, and is the disjunction of four
  actions:
  - `UnknownScheme`;
  - `ReuseHeld`, which reuses the held listener;
  - `CtorFails`, one disjunct per way the URI constructor throws;
  - `Constructed`, which covers the listen step as well.
- The accept side is `AcceptOnClosed`, `AcceptFails` and `Accepted`.
- The connect side is `ConnectFails` and `Connected`.
- `BeginSession` models lines 131-137.
- `PipeEnds` models the processing function returning and `remove_socket`.
- `LoopCondition` models the `while` condition on line 146.
- `Cancel` models the signal handler.
- `Tick` models time passing while the thread is suspended.

Library failures are the constant `Faults`. Each kind names one libsrt call that the
model lets fail: `create`, `pre` (configure_pre), `epoll`, `bind`, `listen` and `post` (configure_post).
The peer's accept and disconnect, library failures and `Cancel` have no fairness.
Weak fairness is given to the program's own steps and to time. A thread that is
running always takes its next step, and a sleep always ends. A connect also ends
(`ConnectFails \/ Connected` is weakly fair). srt fails a connect after its
connection timeout, `SRTO_CONNTIMEO`. In blocking mode `srt_connect` returns the
error. In non-blocking mode the epoll wait at srt_socket.cpp:202 returns, and the
state check raises. An `accept` has no such timeout (epoll wait -1 at line 122).

### `RouteEngine` (from route.cpp, with srt `read` and `write`)

This module models `route::run` and its `route()` pumps over one `src` and one `dst`
socket. The forward pump always runs; with `--bidir` a backward pump runs as well,
started with `std::async`.

State:

- `cfg` is the mode: `bidir` and `blocking`, drawn from the constant `Modes`.
- `mainPc` is where `run` is, and `th[d]` is where the pump of direction `d` is.
- `buf[d]` is the message a pump holds between `read` and `write`, and `err` is the
  exception a pump threw.
- `sent[e]` counts what the peer of endpoint `e` sent, and `inbox[e]` is what the
  socket holds unread. `out[e]` is what the peer of `e` received, and `peer[e]` is
  whether that peer is still connected. Messages are numbered from 1.
- `forceBreak` is the flag, and `exit` is how `run` ended (`clean`, `logged`, or
  `aborted` for the undefined `wait()` on a default-constructed future).

Actions: `SetupOk` and `SetupFails` model lines 89-115 and the catch at 119-122.
`Join` models line 117. `Pump(d)` is `route()`: `LoopCheck`, `ReadData`, `ReadZero`
(the non-blocking read that returns 0 at srt_socket.cpp:522), `ReadFails`,
`WriteOk`, `WriteWouldBlock` (a non-blocking write returning 0, logged and dropped
at lines 62-66) and `WriteFails`. The peers and the signal handler are
environment actions. `MaxMsgs` is 2 messages per peer, which is enough for a message
to be dropped while a later one arrives, and for both pumps to hold one at once.
The pumps and `run` have weak fairness. The peers and `Cancel` have none.
`ReadZero` and `WriteWouldBlock` need the peer on that side to still be connected.
On a lost connection, srt's `recvmsg2` and `sendmsg2` return an error, not
`EASYNCRCV` or `EASYNCSND`, so those calls throw. That is why the fair pumps cannot
spin on a closed peer.

### `Relay` (abstract)

`Relay` states what a relay promises in each direction. The peer of one end
receives only messages that the peer of the other end sent. It receives each at
most once and in the order sent. Messages may be lost, but never duplicated,
reordered or made up. With `Restartable`, a relay may also begin a new session
(`Restart`): the counts and what the peers received start again from nothing.

`RouteEngine` instantiates it with `Restartable <- FALSE`, because `route::run`
makes one session. `ForwardEngine` instantiates it with `Restartable <- TRUE`,
because each `startForwarding` call of `forward::run` makes fresh nodes. Both use
their own `sent` and `out`. `route_safety` and `forward_safety` check
`ImplementsRelay` (`Promise!Spec`) as a PROPERTY.
As an abstract specification, `Relay` translates no code, and `PROJECT.json`
maps none of its definitions to source lines.

### `ForwardEngine` (from file-forward.cpp)

This module models `forward::run`, `startForwarding` and the two `forwardMessage`
threads. `SrtNode` is not in the repository, so its `Receive`, `Send` and `Close`
are taken from the spec:

- `Receive` blocks until a message, a peer shutdown or an error;
- `Send` queues the message in the node's send buffer, where it stays until the
  remote peer acknowledges it;
- `Close` stops the node, and whatever the send buffer holds is not delivered.

State:

- `fpc` is the main thread and `attempts` counts `startForwarding` calls.
- `th[d]` and `buf[d]` belong to the two threads, `s2d` and `d2s`.
- `nodeOpen[n]` and `closes[n]` hold the state of node `n`.
- `inbox[n]`, `unacked[n]`, `out[n]`, `sent[n]` and `peerUp[n]` hold the traffic of
  node `n` and its remote peer.

Each thread's close is two steps, `CloseFirst` for its source node and `CloseSecond`
for its destination node, so the other thread can run between them. `Join` and
`Drain` model lines 111-133, and `NextAttempt` models the restart loop at lines
136-140. The bounds are `MaxMsgs` = 2 messages per peer and `MaxAttempts` = 2 calls.
Two messages let a duplicate or a reordering show, and two calls allow a session
and a restart. Fairness is weak fairness on the program's
own steps and on each thread as a whole. The peers and `Cancel` have none.

### `SessionPipes` (from generate.cpp and receive.cpp, composed with `ConnectionLoop`)

This module is the `generate` and `receive` subcommands: `common_run` with its
`processingFn` bound to `run_pipe` or to `runPipe`. It EXTENDS `ConnectionLoop`.
Every loop action runs with the pipe state unchanged (`LoopStep`). The pipe's
steps run while `pc = "processing"`, and its return (`PipeReturns`) is
`ConnectionLoop`'s `PipeEnds`.

State:

- `pcfg` is the subcommand and the options that change control. For `generate`
  these are `duration` and `lossy`. For `receive` they are `metrics`,
  `metricsFile` (a metrics file is given) and `reply`.
- `pipe` is where the pipe's thread is, and `gi` is `run_pipe`'s index `i`.
- `peer` is the remote end: `up`, `idle` (connected, but it neither reads nor
  sends), or `gone`. The peer acts only while the pipe runs. A loss before then is
  met at the pipe's first read or write all the same.
- `mth` is the metrics thread, `mstop` is `metricsStop`, and `mtx` is who holds
  `metricsMtx`.

Actions:

- The generator is `GenStart`, `GenIter`, `GenWrite` and `GenEnd`. `GenIter` is
  the loop body up to the write: the duration break, the loss skip, or the call
  to `write`. `GenWrite` is the write with timeout -1. It returns (its result is
  ignored), throws when the peer is gone, or waits while the peer is idle.
- The receiver is `RecvStart`, `RecvCancelled`, `RecvEnter`, `RecvRead`, `RecvLock`,
  `RecvValidate`, `RecvReply`, `RecvStop` and `RecvJoin`. `RecvStart` includes
  the early return when the metrics file cannot be opened (receive.cpp:107).
  The file is opened in every session, so that open may fail in one session and
  succeed in the next. `RecvEnter` is the loop head that calls `read(-1)`, and
  `RecvRead` is its return. Between them, `force_break` is not looked at.
- `MetricsHead`, `MetricsLock` and `MetricsUnlock` are `metricsWritingLoop`.
- `PeerGone`, `PeerIdles` and `PeerResumes` are the environment.

Left out: the payload bytes and the validator's counters (the metrics classes
are not in the repository), the pacers (not in the repository; their `wait`
is taken to return), and the log lines, the rate report included. A read or
write that returns 0 changes nothing the model sees. `MaxIter` = 2 is the
message count, and also bounds the index in duration mode. That is enough for a
session to write, skip, and end by each of its exits.

Fairness (`PipeFairness`):

- The pipe, its return to the loop and the loop all run on common_run's one
  thread, which gets weak fairness while it runs the pipe.
- The metrics thread gets weak fairness.
- `RecvLock` is strongly fair. The metrics thread sleeps for a whole
  `metrics_freq_ms` after each unlock, so a reader waiting on the mutex gets it.
- `GenWrite`, `RecvRead` and `RecvReply` are strongly fair too. srt wakes a
  waiting read or write whenever the peer reads or sends again. The four steps
  share one strong-fairness condition, because the pipe is in one of them at a
  time.
- The peer gets no fairness.
- `CSpec` adds `ConnectionLoop`'s fairness for the loop's own steps. It is used
  by `session_pipes` and `session_cancel`.

### `FileTransfer` (from file-send.cpp and file-receive.cpp)

This module models `startFileSender`/`sendFile` against
`startFileReceiver`/`receiveFiles` over one connection. The connection is
reliable and in order, with one message per write. file-send.cpp is written
against another program's API (the `xtransmit` namespace, `asyncConnect`) and
does not compile in this repository. The model follows what its code says.

State:

- The sender is `sPc`, `fi` (the file), `off` (bytes sent) and `hdr` (`hdrSize`).
- The receiver is `rPc`, `ofs` (the ofstream: unopened, open, closed or bad),
  `cur` (the file last opened) and `rcvd[i]` (the bytes written to file `i`).
- `link` holds the segments in flight and `rbuf` the ones delivered but unread.
  `conn` may break.
- `sOpen` and `rOpen` say whether each socket is still open. `stats[s]` and
  `localBreak[s]` belong to the two stats threads.
- `periods[s]` counts the periods of stats thread `s`. `samples[s]` counts the
  rows of counters it has written. The first `getStatistics` call writes only the
  CSV header, after `srt_bstats` has cleared the counters (srt_socket.cpp:712-730).
  `RowWritten` models that.

Each stats thread does one of three things:

- it leaves its loop on `force_break` or on `localBreak` (`StatsExit`);
- it logs one period (`StatsPeriod`);
- it dies by the exception that `get_statistics` throws once the link is down
  (`StatsFails`, srt_socket.cpp:706-710). The link is down when it is broken or
  when either socket is closed; SRT's garbage collector closes the broken socket.
  That exception is stored in the thread's future. It is also how the future's
  destructor stops waiting when `localBreak` is never set.

Bytes are integers. A segment is built as `sendFile` builds it: the flag byte,
then on a first segment the name and its NUL, then the chunk read. The receiver
parses the flags with `% 2` and `\div 2`, reads the name up to the first NUL,
and computes `hdrSize` itself.

Fairness is weak fairness on each program's thread, on each stats thread and on
SRT delivery while the connection is up. The stats thread's fairness is sound
because it sleeps a finite period and then calls `getStatistics` again. A break and `Cancel` get none.

`MaxPeriods` = 2 bounds the periods of each stats thread. Two periods are
enough to tell the header-only first call from a period that writes a row.

The instance is `Seg` = 4 with three one-byte-named files. The first is 4 bytes,
an exact multiple of the chunk, so no segment carries end of file. The second is
empty, so no segment names it. The third is 2 bytes.

### `FileStream` (abstract)

`FileStream` states what file receive promises, whatever the segmenting:

- the files are created in the order they are sent, each at most once;
- only the file created last is written to;
- each file always holds a prefix of the file sent.

Files may be skipped and the transfer may stop anywhere. `FileTransfer`
instantiates it with `written <- rcvd` and `at <- cur`, and `file_safety` checks
`ImplementsFileStream` (`Stream!Spec`) as a PROPERTY.
Like `Relay`, it is a promise, not a translation, and is not mapped to source
lines.

### Runs

| Run | cfg | Expect | What it shows |
|---|---|---|---|
| loop_safety | `ConnectionLoop_safety.cfg` | pass | It checks every configuration against every fault. `CallerSocketNotReused`: the slot never carries a caller or rendezvous socket into the next attempt. `NoOrphanListener`: every listening socket is the one in the slot. `StatsTracksSession`: the stats writer holds exactly the connection of the running session. |
| loop_retry_policy | `ConnectionLoop_retry_policy.cfg` | violation | `RetryPolicy` fails. TLC prints the retry of a configuration error: an unknown scheme or invalid options are retried (misc.cpp:142). On valid configurations alone the same property fails a second way: two attempts start in the same second because `tnow` is read before the sleep (misc.cpp:122). |
| loop_lifecycle | `ConnectionLoop_lifecycle.cfg` | violation | `SocketLifecycle` fails. Every socket id is released at most once and never leaked, and a held listener is still listening. TLC prints a failed bind that leaks the constructor's epolls (srt_socket.cpp:436). On blocking callers, a refused connect is closed twice (srt_socket.cpp:191, then the destructor run from misc.cpp:68). After a failed listen, the closed socket stays in the slot (misc.cpp:60). Each of the three was also confirmed separately. |
| session_cancel | `SessionPipes_cancel.cfg` | violation | `CancelTerminates` fails. `force_break` is not seen while `accept` waits with timeout -1 (srt_socket.cpp:122). It is not seen either while the generator's `write` or the receiver's `read(-1)` waits on a peer that has gone idle (generate.cpp:82, receive.cpp:126). Each of the three was confirmed on its own, with caller configurations and one pipe at a time. |
| session_pipes | `SessionPipes_pipes.cfg` | pass | It checks `common_run` with the generate and receive pipes over every valid configuration, without library failures. `MetricsThreadConfined`: the metrics thread never writes stats while the reader validates, and it has ended before `runPipe` returns. `PipeReturnsWhenPeerLeaves`: once the peer is gone, the pipe returns to the loop, with the metrics thread stopped and joined on the way. `ReconnectsWhenPeerLeaves`: with `--reconnect`, the loop then makes a new connection attempt. The exceptions are a cancel, or the model's socket ids running out (srt never reuses an id). |
| route_safety | `RouteEngine_safety.cfg` | pass | It checks all four modes. `ImplementsRelay`: the route refines `Relay`. `RouteEndsWhenPeersLeave`: once both peers have closed, `run` ends. |
| route_silent_failure | `RouteEngine_silent_failure.cfg` | violation | `RouteFailsLoudly` fails. TLC prints a unidirectional route that ends in `wait()` on a default-constructed future. That is undefined behaviour, an uncaught `std::future_error` in libstdc++ (route.cpp:117). On `--bidir` modes the same property fails another way: the backward pump's exception is stored in a future that is only waited on, so `run` exits cleanly. On non-blocking `--bidir` modes it also fails when a write returns 0 and drops a message already read (route.cpp:65). |
| forward_safety | `ForwardEngine_safety.cfg` | pass | `ImplementsRelay`: each `startForwarding` call is a `Relay` session. Each direction delivers in order, without duplicates, and never takes back what a peer received. `SessionWindsDown`: once one thread stops, its closes end the other thread, and `startForwarding` returns. |
| forward_truncation | `ForwardEngine_truncation.cfg` | violation | `NoTruncation` fails. A thread closes a node whose forwarded message is not yet acknowledged, and the drain runs only after the closes (file-forward.cpp:73-74, 127). |
| file_safety | `FileTransfer_safety.cfg` | pass | `TypeOK` includes that every segment fits the receiver's buffer. `ImplementsFileStream`: the receiver refines `FileStream`. `WrittenIsRead`: every segment file send wrote is delivered and read by file receive, unless the connection breaks, the run is cancelled, or file receive could not create a file. It rests on the drain loop before the close (file-send.cpp:170-174), on delivery while both sockets are open, and on the receiver reading what is buffered before its read throws; skipping the drain breaks it. `TransferReturns`: both programs return, even when the connection breaks. The stats thread's exception ends the wait in the future's destructor. |
| file_stats | `FileTransfer_stats.cfg` | violation | `SampleEveryPeriod` fails. The stats file should hold one row of counters for each period. The first call only writes the header after clearing the counters, so the first period's traffic is never logged (srt_socket.cpp:709-730). |
| file_spin | `FileTransfer_spin.cfg` | violation | `TransferReturns` fails. A file name of `Seg` - 2 bytes leaves no room for data in the first segment, so `sendFile` reads 0 bytes and loops forever (file-send.cpp:37-40). TLC prints a trace where the connection breaks and file receive returns (its read throws), while file send, which never writes, never sees the break. |

Every property of a passing run has a mutant in `PROJECT.json`: a plausible bug
in one mapped definition that TLC shows violates it. An example is the sender
that reopens the same file (`NextFileRepeat`). It breaks `ImplementsFileStream`,
although every file still holds a prefix of its content.

Bounds:

- There are three socket ids. One is the held listener, one is an accepted or
  orphaned id, and the third is the next attempt's id. Every leak, reuse and
  double-close needs at most two attempts, which three ids cover.
- Time is relative and saturates, so the state space is finite without a time cap.
- `Configs` ranges over all 2^7 × 3 × 2 combinations in the safety run. The
  violation runs narrow it to the configurations the defect needs.
- `MCPipeConfigs` has four pipe configurations: a lossy counted generator, a
  duration generator, a receiver with metrics written to a file, and a receiver
  that replies and keeps no metrics. Together they cover every exit of both
  pipes. `session_pipes` leaves out the library failures and the invalid
  configurations. Those only end an attempt before any pipe runs, and
  `loop_safety` checks them. That keeps the liveness check near a minute and a
  quarter instead of several.

## Plan

These modules are done: `ConnectionLoop`, `SessionPipes`, `RouteEngine`,
`ForwardEngine`, `FileTransfer`, `FileStream` and `Relay`. The following work remains, in
order:

1. The copied `dstSock` in `startFileSender` (file-send.cpp:158). Its destructor
   closes the socket id that the shared object still owns. Showing the double
   close needs a violation run, and the budget of twelve runs is used.
2. The path handling of file transfer, as a pure module checked against a
   reference layout. This covers `relativePath`, the receiver's `dstPath + name`,
   and `createSubfolders`. `PROJECT.json` lists its two defects as hazards.
   Showing them also needs a violation run.

## Not modelled

- URI parsing, `create_addr`, the CSV and JSON statistics formatting, and the CLI
  subcommand registration. These are pure data conversion or I/O, and no property
  concerns them.
- The UDP and bonded-group branches of `create_connection`. Their classes are not
  in the repository, and bonding is compiled out.
- In `ForwardEngine`: `createNode`'s option rewriting, and the oversize-message
  check at file-forward.cpp:44. Every modelled message fits the buffer.
- The timing of the restart loop in `forward::run`. That module has no clock.
- The generator's rate report (generate.cpp:84-93). Its count includes skipped
  and would-block iterations (a non-blocking write that returns 0 still counts), and its `int` product can overflow. It is a log
  line, and a property on it would need a violation run the budget does not have.
  `PROJECT.json` lists both as hazards.
- `acceptor.hpp`. No source file includes it, and it names
  `xtransmit::socket::srt`, which this repository does not have, so it is never
  built.
- In `FileTransfer`: `readDirectory`, `relativePath` and `createSubfolders`. These
  are file-system I/O, abstracted to one name per file and a create that may fail.
  `createSubfolders` skips every folder before a `./` in the middle of a path
  (file-receive.cpp:38-51). The receiver also joins `dstPath + name` with no
  separator (file-receive.cpp:84), while `relativePath` gives a single file as a
  bare name. A model of one name per file cannot show either defect.
  `PROJECT.json` lists both as hazards.
  Names of exactly `Seg` - 2 bytes are modelled by `file_spin`. Longer names
  overrun the buffer, which is undefined behaviour and is left out.
- `socket.hpp` is an interface with no state. `create_addr` is address
  resolution, which is pure I/O.
- The sender's rate division by `deltaUs` (file-send.cpp:77). The model has no
  clock, so the zero case cannot be reached.
