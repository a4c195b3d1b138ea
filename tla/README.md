# xrtc in TLA+

xrtc is a C++ real-time-communication library.  Its own code is small: an SRT
endpoint (`srt_net/`), a bitrate controller on top of it, a run-once helper
(`base/`), an MPEG-TS muxer wrapper (`simple/`), a logger and the beginnings of
a WebRTC plugin.  The rest of the tree, `3rd/`, is vendored; of that, the
MPEG-TS library and what SRTNet sees of the SRT library are modelled too.  This
directory models the parts with real state and real concurrency, checks them
with TLC and proves their main invariants with TLAPS.

## 1. Inventory

| component | state | operations | who calls it |
|---|---|---|---|
| SRTNet server, `srt_net/srt_net.cpp` | mode, `server_active_`, listener `context_`, `poll_id_`, `client_list_`, two thread handles, two mutexes | `startServer`, `stop`, `getActiveClients`, `getStatistics`, `sendData`; threads `waitForSRTClient`, `serverEventHandler`; callbacks `clientConnected`, `receivedData[NoCopy]`, `clientDisconnected` | application threads, its own two threads, SRT's threads through the epoll |
| SRTNet client, same class | mode, `client_active_`, `context_`, `client_context_`, `worker_thread_` | `startClient`, `stop`, the destructor, `sendData`, `getStatistics`, `getConnectedServer`; thread `clientWorker` | application threads, its worker |
| RunTask, `base/run_task.cpp` | count, elapsed time, start time, limits | `doByTimeAndCount`, `doByTimeOrCount`, `reset` | SrtCongestionCtrl |
| SrtCongestionCtrl, `srt_net/srt_cc.cpp` | two sample windows, estimates, history of headrooms, `congestion_state_`, two RunTasks | `congestionCtrl`, `updateVideoEncodeBitate`, `getSockstate`, `getSndBuffer` | a sampling and an encoder thread |
| SimpleMpegtsMuxer, `simple/` | output callback, a mutex, an `MpegTsMuxer` | constructor, `setOutputCallBack`, `encode` | application |
| `3rd/mpegts` | muxer: PID map, continuity counters, table index; demuxer: PMT, one frame under construction per PID, bytes left over | `MpegTsMuxer::encode`, `MpegTsDemuxer::decode` | SimpleMpegtsMuxer; receivers |
| XLog, `logger/` | two lazily created spdlog loggers | `log`, `setTextPath` | everybody |
| webrtc plugin, `webrtc/plugin/` | a try-lock | `OnFrameCaptured` (its body is commented out), `GraphicsDevice::Init` | WebRTC |
| test program, `srt_net/test_srt_net.cpp` | one server, two clients | a fixed scenario | |
| Qt application, `app/`, `xrtc.cpp` | none | | |

**How the parts interact.**  A server has three kinds of threads.  An
application thread in `startServer()` or `stop()` holds `net_mtx_` for the whole
call.  The worker thread creates the epoll, starts the event thread, closes what
an earlier run left, and then accepts clients, asks `clientConnected` about each
and lists it under `client_list_mtx_`.  The event thread waits on the epoll, reads
each ready socket *without* the lock, then takes `client_list_mtx_`, looks the
socket up, and either removes it or runs a data callback under the lock.
`stop()` clears `server_active_`, closes the listener, closes every listed
client, and joins the worker, then the event thread.  A client is one
application side and one receiving thread that share `client_active_` and the
SRT socket; `sendData()` and `getConnectedServer()` read the object from any
thread without a lock.  SimpleMpegtsMuxer builds a frame and calls the library,
which puts tables and 188-byte packets in one buffer and hands it to the output
callback; a demuxer at the other end puts the frames together again.

**What is hard here.**  The list can change between a receive and its handling;
`event_thread_` is assigned by another thread than the one that joins it; three
places may find the same client dead; clients break at any moment, also
between accept and subscription, and SRT's garbage collector closes them on its
own; `stop()` must get four kinds of blocking calls to return; two mutexes and
user callbacks allow a lock-order cycle; server and client learn of each other's
end at different times; limits (epoll array, `int` sums, 16-bit lengths, stuffing
of a last packet by one byte); counters kept per stream and read per PID; packets
cut up or lost on the way.
`PROJECT.json` lists these as hazards, each at its line.

**What makes each part correct.**  Server: handles are never overwritten, every
connection is closed and reported once and is never lost from sight, stopping leaves
nothing behind, live clients are left alone, `stop()` returns, breaks are reported,
nobody waits in the backlog for ever.  Client: the active flag belongs to the
current connection, a loss is reported once and eventually, stopping cleans up.
RunTask: at most one run per reset, exactly when calls and time say so.
SrtCongestionCtrl: windows in step, decisions only on full windows, estimates inside
the samples, bitrate inside its limits.  MPEG-TS: the frames that go in come out
whole, in order, with their type and timestamps; counters and tables are right; a
loss is noticed.  Server and client together: the end of one is noticed by the
other, and neither drops the other without cause.

## 2. Modules

| module | contents |
|---|---|
| `SRTNetServer` | the server: application, worker, event thread, SRT and peers |
| `ClientRegistry` | abstract: what the server promises of each connection |
| `SRTNetClient` | the client: application, worker, SRT |
| `SRTNetReaders` | the client and a thread in one of its unlocked operations |
| `SRTNetLink` | a server and a client, the peer actions of each being the steps of the other |
| `RunTask`, `RunTaskOwner` | the operators of a task; a task with an owner that calls and resets it at any time |
| `SrtCongestionCtrl` | the controller, with two `INSTANCE`s of `RunTask` |
| `TsPacket` | the layout of packets: operators only |
| `MpegTsMuxer` | SimpleMpegtsMuxer and the library's muxer, to the wire |
| `MpegTsDemuxer` | the wire and the library's demuxer |
| `*Proofs` | inductive invariants and theorems |
| `MC*` | what TLC needs: symmetry, muxer configurations |

Operators introduced by `\* Mutant:` are wrong on purpose and no action uses
them.  Each is the slip its comment names; substituted for the definition below
it, it must make a property fail.

### SRTNetServer

| state | code |
|---|---|
| `mode`, `server_active`, `client_list` | `current_mode_`, `server_active_`, the keys of `client_list_` |
| `listener` | the SRT state of `context_` |
| `list_mtx` | `client_list_mtx_`, where it stays locked between two steps |
| `apc` | where the call holding `net_mtx_` is; `"idle"` means the mutex is free |
| `wpc`, `wsock` | `waitForSRTClient` and `newSocketCandidate` |
| `epc`, `batch`, `extra`, `esock`, `eres` | `serverEventHandler`, `ready[]` (entries written and not), `thisSocket`, `result` |
| `sock`, `data`, `watch`, `notice` | SRT: connection states, pending messages, epoll subscriptions and events |
| `rejected`, `disc`, `retired`, `fault` | history: refused clients, callback counts, connections of earlier runs, what went wrong for good |

Actions are named after the thread and the step: `StartServer`,
`StartServerFails` (every error return: a socket that was never made, one that is
closed, one left open), `Stop*`, `Worker*`, `Event*`, and for SRT `PeerConnect`,
`PeerSend`, `PeerBreak`, `GcClose`, `GcRemove`.  A step ends where another
thread could see a difference: at a lock, a blocking call, an atomic flag.
`closeAllClientSockets` is one step: it holds the lock throughout and does not
block, and other threads see only its sockets close.

How SRT behaves is taken from `3rd/srt/srtcore`: a failed `srt_accept` once the
listener is closed; `srt_epoll_add_usock` raising nothing for a socket that
already broke (`core.cpp`, `addEPoll`); `srt_epoll_uwait` returning one more than
it wrote when it ran out of room (`epoll.cpp`); `srt_close` failing for a socket
that is closed already, which the garbage collector does for broken ones
(`api.cpp`, `checkBrokenSockets`), and then leaving it subscribed until the
collector destroys it.  A connection that dies in the backlog is taken for one
that breaks after `srt_accept`.  Undefined behaviour is explicit: an unwritten
`ready[]` entry holds any number, and a dereferenced `end()` sets `fault` and goes
on, the alternative being that nothing follows.

`SlowHandler` lets the garbage collector destroy a socket before the event thread
read its event; SRT waits a second or more before that, so the liveness runs set
it to `FALSE` and the safety runs to `TRUE`.  The application's callbacks take no
mutex of the object (`CallbackReturns`).  One that does, by calling
`getStatistics()`, can deadlock with `stop()`: that is the mutant
`CallbackLocksNet`, which breaks `StopReturns`.

### ClientRegistry

The life of a connection as the application sees it: unknown, offered to
`clientConnected`, refused or accepted, listed, reported by `clientDisconnected`.
One connection at a time is offered, and none comes back.  `Life` in
`SRTNetServer` is the refinement mapping; `RegistrySpec` says the server
implements the registry.

### SRTNetClient

`apc` is the application inside `startClient()`, `stop()` or the destructor
(`dying`), `wpc` is `clientWorker`, `sock` and `data` are the SRT socket.
`startClient` takes two steps, since `srt_connect` blocks, `stop` two, since it
joins.  `disc` counts reports of the current connection, `stopped` is what the
last `stop()` returned.

`SRTNetReaders` adds one thread in `sendData()` (reads the mode, then the flag,
then the socket) or `getConnectedServer()` (mode, then the pair), one read per
step.  History variables record whether the connection was replaced, and whether
a `stop()` overlapped the call.

### SRTNetLink

`SRTNetServer` and an instance of `SRTNetClient`.  `srt_connect` puts a connection
into the server's backlog; sending at one end is a message at the other; either
end may find the connection gone at any time, and the history variable `cut`
records the connections that the network, and not the other end, brought down.  The
calls are those of `test_srt_net.cpp`, in any order and number: starts that work, or
whose `srt_connect` fails, stops, sends, and the client's destructor, since the test's
clients are globals and are destroyed when `main()` has returned.
`getActiveClients()` only holds `client_list_mtx_` for a while; the server's own runs
have it, the link does not.

### RunTask and SrtCongestionCtrl

A task's empty optionals read as zero in the code and are zero in the model. Time is
an integer clock read once per call.  `accumulate` adds the samples up one after the
other, as `std::accumulate` does, wrapping at every addition.  `congestionCtrl` and
`updateVideoEncodeBitate` are three and two actions, by whether the task fires and
whether `srt_bstats` works.  `state_array_` is never cleared and only its size and
sum matter, so these are the state.  Decimal factors are exact fractions; the `int`
accumulator wraps at `IntHalf`, the `size_t` division and the 64-bit product of
bandwidth and round-trip time at `SizeRange`.  `RunTaskOwner` is an owner of either
kind (`use_or`) that remembers how many calls it made, and when, which is what the
properties compare with.

### TsPacket, MpegTsMuxer, MpegTsDemuxer

Bytes are told apart by their offset in their frame, never by their value.  A
packet record says what the muxer wrote where: how long the adaptation field is,
where the payload begins, which bytes of which frame it is.  The demuxer
*computes* the position it reads from out of the length fields, as the code does
(`FieldEnd`, `PesEnd`), and `append` compares that position with where the payload
is: a frame is `intact` only if every byte came from the right place.  Timestamps
are their bits 30 and up, the ones `readPts` treats differently.  Each operation
holds a mutex from end to end and is one action.  `decode(bytes)` is a call with
a buffer of that size, in pieces that do not end at packet boundaries; its loop is
the recursive function `DecodePackets`, the demuxer after so many packets; `Lose`
drops a packet from the wire.

## 3. Runs

| run | bounds | shows |
|---|---|---|
| `server_safety` | 3 connections, backlog 2, room for 2 epoll events of 4, symmetric | `TypeOK`, `NoTerminate`, `StoppedQuiescent`, `Accounted`, `RestartSheds`, `AtMostOneLeft`, `RefusedIgnored`, `ListStable`, and `RegistrySpec`: the refinement of `ClientRegistry`; even when an unwritten entry is handled |
| `server_live` | 2 connections, room for 5 of 20, fair | `StopReturns`, `BreakReported`, `BacklogServed`, `NoSpuriousDisconnect` |
| `link` | one connection, starts and stops unbounded, fair | `NoEndWithoutCause`, `AbortHasCause`, `StopReachesClient`, `StopReachesServer`, `ReportedGone` |
| `client` | none: the state space is finite and complete | six invariants, among them `OneConnection` for the unlocked reader; `CallReturns`, `LossReported` |
| `task` | limits 0 to 2 and none, counts 0, 1, 3, clock to 5, 4 calls per round | `FiresOnce`, `FiresWhenDue` |
| `congestion` | windows of 2, 3 windows, clock to 2 | `WindowsAligned`, `DecisionOnFullWindow`, `EstimateInRange`, `BitrateBounded` |
| `mux` | 3 frames, one packet lost, counters mod 4, tables every 2 frames, lengths up to 400, buffers of 470 bytes | `Continuity`, `TablesRecur`, `RoundTrip`, `NothingWithheld`, `OneLossNoticed` |

Three connections let one be in the worker's hands, one listed and one left over
from an earlier run, at the same time; starts and stops are not bounded.  Three
ready sockets exceed room for two exactly as six exceed five, and room for five is
never exceeded.  In `link` one connection is ever made, at any point of any number
of starts and stops of either end; later attempts fail in `srt_connect`.  Its
liveness properties are about the two ends of one connection, and the server's
bookkeeping of several is the other runs' business; its two invariants are proved
for any number of connections, as long as no poll is overfull (section 4).  The
`congestion` run reaches a first decision at the second window and another at the
third, and enough encoder updates to hit either limit; windows of 2 replace 6
because the property is about when a list is full, not how long it is.

In `mux` the packet is 188 bytes as in the code.  Frame sizes are chosen for the
edges: 0 makes no packet; 345 leaves one byte of stuffing in the second packet,
or, with two timestamps, four bytes for a third that is nearly all stuffing; 500 exceeds
`PesMax` = 400, which stands for 0xffff, so that the length is left out; an audio
frame of 168 bytes fills its packet exactly if it is a random access point.
A counter modulo 4 wraps within a frame or two.  470 bytes are two
and a half packets.  The timestamp 5 = 101b has the bit that `readPts` loses.

Deadlock is checked in the server and task runs.  It is not in the others, where
the application may stop calling (a destroyed client; a stopped link; a clock or
a number of frames at its bound).

Five runs are expected to fail; each shows a place where the code departs from
what the repository says of it.

| run | what happens |
|---|---|
| `server_data_race` | the event thread has received data, `stop()` empties the list, the event thread then uses `end()->second` |
| `server_unreported` | a break between accept and subscription is never noticed |
| `client_destroy` | after SRT collected the broken socket `stop()` returns false without joining, and the destructor hits `std::terminate` |
| `congestion_overflow` | six samples of 400 Mbit/s overflow the `int` sum.  Rates are in units of 1024 bit/s, which makes the `int` 2^21 either way; list sizes are the code's.  `SizeRange` is 2^26, small enough for TLC's integers and above every product of a rate that is right |
| `mux_audio` | SimpleMpegtsMuxer sends audio on the video PID; the receiver takes it for video |

Departures that the models contain and the properties state around:

- A client accepted while `stop()` runs is listed after `closeAllClientSockets()`;
  `stop()` returns true with it connected.  `AtMostOneLeft`: there is never more
  than one.  `RestartSheds`: the next start closes it.  `StopReachesClient`
  excepts it by name.
- A client that `clientConnected` refuses is closed with POSIX `close()`, which
  does not know SRT socket numbers: the connection stays up, although
  `test_srt_net.cpp:48` says "Return nullptr if you don't want to connect to that
  client".  `RefusedIgnored`: the server at least has nothing more to do with it.
- With more ready sockets than 5, an unwritten entry of `ready[]` is handled.
  `Accounted` and `RegistrySpec` hold all the same.
- `RunTask::reset()` keeps the start time, so later rounds do not wait anew, and
  `doByTimeOrCount()` without a time limit never fires: `FiresWhenDue` says
  precisely this.
- A frame above 0xffff bytes comes out only when its stream's next frame starts,
  marked broken and with that frame's random access flag; `readPts` loses bit 32:
  `RoundTrip` and `NothingWithheld` say so.
- The demuxer ignores continuity counters.  One lost packet always shows in a
  length (`OneLossNoticed`); two need not.

### Fairness

`FairSpec` assumes weak fairness of every step of a running thread: a thread that
can run does, and callbacks return.  Steps that wait for `client_list_mtx_` get
strong fairness, because the mutex is free infinitely often, not continuously;
no holder keeps it for ever, and the platform's mutexes do not starve a waiter
for ever.  In the client `srt_connect` ends, at the latest by SRT's own connect
timeout.  Nothing is assumed of the application or the peers: they need not
start, stop, connect, send or break.  In the link the network is fair in one
respect: when one end of a connection is down, the other end finds out, by SRT's
shutdown message or because its peer-idle timer (5 s) runs out, which needs
nothing from the network.  `SlowHandler = FALSE` is the one timing
assumption of the liveness runs (above); without it an event can vanish
unread and `BreakReported` is not true.  The liveness properties except
behaviours that already hit undefined behaviour.

## 4. Proofs

All theorems hold for every value of the constants allowed by the named
`ASSUME`s, which are what the code fixes (sizes positive, at most as many
entries requested as `ready[]` has, `NoSock` no connection).

**Server.**  `Inv` = `TypeOK /\ PhaseInv /\ OwnerInv /\ RetiredInv`.  None of the
safety properties is inductive alone.  `NoTerminate` needs to know that when
`stop()` is past the worker's join the event thread's handle has been assigned,
and that neither thread ends before `server_active_` is cleared: `PhaseInv`.
`Accounted` needs to know that a connection in the worker's hands is unlisted and
unreported, and that only accepted ones are ever listed: `OwnerInv`.
`RestartSheds` needs to know which clients can be listed while the server is
down: `RetiredInv`.  Each part has its step lemma with one case per action;
`Invariance` combines them.

| theorem | statement |
|---|---|
| `TypeCorrect` | `Spec => []TypeOK` |
| `NoThreadOverwritten` | `Spec => []NoTerminate` |
| `StopQuiesces` | `Spec => []StoppedQuiescent` |
| `ConnectionsAccounted` | `Spec => []Accounted` |
| `RestartShedsLeftovers` | `Spec => []RestartSheds` |
| `ListStableUnderLock` | `Spec => ListStable` |
| `OnlyDeadDisconnected` | `Spec /\ []PollFits => NoSpuriousDisconnect` |

`PollFits` says that no poll finds more sockets ready than `srt_epoll_uwait` may
write.  It does not bound how many connections there are or were.  In an overfull
poll an unwritten entry may name a socket number before it is connected, and the
property is not claimed.  The theorem has an invariant of its own, `PolledInv`: a
socket whose receive failed was accepted and is not connected any more.

Three theorems came with the registry.

| theorem | statement |
|---|---|
| `StopLeavesAtMostOne` | `Spec => []AtMostOneLeft` |
| `RefusedStaysOut` | `Spec => []RefusedIgnored` |
| `ServerImplementsRegistry` | `Spec => RegistrySpec`: the initial state maps to the registry's, and each action of the server to one of the registry's or to no change |

`LeftInv` says that listed and in-hand connections together are at most one once
`stop()` has emptied the list; `RefusedInv` that a refused connection, or one in
hand, is in none of the server's sets.  The refinement uses both with `Inv`: a
connection is offered from `unknown` only because what `srt_accept` returns was
queued until then.

**Client.**  `TypeCorrect`, `ActiveOnlyWhileReceiving`, `LossReportedOnce`,
`StopCleans`, `AbortNeedsFailedStop`, from one invariant that ties the two program
counters, the flag and the socket together.  `UnlockedReadsConsistent` adds
`ReaderInv`: while no `stop()` overlaps an unlocked call, the object stays in mode
client with no call in progress, and `startClient()` changes nothing then.

**RunTask.**  `TaskFiresOnce` and `TaskFiresWhenDue`, for every limit, count and
clock.  The invariant says that while the task is not done its counters are the
owner's, and that once it is done they stand still below the owner's.

**The link.**  `LinkRunsTheServer` (`LinkSpec => Spec`) and `LinkRunsTheClient`
(`LinkSpec => Client!Spec`): a step of the pair is a step of each end or leaves it
alone, so what is proved of server and client holds of the two together.  The one
place where it could fail is a client that sends while it has no connection of the
server's: `PeerInv`, with the client's own invariant, which is taken over from
`SRTNetClientProofs` by instantiation.  From these two follow

- `EndsHaveCauses` (`LinkSpec /\ []PollFits => []NoEndWithoutCause`): of a connection
  that the network did not cut and whose server was not stopped since, the server's
  end goes down only after the client's, and the client's stays up and active until
  its own `stop()`;
- `AbortsHaveCauses` (`LinkSpec /\ []PollFits => []AbortHasCause`): the abort that
  `client_destroy` shows needs a connection that the network or the server ended.

Both come from `CauseInv`.  Its two halves say why the server's end can be down and
why the client's can; neither is inductive without the other, since each end follows
the other down.  `ServerDropsOnlyBroken`, from `PolledInv` and the server's `Inv`,
says that an active server closes no connection of its run that is up.  `DownInv`
says that a stopped server has an empty backlog and that all it ever accepted
belongs to earlier runs, so that a new start brings no old connection back
(`SameRun`).

**Congestion control.**  `BitrateStaysBounded` (if the encoder starts within the
limits; `AdjustedInRange` is the arithmetic), `WindowsStayAligned` (if the two
list sizes agree, as they do), `DecidesOnFullWindow`.  `CongestionTypes`
(`Spec => []TypeOK`) needs `TypeInv`, which adds that no task started in the future;
the time a task has run would be negative otherwise.  `EstimateStaysInRange`
(`Spec => []EstimateInRange`) assumes `SumsFit`: a full list of samples sums to less
than `IntHalf`, which the code needs too, as `congestion_overflow` shows.
`SumInRange` bounds what `accumulate` computes, `Quotient` the `size_t` division,
`EstimateIs` puts them together; the list never reaches `BW_LIST_MAX` between
calls.

**MPEG-TS layout and muxer.**  `LayoutSound`: for every frame and every packet of it
the reader's arithmetic ends where the writer put the payload, the payload fills the
packet, and consecutive packets continue each other, for every packet size above the
longest header (31).  `TablesKeepComing` (`Spec => []TablesRecur`) from `IndexInv`.
`ContinuityHolds` (`Spec => []Continuity`, assuming that no two stream types share
a PID) from `CcInv`: each counter is the one last written on its PID.

**MPEG-TS demuxer.**  For every packet size, frame size, table interval, number of
frames and way to cut the bytes up:

| theorem | statement |
|---|---|
| `MpegTsTypes` | `Spec => []TypeOK` |
| `OneLossIsNoticed` | `Spec => []OneLossNoticed`, assuming `OwnPids` |
| `RoundTripCorrect` | `Spec => []RoundTrip`, assuming `OwnPids` |
| `NothingIsWithheld` | `Spec => []NothingWithheld`, assuming `OwnPids` |

`OwnPids` says that the stream types of a muxer have PIDs of their own, those they
are sent on and those the PMT gives them: a SimpleMpegtsMuxer for one video stream,
or a caller of the library with at most one video and one audio type.  It is the
library's documented use, and `mux_audio` shows that `RoundTrip` is false without it.

The invariants speak of a demuxer `d` that has read `k` packets of a wire `s`, so
that the same formula is the invariant of the system (`k = 0`) and of the loop inside
`decode()`.  `HurtInv` is for a wire that may have lost one packet.
All packets ahead are well formed and in order, and there is one frame `h` at most
that lacks a packet.  The packets of every other frame follow each other, or follow
what the demuxer has gathered of it.  What it has gathered of `h` either ends where
`h`'s next packet begins and is intact, or ends before that, and so stays short of the
announced length whatever still comes.  This is needed because the demuxer looks
at lengths alone: that a hole cannot be filled up to the right length is a fact about
all the packets that are still to come, not about the one being read.
`DemuxInv` adds, while nothing is lost,
`Lossless`: the tables come before the frames that need them, what is gathered is a
beginning of one fed frame with its timestamps and flags, what was handed over is in
order without gaps, and every frame that is to come out has come out, is being
gathered, or is still on the wire from its first packet on.

**How the loops are proved.**  The library's induction theorems take an operator as
a parameter and cannot be used with these provers.  Induction over the packets of a
call (`DecodePackets`) and over the samples of a list (`accumulate`) goes through
sets instead: the numbers for which the claim fails are a subset of `Nat`, a nonempty
one has a least element (`LeastNat`, from the well-foundedness of `<` on `Nat`), and
the step lemma contradicts it (`NatInductive`).  That the recursive functions have the
value their definition says is proved the same way, from the existence of the partial
ones.

**Only model-checked:** liveness (`StopReturns`, `BreakReported`, `BacklogServed`,
`CallReturns`, `LossReported`, the three properties of `link`), since the prover has
no fairness reasoning and no `ENABLED`; and the violations, which are behaviours of
an instance. Every invariant and action property of the passing runs has a theorem.

## 5. Not modelled

The contents of messages, addresses, socket options and log output are abstracted
away.  `getStatistics`, `getSockstate` and `getSndBuffer` change nothing.  An object
that is a server first and a client later is two separate models.  Of
`3rd/mpegts`, `createPcr` and `createNull` (nothing calls them), PCR-only packets
(they change no state), CRCs and the packing of header bits.  Of
`test_srt_net.cpp`, its second client and its output.

`3rd/srt` appears as far as SRTNet can observe it, each definition at the lines it
follows; its protocol is another project's, and a model of it would say nothing
about xrtc.  `openssl`, `spdlog`, `sigslot` and `jmi`, by far most of the tree's
lines, are linked or included and decide nothing here.  XLog is two
function-local statics and calls into spdlog.  The WebRTC plugin and the Qt
application have no behaviour yet.

## 6. Plan

1. *Done:* server, client, RunTask, congestion control; safety, liveness, proofs.
2. *Done:* the registry and its refinement, with proof; the muxer and demuxer;
   unlocked readers; server and client composed; RunTask without a time limit.
3. *Done:* the demuxer's properties for frames of any size, the controller's
   estimate, and the link's safety, with proofs.
4. Left: two clients on one link; a server object that is later used as a client.
