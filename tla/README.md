# A verification project for castkit

castkit streams a macOS display: a *producer* captures and encodes it, a
*gateway* relays the packets of each room, and *viewers* in the browser decode
them. This directory holds TLA+ models of the parts of that program that are
concurrent or stateful, TLC configurations that check them on small instances,
and proofs checked by TLAPS for every instance.

Run `tlc -config X.cfg M.tla` for a model check and `tlapm M.tla` for the proofs.
`PROJECT.json` lists the runs, the line range of the source each definition
models (`map`), a plausible bug for each property that makes it fail (`mutants`), the
hazards, and the disagreements with the documentation (`findings`).

## 1. Inventory

Paths are relative to `src/`.

### Components

| Component | Source | State it keeps | Operations | Model |
|---|---|---|---|---|
| Room registry | `crates/gateway/src/room.rs` (`Rooms`, bookkeeping of `Room`), driven by `ingest.rs`, `watch.rs` | `DashMap<String, Arc<Room>>`; per room `next_generation`, `connected_generation`, watcher count | `connect_producer`, `reserve_watcher`, `mark_producer_disconnected`, `remove_room_if_current`, `release_watcher`, the 10 s retention task | `RoomRegistry`, abstractly `RoomDirectory` |
| Frame relay | `room.rs` (`publish_frame`), `watch.rs` | cached keyframe, broadcast ring of 256, per watcher a receiver, a queue of 256 and a socket | `publish_frame`, `subscribe`, `forward_frames`, `run_watcher_socket` | `RoomRelay` |
| Command path | `room.rs` (`request_force_keyframe`), `ingest.rs` | command channel of 16, outbound queue of 16, per connection two tasks | `request_force_keyframe`, `forward_commands`, `run_producer_socket` | `ProducerSocket`, abstractly `CommandPath` |
| Room info, HTTP API | `room.rs` (`info` and the stores it reads), `api.rs` | atomics beside the mutex: size, counters; `last_frame_elapsed_ms` | `list_rooms`, `room_detail`, `Room::info` | `RoomInfo` |
| Producer pipeline | `crates/producer/src/lib.rs`, `capture/src/quartz/capturer.rs` | bounded capture queue, force flag, frame count, telemetry counters | capture callback, `run_capture_loop`, `poll_force_keyframe`, `Capturer::drop` | `Producer` |
| Producer policy | `producer/src/lib.rs`, `main.rs` | none | `ProducerPolicy::from_config`, `target_resolution` | `ProducerPolicy`; the way into the room is `Share` |
| VP8 encoder | `crates/capture/src/encoder.rs` | libvpx context | `encode`, `force_keyframe` | settings and buffer lengths: `Vp8Encoder`; what it may return: `EncoderMakes` of `Producer`; libvpx is external |
| Stream worker | `web/js/stream-worker.js` | socket, reconnect timer, decoder, keyframe flags | `start`, `stop`, `handleBinaryMessage`, the callbacks | `Viewer` |
| Stream manager | `web/js/app.js` | `streams`, `pinnedRooms`, two maps of timers, auto-add | `addStream`, `removeStream`, `startAutoAdd`, `stopAutoAdd`, `syncRooms` | `StreamManager` |
| Wire protocol | `crates/shared/src/lib.rs` | none | `encode_frame`, `decode_frame` | `WireFrame` |
| Monitor grid | `web/js/grid.js`, `web/index.html` | DOM layout | `calcGrid`, drag, resize | `calcGrid` planned; the rest is presentation |
| Capture bindings, conversion | `capture/src/quartz/`, `convert.rs` | none of its own | FFI, pixel conversion | buffer checks and extents: `Vp8Encoder`; the declarations are not modelled |
| Server and CLI | `gateway/src/lib.rs`, `main.rs`, `cli/src/main.rs` | the secret | token check, routing, arguments | token check: `Share` |

### Interactions

```
 display stream callback --bounded queue--> capture loop --WebSocket--> gateway ingest
                                   ^                                        |  publish_frame
                                   +----- force-keyframe messages ------+   v
                                                                        |  Room (mutex, cached
 StreamManager --start/stop--> worker --WebSocket--> gateway watch -----+  keyframe, broadcast)
      ^                          ^  <---- cached keyframe, then frames ----------+
      +---- GET /api/rooms ------|----- list_rooms <-- Rooms (DashMap)
```

* The registry's map is shared by every producer connection, watcher
  connection, retention task and departing watcher. DashMap's shard lock and each
  room's mutex are different locks; the watcher count and the cached keyframe are
  read without either.
* A room is a broadcast channel to independent watchers. Each watcher has a
  forwarding task and a socket task with a bounded queue between them.
* Keyframe requests go the other way: worker → watcher socket → room → command
  channel → forwarding task → outbound queue → producer socket → force flag.
* The stream manager sees rooms only through polls; its streams keep a room
  alive because the gateway counts their sockets as watchers.

### What is hard, and what makes each part correct

* **Registry.** Several actors may decide to remove a room at the same time as
  others come to use it; a producer may be replaced at any time, and the old one's
  end comes late; a removed room's id may be used again while timers and
  departing watchers still hold the old object. Correct: counts balance, nobody's
  room is removed, a departed producer silences nobody, no idle room
  remains without somebody to remove it.
* **Relay.** A joining watcher reads the cache and the channel separately; a slow one
  skips frames; a replaced producer goes on sending. Correct: one
  generation after another, a fresh cache, no keyframe missed on joining, what is
  sent is in order, what is skipped gets counted even by a task that is aborted, and a slow peer slows nobody else.
* **Command path.** Full queues, a send that hangs, and a replacement between request
  and delivery. Correct: nothing accepted is lost or misdirected; a replaced
  connection is drained and closed.
* **Room info.** The size and counters are read one by one, without the mutex, while the
  mutex's holder stores them one by one. Correct: an answer has nothing older than the
  call, a list never mixes two producers, and `stale' means that the current producer
  is silent.
* **Producer.** A callback thread against a loop, a full queue, polling only
  between frames, an encoder that may skip frames. Correct: telemetry adds up, requests
  and the interval are honoured, every stop is complete.
* **Configuration to frame.** Clamps, casts to 16 and 32 bits, and bare pointers into vectors
  whose lengths are computed from sizes and strides. Correct: what is accepted arrives as
  it is, and no call leaves its buffer.
* **Worker.** Every callback (socket, timer, decoder, message) may come between
  any two others. Correct: the keyframe flags never let a delta into a decoder that
  misses its references; one connection at most; it always recovers.
* **Manager.** Syncs that overlap and are applied late. Correct: no stream
  is released early, and inactive ones are released.

`PROJECT.json` lists each hazard at its line, with the properties aimed at it or
the reason why there is none yet.

## 2. Modules

| Module | Models | Extends / used by |
|---|---|---|
| `RoomDirectory` | what the registry promises for one id, in five actions | instantiated by `RoomRegistry` as `Directory` |
| `RoomRegistry` | the registry with producer and watcher connections | `RoomRegistryProofs` |
| `RoomRegistryProofs` | theorems about `RoomRegistry` | |
| `RoomRelay` | frames through one room | `MCRoomRelay`, `RoomRelayProofs` |
| `RoomRelayProofs` | theorems about `RoomRelay` | |
| `CommandPath` | what the gateway promises about requests on their way, in five actions | instantiated by `ProducerSocket` as `Path` |
| `ProducerSocket` | commands to producer connections of one room | `ProducerSocketProofs` |
| `ProducerSocketProofs` | theorems about `ProducerSocket` | |
| `Producer` | the producer process while it shares | `Producer*.cfg`, `ProducerProofs` |
| `ProducerProofs` | theorems about `Producer` | |
| `Viewer` | one stream worker | `Viewer.cfg`, `ViewerProofs` |
| `ViewerProofs` | theorems about `Viewer` | |
| `WireFrame` | the header of a packet, byte by byte | `RoomInfo` |
| `RoomInfo` | the part of a room that the HTTP API reads, and its reads | `Share` |
| `ProducerPolicy` | from the arguments to the policy and the target size | `Share` |
| `Vp8Encoder` | encoder settings, buffer lengths and extents | `Share` |
| `SettingsProofs` | theorems about the operators of `WireFrame`, `ProducerPolicy`, `Vp8Encoder` | `ShareProofs` |
| `Share` | producer runs from their arguments into one room that clients ask for | `MCShare`, `ShareProofs` |
| `ShareProofs` | theorems about `Share` | |
| `StreamManager` | one viewer page | `MCStreamManager`, `StreamManagerProofs` |
| `StreamManagerProofs` | theorems about `StreamManager` | |

The `MC` modules hold what only TLC needs: a symmetry set, a sequence of model
values, the configurations a run tries; a module without one is checked as it is. No module declares a RECURSIVE operator.

### How the models correspond to the code

**RoomRegistry.** `inner` is the map entry of one room id; entries of different
ids share nothing. A `Room` object is its address, and an address without
references may be allocated again (`Unreferenced`, `Allocate`), because
`remove_room_if_current` compares with `Arc::ptr_eq`. A producer connection is
`idle → connected → retaining → idle` (`ConnectProducer`,
`DisconnectProducer`, `RetentionExpires`). A watcher is `reserved → watching`, and then
passes through `release_watcher` one lock at a time: `emptied` (decremented to 0),
`dark` (saw no producer), `expiring` (read the generation), gone
(`ReleaseWatcher`, `CheckConnected`, `ReadGeneration`, `RemoveAfterRelease`). A failed
upgrade leaves from `reserved`. `RoomDirectory` is the view of a user of the API:
listed or not, at most one live producer, an audience, and a room expires only
without either. The refinement maps `listed` to a non-vacant entry, `live` to the
producers whose generation is current, and `audience` to the unreleased
reservations.

**RoomRelay.** `frames` is the history of accepted frames, `sent` how many the channel
was given, `keyframe` the cache's position in that history (0: empty). `publish_frame`
holds the mutex over the store and the send but others read the cache without it,
so `Accept` and `Broadcast` are two steps with `publishing` as the mutex. A watcher
subscribes, loads the cache, and then its receiver, pending send, queue
and socket move independently. The tokio channel's ring is modelled by its
rule: a receiver more than `BroadcastSize` behind jumps to the oldest frame
kept and reports how many it skipped. `record_watcher_lag` adds to two counters without
a lock, and `Room::info` may read them in between: `Lagged` counts the event, `CountSkipped`
the frames, and `wUncounted` holds what a task between the two has yet to add. There is
no await between them, so a watcher that leaves does not cut them short. Variables whose
comment says `history` only record.

**ProducerSocket.** Commands are all alike, so the queues are counters. A connection has
two tasks: `sState` is its socket task's phase, `fState` its forwarder's.
`commandTx` is where the room's only sender leads; replacing it makes the old
channel's receiver see the end (`Drained`), which ends the forwarder, which
makes the socket task see the end of its queue (`OutboundEnds`). `CommandPath` has no
channels and no tasks: an open connection *owes* its producer a number of requests. The
mapping's `owed` is all that is in the two queues, the forwarder's hand and the socket's
(`Owed`), so taking a command, queueing it and starting to send it are stutters;
`receiver` is the room's connected producer, and `Capacity` is what the four places hold.

**Producer.** The capture callback (`CaptureFrame`) runs against the loop's thread.
A frame in hand goes through `draining → polling → encoding → sending`. `Tls`
says whether the stream is `MaybeTlsStream::Plain`: only then does
`configure_socket_timeouts` set the timeouts, so only then does an empty poll end.
`LoopFails` stands for every `?` of the loop.

**RoomInfo and Share.** `Share` composes four modules: a process takes a configuration
(`ProducerPolicy`), asks for an encoder (`Vp8Encoder`), connects, and sends packets
(`WireFrame`) into the room (`RoomInfo`). `Connect` is `run_producer` up to its
connection, which comes after every check that can refuse (`Refuse`). In the room,
`held` is what the mutex's holder has still to store: `StoreNext` makes one store, the last
one releases the mutex. `CallInfo`, `ReadProducerState`, `LoadNext` and `Answer` are one call
of `Room::info`: it reads the clock, then the producer state under the mutex, then each
atomic without it. `shard` is the lock of the map's shard: `list_rooms` holds it during
the call and `connect_producer` while it resets the size, so these two exclude each
other; `room_detail` clones the `Arc` and does not hold it. `RoomRegistry` and
`RoomRelay` model the same mutex's holders for what concerns them; none of the three
reads a variable of another.

**Viewer.** The worker is single-threaded and none of its handlers awaits, so each
handler is one action. Its decoding state is a record, and every function of the source
that changes it is an operator on that record, so that `HandleVideo` composes
`Prepare`, `ReplaceClosed`, `SkipDelta`, `ResetDecoderForBackpressure` and
`Decode` in the source's order. `VideoDecoder` and `WebSocket` are the
browser's: modelled by the states and callbacks the worker uses. In particular an
`error` callback may run after other tasks, when the decoder was replaced already.

**StreamManager.** `manager` holds the four collections; `SyncRooms` goes over the
answer as the source's two loops do, in two functions recursive in the number of rooms passed. A fetch is a state of its session (sent,
answered, none), and an answer is the directory at any time between request and
application. Times are ages capped at `Grace`; the code compares only with the grace.

## 3. The runs

| Run | Module, configuration | Shows | Distinct states |
|---|---|---|---|
| `registry` | `RoomRegistry`, `RoomRegistry.cfg` | counts balance, nobody's room is removed, activity is real, the newest producer stays current, idle rooms have a cleaner and do not stay listed; `RoomDirectory` is implemented | 86 k |
| `retention` (violation) | same, `RoomRetention.cfg` | the last watcher removes a room during its retention | |
| `relay` | `MCRoomRelay`, `MCRoomRelay.cfg` | generations fenced, cache fresh, no keyframe missed, order kept | 1.10 M |
| `relay_live` | same, `MCRoomRelayLive.cfg` | a reading watcher keeps up beside a hanging one; the lag counters of both, read at any moment, are short only of what is being added | 538 k |
| `socket` | `ProducerSocket`, `ProducerSocket.cfg` | commands are conserved and arrive; a replaced connection is drained and closed, beside a peer that hangs; `CommandPath` is implemented, so commands are rightly directed | 30 k |
| `producer` | `Producer`, `Producer.cfg` | frames accounted for; requests and interval honoured; waiting requests answered; complete stops | 87 k |
| `producer_tls` (violation) | same, `ProducerTls.cfg` | over TLS the first poll blocks | |
| `share` | `MCShare`, `MCShare.cfg` | an answer of the API is current, a listed size is one producer's, stale means silent; every accepted configuration has settings that libvpx takes and buffers that its calls stay inside | 1.32 M |
| `viewer` | `Viewer`, `Viewer.cfg` | flags agree with the decoder; one connection; recovery | 121 k |
| `manager` | `MCStreamManager`, `MCStreamManager.cfg` | no stream is released early; the limit holds | 993 k |
| `manager_live` | same, `MCStreamManagerLive.cfg` | inactive streams are released while auto-add runs | 30 k |
| `manager_off` (violation) | same, `MCStreamManagerOff.cfg` | they are not when auto-add is off | |

### Bounds, and why they are enough

* *Registry*: three producer connections, two watchers, two addresses, two
  generations per room. A late disconnect that harms needs an old connection and its
  successor; a stale removal needs an address that is freed and allocated again while a
  timer or a leaver still holds the old room (three connections, two addresses) and
  generations that coincide. The theorems of section 5 remove these bounds for safety and
  refinement; liveness (`IdleRoomEnds`) rests on the cleaners, of which two kinds are
  there.
* *Relay*: a ring of 2 and a queue of 1 with five frames make a watcher lag, fill
  its queue and the ring, and join after a change of producer, in every order. The
  real sizes, 256 each, only lengthen the way to these states. `relay_live` has two
  watchers, since the counters are shared and one of them hangs, and a ring of 1, so
  that three frames skip two at once; both tasks can be between the two additions
  of `record_watcher_lag` together.
* *Command path*: queues of 2 and 1 with five requests fill both queues, the
  forwarder's hand and the socket's (2 + 1 + 1 + 1). Two connections are one
  replacement; the theorems cover more.
* *Producer*: a queue of 2 and six frames overflow it more than once, and an interval of
  3 lets the encoder skip a frame between keyframes.
* *Share*: two processes and two packets are a replacement during a call, before or
  after it, and a packet of the replaced one; a clock of two ticks and a window of one make a
  frame fresh, stale, or later than the clock reading. Eight configurations: the
  plain one, with an odd display; sizes of 0, beyond 16 bits and beyond the encoder; a frame rate,
  a quality and an interval out of range; a wrong and a missing token. `U32Max` is smaller than in the code,
  since TLC's integers end at 2^31 - 1; only saturation depends on it, and the theorems cover that.
* *Viewer*: two sizes, two starts, three drops, three decoder failures: enough for
  an error callback to meet a successor, and for its successor's failure. The decode
  queue's limit is 3 instead of 5: the worker only compares the length with it.
* *Manager*: two rooms and one slot make rooms compete; two sessions overlap; a
  grace of two ticks tells an early release from a late one. The liveness run has one
  session and a grace of one.

`CHECK_DEADLOCK FALSE` is set where a bounded counter (frames, requests, captured frames,
starts) or the end of the program stops the model; the registry is checked for
deadlock.

### Fairness

* *Registry*: timers fire and the statements of `release_watcher` run on (tokio runs
  every ready task). Clients are not obliged to do anything.
* *Relay, command path*: tasks run on. A send to a peer completes only for the peers in
  `Reading`; TCP gives nothing for one that does not read. The branch of `select!`
  is chosen at random, so a ready branch is not starved. Weak fairness is enough.
* *Producer*: the loop's thread runs on; the system answers a stop of the display stream.
  Frames, ctrl-c and messages are not obliged to come.
* *Share*: none; every property of it is a safety property.
* *Viewer*: the browser runs its tasks; the gateway goes on sending frames on an open
  socket and answers a request on its way with a keyframe. The latter is what
  `ProducerSocket` and `Producer` show of the other side under frames that keep
  coming; with an unchanging display nothing answers, see the hazard
  at `producer/src/lib.rs:493`.
* *Manager*: the clock goes on, and each session's sync does: its interval fires and its
  fetches end. The code has no
  timeout for a fetch, so that is an assumption on the network.

## 4. Where the code and the documentation disagree

1. `retention`: `README.md:137` says recently disconnected rooms stay visible briefly.
   `release_watcher` removes the room at once when its last watcher leaves after the
   producer, without the retention of `ingest.rs`.
2. `producer_tls`: `README.md:91` says the write timeout prevents stalls. Timeouts are set
   only on plain streams, so over `wss://` the poll before each frame blocks.
3. `manager_off`: `README.md:137` says the viewer releases non-pinned inactive streams. It does
   so only while auto-add is on.

A fourth place is a matter of reading and has no run: `README.md:89` says of the queue that the newest
frame wins. The loop does drain the queue to its newest frame; but the callback's `try_send`
(`producer/src/lib.rs:270`) refuses a frame that meets a full queue, so the one encoded
next is then older than the newest captured. `FramesAccounted` counts these frames.

## 5. What is proved

`RoomRegistryProofs` proves, for any finite set of watchers, any set of
producers and addresses, and any bound on generations (`RegistryAssumption`):

| Theorem | Statement |
|---|---|
| `TypeCorrect` | `Spec => []TypeOK` |
| `WatcherCountCorrect` | `Spec => []WatcherCount` |
| `NoOrphanCorrect` | `Spec => []NoOrphan` |
| `ActiveIsLiveCorrect` | `Spec => []ActiveIsLive` |
| `NewestStaysCurrentCorrect` | `Spec => []NewestStaysCurrent` |
| `GenerationsCorrect` | `Spec => []GenerationsTellApart` |
| `CleanerCorrect` | `Spec => []IdleRoomHasCleaner` |
| `ImplementsDirectory` | `Spec => DirectorySpec`, the refinement of `RoomDirectory` |

The argument is one inductive invariant, `IInv`. Besides the six properties and
`TypeOK` it needs `Attached`: a connection holds a room exactly while its state says so.
None of the parts is inductive alone. `WatcherCount` needs `Attached`, or a released
watcher might be counted. `NoOrphan` rests on `WatcherCount`: `Removable` tests the count, not
the holders. `IdleRoomHasCleaner` needs `GenerationsTellApart` and `ActiveIsLive`,
since a cleaner removes the room only if the generation it carries is still the room's.
The refinement uses `NoOrphan` (no holder of a removed room), `ActiveIsLive` and
`NewestStaysCurrent` (which producer is live).

`ProducerSocketProofs` proves, for any connections, capacities and number of requests
(`SocketAssumption`):

| Theorem | Statement |
|---|---|
| `TypeCorrect` | `Spec => []TypeOK` |
| `RequestsCorrect` | `Spec => []RequestsReachCurrent` |
| `CommandsCorrect` | `Spec => []CommandsConserved` |
| `ReplacedClosesCorrect` | `Spec => ReplacedClosesDrained`, an action property |
| `ImplementsPath` | `Spec => PathSpec`, the refinement of `CommandPath` |
| `NeverStuckCorrect` | `Spec => []NeverStuck` |
| `ReplacedShrinksCorrect` | `Spec => ReplacedShrinks`, an action property |

Its `IInv` adds `Untouched` (a connection not made yet has no commands and no tasks, or its
conservation would start wrong) and `EndedIsDrained`: while the socket
lives, a forwarder has ended only if its channel is empty and nobody can put
a command into it any more. That last part is why a request cannot slip in between the end
of the forwarder and the end of the socket.

The refinement has one lemma per action. It needs `RequestsReachCurrent`, since a request that
went into an old connection's channel would be one to a connection that is not the
`receiver`; that invariant is proved and not in the run, where `PathSpec` covers it. `NeverStuck` and
`ReplacedShrinks` are the safety part of `CommandsArrive` and `ReplacedEnds`: while something is
owed, a task can take a step or its peer has to read, and a replaced connection has a
`Distance` to its close that its own steps shorten and nobody's lengthen. What they leave to the
run is that the possible steps are taken.

`RoomRelayProofs` proves, for any connections, watchers, capacities and number of frames
(`RelayAssumption`):

| Theorem | Statement |
|---|---|
| `TypeCorrect` | `Spec => []TypeOK` |
| `FencedCorrect` | `Spec => []FencedGenerations` |
| `CacheCorrect` | `Spec => []CacheIsNewestKeyframe` |
| `JoinCorrect` | `Spec => []JoinMissesNoKeyframe` |
| `OrderCorrect` | `Spec => []SentInOrder` |
| `LagCorrect` | `Spec => []LagCounted` |
| `UpToDateCorrect` | `Spec => []IdleIsUpToDate` |

Its `IInv` adds `Generations` (only the newest connection can be the connected one, so
an accepted frame has the newest generation), `FramesDated` (no frame is of a generation
not handed out yet, so a reconnect that empties the cache empties it rightly) and
`Joined` (a watcher subscribed at a position the channel had reached, and knows no
generation before it looked). `JoinCorrect` follows from `CacheCorrect` at the moment of
the look and then only from the fact that frames are never removed.

`OrderCorrect` has an invariant of its own, `OrderInv`, on top of `IInv`. `SentInOrder` only speaks of
a watcher that forwards; `InOrder` adds that one which has not looked into the cache
has nothing in any queue and a cursor where it subscribed, and that a cached keyframe
is not lost. What is on its way is one sequence, `OnItsWay`: `Enqueue` and `Send` leave it
as it is (`ForwardedSame`, `SentSame`), `Receive` appends to it (`OrderedReceive`), and `Lagged`
moves the cursor and the number of skipped frames together (`OrderedLagged`).

`LagCorrect` says what the lag counters are worth to whoever reads them at any moment: the
frames counted and those about to be counted are all that were skipped, and events are ahead of frames by at
most one per task between the two additions (`Counting`), since such a task was lagged by at
least one frame. It does not say that the two counters agree in one answer of `Room::info`; they
need not. It is about sums over the watchers, which only a finite set of them has
(`WatchersAssumption`). That changing one summand changes the sum by as much is shown from the
definition of `SumFunction`, by induction over finite sets. `IdleIsUpToDate` says that a watcher with nothing
on its way has been sent the newest frame; its invariant `NewestInv` follows the newest frame of each watcher
through its receiver, hand, queue and socket. It is the safety part of `ReadersKeepUp`:
a watcher can only fall behind by not emptying its queues.

`ProducerProofs` proves, for any queue depth, interval, number of frames and
messages, over a plain stream or TLS (`ProducerAssumption`):

| Theorem | Statement |
|---|---|
| `ProducerTypeCorrect` | `Spec => []TypeOK` |
| `AccountingCorrect` | `Spec => []FramesAccounted` |
| `RequestsKept` | `Spec => []RequestNotForgotten` |
| `IntervalCorrect` | `Spec => []IntervalRespected` |
| `WindsDownCorrect` | `Spec => WindsDown`, an action property |

`RequestNotForgotten` says where an owed request is: in the force flag while the frame it was polled
for is polled or encoded, then in that frame's packet, which is a keyframe. A later frame
never answers it, and only the end of the loop drops it. Its `IInv` adds `NotBehind`: the frames since the last keyframe are never more than
the frames since the last one that was due by the interval. That is why
`IntervalRespected` holds although the loop counts frames from the start and not from the last
keyframe. The arithmetic is `NextInGroup`: `n + 1` is either a multiple of the interval, or one
more than `n` within the same group. `WindsDown` is the safety part of `StopsCompletely`: after the stream has
stopped, `StepsLeft` bounds the steps of the loop's thread, and a gateway that keeps sending
is the only one who can prolong it (the run bounds its messages).

`ViewerProofs` proves, for any sizes, queue limit and number of starts, lost
connections and decoder failures (`ViewerAssumption`):

| Theorem | Statement |
|---|---|
| `ViewerTypeCorrect` | `Spec => []TypeOK` |
| `DecodableCorrect` | `Spec => []ReadyIsDecodable` |
| `OneConnectionCorrect` | `Spec => []OneConnection` |
| `NeverSilentCorrect` | `Spec => NeverSilent`, an action property |

Its `IInv` adds `Sound`, which holds of a decoder that failed as well: a configured decoder has
a size, one that is not has none, and while the flags let a delta pass the decoder
was configured and has its references. There is one lemma for each function of the
worker, and `HandleVideo` composes them as the source composes the functions. `NeverSilent` is the
safety part of `Recovers`: a packet after which the worker still cannot decode deltas leaves a request on its
way, unless one was sent within the last 500 ms, on every branch of `handleBinaryMessage`. It
needs `OneConnection`: the socket that delivers is the one that requests go out on.

`StreamManagerProofs` proves, for any rooms, limit, grace period, sessions and failed fetches
(`ManagerAssumption`):

| Theorem | Statement |
|---|---|
| `ManagerTypeCorrect` | `Spec => []TypeOK` |
| `EarlyReleaseCorrect` | `Spec => NoEarlyRelease`, an action property |
| `TimersRunOnCorrect` | `Spec => TimersRunOn`, an action property |

Its `IInv` adds `Timely`: a timer never runs longer than its room has been seen off. It is this that
survives overlapping syncs: an answer applied late may start a timer wrongly, but at 0, and any answer that
shows the room connected clears it. `Turn` says what one turn of a loop of `syncRooms` may do, one
lemma for each branch of the source, and `InLoop` is the loop invariant. The loops are
recursive functions; that they exist (`LoopExists`) and that an invariant holds after all turns
(`LoopInvariant`) is shown by the least counterexample. `TimersRunOn` is the other direction, the step that
`ReleasedWhileSyncing` repeats: after a sync, a stream that nobody pinned of a room without
producer has a timer that this sync did not restart and that has time left, or it is
released. `LoopReaches` is its loop rule: the room's own turn does it, and turns before and after
leave the room alone.

`SettingsProofs` proves, for every configuration and size:

| Theorem | Statement |
|---|---|
| `HeaderSurvives` | `decode_frame` undoes `encode_frame` for a size that fits 16 bits; the time comes back modulo 2^32 |
| `PolicyWithin` | an accepted configuration gives a queue, an interval, a frame rate and a timeout that are not 0, and a quality and a speed in range |
| `QuantizersApart` | the quantizers stay in 0..36 and 37..56 |
| `QualityRefines` | a higher quality never has a coarser quantizer |

`ShareProofs` proves, for any processes, configurations, display and number of packets
(`ShareAssumption`, `RoomInfoAssumption`, `PolicyAssumption`):

| Theorem | Statement |
|---|---|
| `ShareTypeCorrect` | `Spec => []ShareTypeOK` |
| `AnswerCorrect` | `Spec => []AnswerIsCurrent` |
| `ListedCorrect` | `Spec => []ListedSizeIsSent` |
| `BuffersCorrect` | `Spec => []BuffersCover` |
| `StaleCorrect` | `Spec => StaleMeansSilent`, an action property |

Its `IInv` says what the room looks like in the middle of a step of the mutex's holder:
`Holder` (what is still to be stored is the newest producer's, and no counter goes
back), `Sizes` (a size in the room is the newest producer's unless its connect has yet to
reset it), `Processes` (a generation has one producer), `Generations` (the time kept is the
connected producer's), and `Call` and `LoadedOK` for the call in progress. `ListedCorrect`
needs `shard`: during a list the newest generation stays what it was when the call looked. `BuffersCorrect`
rests on no interleaving: it follows from `ShareTypeOK` and `PlanesInside`, arithmetic
with rounding up and down at odd sizes.

In these modules the bound on a counter (`MaxGeneration`, `MaxRequests`, `MaxFrames` and the like) is an
arbitrary natural number, so the theorems hold for executions of any length.

Every invariant and action property and both refinements of the runs have a theorem.
Model-checked only is liveness (`IdleRoomEnds`, `ReadersKeepUp`, `CommandsArrive`, `ReplacedEnds`,
`StopsCompletely`, `RequestsAnswered`, `Recovers`, `ReleasedWhileSyncing`), since TLAPS does not
do fairness and ENABLED. Each has a proved part that it rests on: `IdleRoomHasCleaner`,
`IdleIsUpToDate`, `NeverStuck`, `ReplacedShrinks`, `WindsDown`, `RequestNotForgotten`, `NeverSilent` and
`TimersRunOn`, in the same order. Induction over data is done by hand: the library's induction
theorems take an operator as a parameter, which the installed provers cannot instantiate, but
`WFMin`, applied to the set of counterexamples, takes none.

## 6. What is not modelled, and why

* Wording, logging and the metrics other than the lag counters, the counters in
  `RoomInfo` and the producer's frame accounting: no property depends on them. `bytes_received`
  and `last_timestamp_ms` are stored and loaded like their neighbours.
* The detail answer of one room promises less than the list: it may pair `active` with a later
  producer's size, a width and a height of two producers, and, since
  `packets_received` is loaded first, more keyframes than packets. No document says
  otherwise, so no property does.
* A capture that does not start: `run_producer` connects first, so it has replaced the
  room's producer already when `Capturer::new` fails (`Connect`, then `Leave`).
* The `f32` rounding of the bitrate and the percent-encoding of the token in the URL (the producer does not
  encode it): `Scaled` rounds the exact quotient, and a token is compared as a whole.
* The foreign-function declarations, build script, argument parsing, routing and static
  files: no state after start-up and no branch a property could be about.
* The monitor grid: layout and dragging in one DOM, without concurrency.
* More than one room id in the gateway: ids share no state beyond the shard lock.
* The memory model: the watcher count and the cached keyframe are single atomics with
  orderings strong enough for each access to be a step; the mutex covers the rest. The two
  lag counters are relaxed atomics, modelled as added to in program order. `LagCounted` does not
  depend on that order: a frame counted before its event only puts the events further behind.
* libvpx, libyuv, the display stream, the browser's decoder and sockets: modelled from how
  the code uses them, or left out where they have no state the properties see.
* A peer that hangs for ever: no timeout in the gateway ends such a connection, so there is
  no progress to state about it (two of the hazards).

## 7. Plan

Done, in this order: `RoomDirectory` and `RoomRegistry` with their proofs, since every
other part lives in a room; `RoomRelay`; `ProducerSocket`; `Producer`; `Viewer`;
`StreamManager`; `ProducerSocketProofs`; `RoomRelayProofs`; the pure parts (`WireFrame`,
`ProducerPolicy`, `Vp8Encoder`) and `RoomInfo`, composed as `Share`; `SettingsProofs`, `ShareProofs`,
`ProducerProofs`, `ViewerProofs`; `SentInOrder` in `RoomRelayProofs`; `CommandPath` and its
refinement; `LagCounted` and `StreamManagerProofs`; the safety parts of liveness.

Left, in the order of what each would add:

1. `Playback`: `RoomRelay` and `Viewer`'s decoding side composed, taking over the run
   `relay_live`. What a late joiner and a lagging
   viewer decode: which packets miss a reference, until which keyframe.
2. `KeyframeRecovery`: request → `ProducerSocket` → `Producer` → `RoomRelay` → viewer, end
   to end; discharges the assumption of `Viewer`'s fairness.
3. `Retention`: `StreamManager`'s releases composed with `RoomRegistry`.
4. `ViewerTelemetry`: delay estimate, recovery time, timestamp wrap.
5. `calcGrid` against a reference definition.
6. Proofs: an abstract specification of the relay for one watcher (a reliable channel that
   may skip) implemented by `RoomRelay`.
