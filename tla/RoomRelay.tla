----------------------------- MODULE RoomRelay ------------------------------
(***************************************************************************)
(* How one Room relays frames: publish_frame and the cached keyframe       *)
(* (crates/gateway/src/room.rs), the broadcast channel, and for every      *)
(* watcher the tasks forward_frames and run_watcher_socket (watch.rs).     *)
(*                                                                         *)
(* A frame is identified by its position in `frames', the order in which   *)
(* publish_frame accepted it.  A producer connection may outlive its       *)
(* replacement and keep sending.                                           *)
(*                                                                         *)
(* Atomicity.  connect_producer, mark_producer_disconnected and            *)
(* publish_frame hold the room's mutex; but watchers read the cached       *)
(* keyframe and the channel without it, so publish_frame is two steps, the *)
(* cache (Accept) and tx.send (Broadcast), between which `publishing'      *)
(* holds the mutex.  subscribe and get_keyframe are two steps as well.     *)
(* record_watcher_lag is two unlocked fetch_adds: the event is counted     *)
(* with the receiver's error (Lagged), since only the forwarding task      *)
(* itself sees its receiver, the frames in a step of their own             *)
(* (CountSkipped).  Room::info may read both counters in between.          *)
(***************************************************************************)
EXTENDS Integers, Sequences, FiniteSets, Functions

CONSTANTS
  Connections,    \* producer connections made to this Room, one after another
  Watchers,       \* watcher connections
  Reading,        \* the watchers whose peer keeps reading its socket
  NoConnection,   \* the mutex is free
  BroadcastSize,  \* capacity of the broadcast channel: 256
  OutboundSize,   \* capacity of a watcher's outbound queue: 256
  MaxFrames       \* bound: frames accepted

ASSUME RelayAssumption ==
  /\ Reading \subseteq Watchers
  /\ NoConnection \notin Connections
  /\ BroadcastSize \in Nat \ {0}
  /\ OutboundSize \in Nat \ {0}
  /\ MaxFrames \in Nat

ASSUME WatchersAssumption == IsFiniteSet(Watchers)

VARIABLES
  nextGeneration, connectedGeneration,  \* ProducerState
  cState, cGeneration,   \* producer connection: phase and generation
  publishing,            \* the connection between Accept and Broadcast
  frames,                \* accepted frames: generation and whether a keyframe
  sent,                  \* how many of them tx.send has passed on
  keyframe,              \* the cached keyframe, 0 if none
  wState,                \* watcher: phase
  wCursor,               \* its broadcast receiver: frames received or skipped
  wPending,              \* the frame forward_frames is sending on, 0 if none
  wOut,                  \* its outbound queue
  lagEvents, laggedFrames,            \* the room's lag counters
  wUncounted,            \* frames skipped that forward_frames has yet to count
  wJoin, wCached, wGeneration, wLost, wGot  \* history, see below

(***************************************************************************)
(* History of a watcher: where it subscribed, the cached keyframe it       *)
(* loaded and the newest generation at that time, how much its receiver    *)
(* skipped, and what was sent to its peer.                                 *)
(***************************************************************************)
history == <<wJoin, wCached, wGeneration, wLost, wGot>>
producerVars == <<nextGeneration, connectedGeneration, cState, cGeneration>>
streamVars == <<frames, sent, keyframe, publishing>>
lagVars == <<lagEvents, laggedFrames, wUncounted>>
watcherVars == <<wState, wCursor, wPending, wOut, lagVars, history>>
vars == <<producerVars, streamVars, watcherVars>>

Frame == [generation : Nat, key : BOOLEAN]

(***************************************************************************)
(* "subscribed": tx.subscribe done, keyframe not loaded yet; "forwarding": *)
(* in the send of the cached keyframe or the loop; "gone": both tasks      *)
(* ended.                                                                  *)
(***************************************************************************)
WatcherState == {"off", "subscribed", "forwarding", "gone"}

TypeOK ==
  /\ nextGeneration \in Nat
  /\ connectedGeneration \in Nat
  /\ cState \in [Connections -> {"idle", "connected", "gone"}]
  /\ cGeneration \in [Connections -> Nat]
  /\ publishing \in Connections \cup {NoConnection}
  /\ frames \in Seq(Frame)
  /\ sent \in 0..Len(frames)
  /\ keyframe \in 0..Len(frames)
  /\ wState \in [Watchers -> WatcherState]
  /\ wCursor \in [Watchers -> Nat]
  /\ wPending \in [Watchers -> Nat]
  /\ wOut \in [Watchers -> Seq(Nat)]
  /\ \A w \in Watchers : wCursor[w] <= sent /\ Len(wOut[w]) <= OutboundSize
  /\ lagEvents \in Nat
  /\ laggedFrames \in Nat
  /\ wUncounted \in [Watchers -> Nat]
  /\ wJoin \in [Watchers -> Nat]
  /\ wCached \in [Watchers -> Nat]
  /\ wGeneration \in [Watchers -> Nat]
  /\ wLost \in [Watchers -> Nat]
  /\ wGot \in [Watchers -> Seq(Nat)]

Init ==
  /\ nextGeneration = 0
  /\ connectedGeneration = 0
  /\ cState = [c \in Connections |-> "idle"]
  /\ cGeneration = [c \in Connections |-> 0]
  /\ publishing = NoConnection
  /\ frames = << >>
  /\ sent = 0
  /\ keyframe = 0
  /\ wState = [w \in Watchers |-> "off"]
  /\ wCursor = [w \in Watchers |-> 0]
  /\ wPending = [w \in Watchers |-> 0]
  /\ wOut = [w \in Watchers |-> << >>]
  /\ lagEvents = 0
  /\ laggedFrames = 0
  /\ wUncounted = [w \in Watchers |-> 0]
  /\ wJoin = [w \in Watchers |-> 0]
  /\ wCached = [w \in Watchers |-> 0]
  /\ wGeneration = [w \in Watchers |-> 0]
  /\ wLost = [w \in Watchers |-> 0]
  /\ wGot = [w \in Watchers |-> << >>]

-----------------------------------------------------------------------------
(* Producer connections *)

(* Mutant of ConnectProducer: the cache survives a change of producer. *)
ConnectProducerKeepingCache(c) ==
  /\ publishing = NoConnection
  /\ cState[c] = "idle"
  /\ nextGeneration' = nextGeneration + 1
  /\ connectedGeneration' = nextGeneration'
  /\ cState' = [cState EXCEPT ![c] = "connected"]
  /\ cGeneration' = [cGeneration EXCEPT ![c] = nextGeneration']
  /\ UNCHANGED <<streamVars, watcherVars>>

(* The Room's first connection allocates it; the state is the same. *)
ConnectProducer(c) ==
  /\ publishing = NoConnection
  /\ cState[c] = "idle"
  /\ nextGeneration' = nextGeneration + 1
  /\ connectedGeneration' = nextGeneration'
  /\ keyframe' = 0
  /\ cState' = [cState EXCEPT ![c] = "connected"]
  /\ cGeneration' = [cGeneration EXCEPT ![c] = nextGeneration']
  /\ UNCHANGED <<frames, sent, publishing, watcherVars>>

MarkProducerDisconnected(c) ==
  /\ publishing = NoConnection
  /\ cState[c] = "connected"
  /\ cState' = [cState EXCEPT ![c] = "gone"]
  /\ connectedGeneration' =
       IF connectedGeneration = cGeneration[c] THEN 0 ELSE connectedGeneration
  /\ UNCHANGED <<nextGeneration, cGeneration, streamVars, watcherVars>>

(* Mutant of Accepted: a frame of any connection while one is connected. *)
AcceptedWhileActive(c) == connectedGeneration # 0

(* publish_frame's check; a stale producer's frame is dropped. *)
Accepted(c) == connectedGeneration = cGeneration[c]

(* publish_frame up to tx.send; the mutex stays held. *)
Accept(c, key) ==
  /\ publishing = NoConnection
  /\ cState[c] = "connected"
  /\ Accepted(c)
  /\ Len(frames) < MaxFrames
  /\ frames' = Append(frames, [generation |-> cGeneration[c], key |-> key])
  /\ keyframe' = IF key THEN Len(frames') ELSE keyframe
  /\ publishing' = c
  /\ UNCHANGED <<sent, producerVars, watcherVars>>

Broadcast(c) ==
  /\ publishing = c
  /\ sent' = Len(frames)
  /\ publishing' = NoConnection
  /\ UNCHANGED <<frames, keyframe, producerVars, watcherVars>>

-----------------------------------------------------------------------------
(* A watcher *)

(* A Room is watched only once a producer made it. *)
Subscribe(w) ==
  /\ wState[w] = "off"
  /\ nextGeneration # 0
  /\ wState' = [wState EXCEPT ![w] = "subscribed"]
  /\ wCursor' = [wCursor EXCEPT ![w] = sent]
  /\ wJoin' = [wJoin EXCEPT ![w] = sent]
  /\ UNCHANGED <<producerVars, streamVars, wPending, wOut, lagVars,
                 wCached, wGeneration, wLost, wGot>>

(* Mutant of LoadKeyframe: the cache was read before this step subscribes. *)
LoadBeforeSubscribe(w) ==
  /\ wState[w] = "subscribed"
  /\ LET old == {i \in 1..wJoin[w] : frames[i].key /\ frames[i].generation = nextGeneration}
         cached == IF old = {} THEN 0 ELSE CHOOSE i \in old : \A j \in old : j <= i
     IN /\ wPending' = [wPending EXCEPT ![w] = cached]
        /\ wCached' = [wCached EXCEPT ![w] = cached]
  /\ wState' = [wState EXCEPT ![w] = "forwarding"]
  /\ wCursor' = [wCursor EXCEPT ![w] = sent]
  /\ wJoin' = [wJoin EXCEPT ![w] = sent]
  /\ wGeneration' = [wGeneration EXCEPT ![w] = nextGeneration]
  /\ UNCHANGED <<producerVars, streamVars, wOut, lagVars, wLost, wGot>>

LoadKeyframe(w) ==
  /\ wState[w] = "subscribed"
  /\ wState' = [wState EXCEPT ![w] = "forwarding"]
  /\ wPending' = [wPending EXCEPT ![w] = keyframe]
  /\ wCached' = [wCached EXCEPT ![w] = keyframe]
  /\ wGeneration' = [wGeneration EXCEPT ![w] = nextGeneration]
  /\ UNCHANGED <<producerVars, streamVars, wCursor, wOut, lagVars,
                 wJoin, wLost, wGot>>

(* forward_frames is at frames.recv(), with something to receive. *)
Receiving(w) ==
  /\ wState[w] = "forwarding"
  /\ wPending[w] = 0
  /\ wUncounted[w] = 0
  /\ wCursor[w] < sent

Overwritten(w) == sent - wCursor[w] > BroadcastSize

(* The channel's ring still holds the frames after this one. *)
Oldest == sent - BroadcastSize

Receive(w) ==
  /\ Receiving(w)
  /\ ~Overwritten(w)
  /\ wCursor' = [wCursor EXCEPT ![w] = @ + 1]
  /\ wPending' = [wPending EXCEPT ![w] = wCursor[w] + 1]
  /\ UNCHANGED <<producerVars, streamVars, wState, wOut, lagVars, history>>

(* RecvError::Lagged(n): the receiver jumps to the oldest frame kept, and
   the event is counted. *)
Lagged(w) ==
  /\ Receiving(w)
  /\ Overwritten(w)
  /\ LET n == Oldest - wCursor[w] IN
       /\ wCursor' = [wCursor EXCEPT ![w] = Oldest]
       /\ wUncounted' = [wUncounted EXCEPT ![w] = n]
       /\ wLost' = [wLost EXCEPT ![w] = @ + n]
  /\ lagEvents' = lagEvents + 1
  /\ UNCHANGED <<producerVars, streamVars, wState, wPending, wOut, laggedFrames,
                 wJoin, wCached, wGeneration, wGot>>

(* Mutant of CountSkipped: frames counted like events. *)
CountOne(w) ==
  /\ wUncounted[w] # 0
  /\ laggedFrames' = laggedFrames + 1
  /\ wUncounted' = [wUncounted EXCEPT ![w] = 0]
  /\ UNCHANGED <<producerVars, streamVars, wState, wCursor, wPending, wOut, lagEvents, history>>

(* The second fetch_add of record_watcher_lag.  There is no await before it, so
   the task gets here even when its watcher has left and it is aborted. *)
CountSkipped(w) ==
  /\ wUncounted[w] # 0
  /\ laggedFrames' = laggedFrames + wUncounted[w]
  /\ wUncounted' = [wUncounted EXCEPT ![w] = 0]
  /\ UNCHANGED <<producerVars, streamVars, wState, wCursor, wPending, wOut, lagEvents, history>>

(* Mutant of Enqueue: an unbounded queue. *)
EnqueueUnbounded(w) ==
  /\ wState[w] = "forwarding"
  /\ wPending[w] # 0
  /\ wOut' = [wOut EXCEPT ![w] = Append(@, wPending[w])]
  /\ wPending' = [wPending EXCEPT ![w] = 0]
  /\ UNCHANGED <<producerVars, streamVars, wState, wCursor, lagVars, history>>

(* Mutant of Enqueue: a full queue drops the frame instead of waiting. *)
EnqueueOrDrop(w) ==
  /\ wState[w] = "forwarding"
  /\ wPending[w] # 0
  /\ wOut' = IF Len(wOut[w]) < OutboundSize
             THEN [wOut EXCEPT ![w] = Append(@, wPending[w])] ELSE wOut
  /\ wPending' = [wPending EXCEPT ![w] = 0]
  /\ UNCHANGED <<producerVars, streamVars, wState, wCursor, lagVars, history>>

(* outbound_tx.send(..).await completes: the queue has room. *)
Enqueue(w) ==
  /\ wState[w] = "forwarding"
  /\ wPending[w] # 0
  /\ Len(wOut[w]) < OutboundSize
  /\ wOut' = [wOut EXCEPT ![w] = Append(@, wPending[w])]
  /\ wPending' = [wPending EXCEPT ![w] = 0]
  /\ UNCHANGED <<producerVars, streamVars, wState, wCursor, lagVars, history>>

(* run_watcher_socket: socket.send(..).await completes. *)
Send(w) ==
  /\ wState[w] \in {"subscribed", "forwarding"}
  /\ wOut[w] # << >>
  /\ wOut' = [wOut EXCEPT ![w] = Tail(@)]
  /\ wGot' = [wGot EXCEPT ![w] = Append(@, Head(wOut[w]))]
  /\ UNCHANGED <<producerVars, streamVars, wState, wCursor, wPending, lagVars,
                 wJoin, wCached, wGeneration, wLost>>

(* The socket closes or fails; both tasks end, the queue and the receiver are
   dropped, and of the history only what the room counted is kept. *)
Leave(w) ==
  /\ wState[w] \in {"subscribed", "forwarding"}
  /\ wState' = [wState EXCEPT ![w] = "gone"]
  /\ wCursor' = [wCursor EXCEPT ![w] = 0]
  /\ wPending' = [wPending EXCEPT ![w] = 0]
  /\ wOut' = [wOut EXCEPT ![w] = << >>]
  /\ wJoin' = [wJoin EXCEPT ![w] = 0]
  /\ wCached' = [wCached EXCEPT ![w] = 0]
  /\ wGeneration' = [wGeneration EXCEPT ![w] = 0]
  /\ wGot' = [wGot EXCEPT ![w] = << >>]
  /\ UNCHANGED <<producerVars, streamVars, lagVars, wLost>>

-----------------------------------------------------------------------------
Next ==
  \/ \E c \in Connections :
       \/ ConnectProducer(c) \/ MarkProducerDisconnected(c)
       \/ \E key \in BOOLEAN : Accept(c, key)
       \/ Broadcast(c)
  \/ \E w \in Watchers :
       \/ Subscribe(w) \/ LoadKeyframe(w) \/ Receive(w) \/ Lagged(w) \/ CountSkipped(w)
       \/ Enqueue(w) \/ Send(w) \/ Leave(w)

(* The forwarding task of a watcher: one of these at a time is enabled. *)
ForwardFrames(w) ==
  LoadKeyframe(w) \/ Receive(w) \/ Lagged(w) \/ CountSkipped(w) \/ Enqueue(w)

(***************************************************************************)
(* The gateway's tasks run on, and a send to a reading peer completes.     *)
(* Nothing obliges a producer to send, a watcher to come or to leave, or a *)
(* peer outside Reading to read.                                           *)
(***************************************************************************)
Fairness ==
  /\ \A c \in Connections : WF_vars(Broadcast(c))
  /\ \A w \in Watchers : WF_vars(ForwardFrames(w))
  /\ \A w \in Reading : WF_vars(Send(w))

Spec == Init /\ [][Next]_vars
FairSpec == Spec /\ Fairness

-----------------------------------------------------------------------------
(* Safety *)

(***************************************************************************)
(* A replaced producer is fenced off: once a frame of a newer connection   *)
(* is accepted, none of an older one is, however long the older one's      *)
(* socket lives on and whoever disconnects in between.                     *)
(***************************************************************************)
FencedGenerations ==
  \A i, j \in 1..Len(frames) : i <= j => frames[i].generation <= frames[j].generation

(* The accepted keyframes of generation g up to position n. *)
Keyframes(g, n) == {i \in 1..n : i <= Len(frames) /\ frames[i].key /\ frames[i].generation = g}

(***************************************************************************)
(* The cache holds the newest keyframe of the newest connection, or        *)
(* nothing: a joining watcher never starts with a picture of a stream that *)
(* was replaced (reconnect_resets_frame_freshness_and_cached_keyframe).    *)
(***************************************************************************)
CacheIsNewestKeyframe ==
  LET keys == Keyframes(nextGeneration, Len(frames)) IN
    /\ keys = {} => keyframe = 0
    /\ keys # {} => keyframe \in keys /\ \A i \in keys : i <= keyframe

(***************************************************************************)
(* No keyframe falls between the cache and the channel: every keyframe of  *)
(* the connection that was newest when the watcher looked into the cache   *)
(* and that the channel had already passed on when it subscribed is no     *)
(* newer than the one it was given.  This needs both orders: store before  *)
(* send in publish_frame, subscribe before load in handle_socket.          *)
(***************************************************************************)
JoinMissesNoKeyframe ==
  \A w \in Watchers :
    \A i \in Keyframes(wGeneration[w], wJoin[w]) : i <= wCached[w]

(* What left the channel for w and is on its way to the peer, or there. *)
Taken(w) ==
  wGot[w] \o wOut[w] \o (IF wPending[w] = 0 THEN << >> ELSE <<wPending[w]>>)

(* Of these, what did not come from the cache. *)
Received(w) == IF wCached[w] = 0 THEN Taken(w) ELSE Tail(Taken(w))

(***************************************************************************)
(* From its subscription on, a watcher is sent every frame once and in     *)
(* order, except those its receiver skipped; wLost tells how many.  No     *)
(* frame is lost or repeated between the channel, forward_frames, the      *)
(* outbound queue and the socket.                                          *)
(***************************************************************************)
SentInOrder ==
  \A w \in Watchers : wState[w] = "forwarding" =>
    LET s == Received(w) IN
      /\ wCached[w] # 0 => Head(Taken(w)) = wCached[w]
      /\ \A i \in 1..Len(s) : s[i] \in wJoin[w] + 1 .. wCursor[w]
      /\ \A i, j \in 1..Len(s) : i < j => s[i] < s[j]
      /\ Len(s) + wLost[w] = wCursor[w] - wJoin[w]

(* The watchers whose forwarding task is between the two fetch_adds. *)
Counting == {w \in Watchers : wUncounted[w] # 0}

(***************************************************************************)
(* Whenever Room::info reads them, the lag counters are short only of what *)
(* tasks inside record_watcher_lag are about to add.                       *)
(* watcher_lagged_frames and their skipped frames add up to all frames any *)
(* receiver skipped, those of departed watchers included, and one that     *)
(* leaves while its task is counting loses none; and watcher_lag_events is *)
(* ahead of watcher_lagged_frames by at most one per such task.            *)
(***************************************************************************)
LagCounted ==
  /\ laggedFrames + SumFunction(wUncounted) = SumFunction(wLost)
  /\ lagEvents <= laggedFrames + Cardinality(Counting)

-----------------------------------------------------------------------------
(* Liveness *)

Concerns(w, i) == wState[w] = "forwarding" /\ i \in wJoin[w] + 1 .. Len(frames)
Settled(w, i) ==
  \/ wState[w] = "gone"
  \/ \E j \in 1..Len(wGot[w]) : wGot[w][j] >= i /\ (wCached[w] # 0 => j > 1)

CaughtUp(w) == \A i \in 1..MaxFrames : Concerns(w, i) => Settled(w, i)

(***************************************************************************)
(* A reading watcher catches up again and again, and so a frame accepted   *)
(* after it joined is sent to it in the end, unless it leaves or the frame *)
(* is skipped, and then a later one is: no stalled peer or departure of    *)
(* somebody else holds the stream up.  (Concerns and Settled, once true    *)
(* of a frame, stay true until the watcher leaves, and there are at most   *)
(* MaxFrames: this is Concerns(w, i) ~> Settled(w, i) for every frame i.)  *)
(***************************************************************************)
ReadersKeepUp == \A w \in Reading : []<>CaughtUp(w)
=============================================================================
