------------------------------- MODULE RoomInfo -------------------------------
(***************************************************************************)
(* What the HTTP API reports of one Room (crates/gateway/src/room.rs,      *)
(* api.rs): the producer state behind the room's mutex, the atomics beside *)
(* it, and one call of Room::info, made for GET /api/rooms/{id} (`detail') *)
(* or, under the map's shard lock, for GET /api/rooms (`list').  The       *)
(* holder of the mutex makes its stores one at a time; info takes the      *)
(* mutex for the producer state only and loads the atomics without it.     *)
(* RoomRegistry has the watcher count, RoomRelay the lag counters and the  *)
(* cached keyframe; bytes_received is written and read like                *)
(* packets_received, last_timestamp_ms like the size.                      *)
(***************************************************************************)
EXTENDS WireFrame

CONSTANTS
  NoFrame,             \* None: no frame yet
  ActiveFrameWindow    \* ACTIVE_FRAME_WINDOW_MS

ASSUME RoomInfoAssumption == NoFrame \notin Nat /\ ActiveFrameWindow \in Nat

VARIABLES
  nextGeneration, connectedGeneration, lastFrame,    \* ProducerState; 0: no room yet
  held,        \* the stores that the mutex's holder has still to make
  shard,       \* who holds the map's shard: "none", "connect", "list"
  room,        \* the atomics
  elapsed,     \* created_at.elapsed()
  caller,      \* the call in progress: "none", "detail", "list"
  readAt,      \* its elapsed_ms
  seen,        \* what it read under the mutex
  loaded,      \* what it loaded since, in LoadOrder
  publisher,   \* history: the generation whose frame lastFrame is about
  since,       \* history: next_generation when the call held the mutex
  before       \* history: the counters when the call began

stateVars == <<nextGeneration, connectedGeneration, lastFrame, publisher>>
callVars == <<caller, readAt, seen, loaded, since, before>>
roomVars == <<stateVars, held, shard, room, elapsed, callVars>>

Counters == {"packets_received", "keyframes_received"}
Fields == Counters \cup {"width", "height"}
LoadOrder == <<"width", "height", "packets_received", "keyframes_received">>

Store(field, value) == [field |-> field, value |-> value]
LastFrameStore == Store("last_frame_elapsed_ms", 0)   \* its value is the time of the store

Seen == [connected : BOOLEAN, age : Nat \cup {NoFrame}, fresh : BOOLEAN]
NotSeen == [connected |-> FALSE, age |-> NoFrame, fresh |-> FALSE]

NoCounters == [f \in Counters |-> 0]

RoomTypeOK ==
  /\ nextGeneration \in Nat /\ connectedGeneration \in 0..nextGeneration
  /\ lastFrame \in Nat \cup {NoFrame}
  /\ held \in Seq([field : Fields \cup {"last_frame_elapsed_ms"}, value : Nat])
  /\ shard \in {"none", "connect", "list"}
  /\ room \in [Fields -> Nat]
  /\ elapsed \in Nat /\ readAt \in 0..elapsed
  /\ caller \in {"none", "detail", "list"}
  /\ seen \in Seen
  /\ loaded \in Seq(Nat) /\ Len(loaded) <= Len(LoadOrder)
  /\ publisher \in 0..nextGeneration /\ since \in 0..nextGeneration
  /\ before \in [Counters -> Nat]

RoomInit ==
  /\ nextGeneration = 0 /\ connectedGeneration = 0
  /\ lastFrame = NoFrame /\ publisher = 0
  /\ held = << >>
  /\ shard = "none"
  /\ room = [f \in Fields |-> 0]
  /\ elapsed = 0
  /\ caller = "none" /\ readAt = 0 /\ seen = NotSeen /\ loaded = << >>
  /\ since = 0 /\ before = NoCounters

Unlocked == held = << >>

-----------------------------------------------------------------------------
(* The holders of the mutex *)

(* Entry::Vacant *)
CreateRoom ==
  /\ nextGeneration = 0
  /\ nextGeneration' = 1
  /\ connectedGeneration' = 1
  /\ UNCHANGED <<lastFrame, publisher, held, shard, room, elapsed, callVars>>

(* Mutant of ConnectStores: the width of the last producer stays. *)
ConnectStoresHeight == << Store("height", 0) >>

ConnectStores == << Store("width", 0), Store("height", 0) >>

(* Entry::Occupied: the shard is locked until the room's mutex is released. *)
ConnectProducer ==
  /\ nextGeneration > 0
  /\ shard = "none" /\ Unlocked
  /\ nextGeneration' = nextGeneration + 1
  /\ connectedGeneration' = nextGeneration'
  /\ lastFrame' = NoFrame /\ publisher' = 0
  /\ held' = ConnectStores
  /\ shard' = "connect"
  /\ UNCHANGED <<room, elapsed, callVars>>

PublishStores(header) ==
  << Store("packets_received", room["packets_received"] + 1), LastFrameStore >>
  \o (IF header.width > 0 /\ header.height > 0
      THEN << Store("width", header.width), Store("height", header.height) >> ELSE << >>)
  \o (IF header.frame_type = FRAME_KEYFRAME
      THEN << Store("keyframes_received", room["keyframes_received"] + 1) >> ELSE << >>)

PublishFrame(generation, header) ==
  /\ Unlocked
  /\ held' = IF connectedGeneration = generation THEN PublishStores(header) ELSE << >>
  /\ UNCHANGED <<stateVars, shard, room, elapsed, callVars>>

(* handle_frame: a malformed message is dropped. *)
HandleFrame(generation, message) ==
  IF Malformed(message) THEN UNCHANGED roomVars
  ELSE PublishFrame(generation, DecodedHeader(message))

MarkDisconnected(generation) ==
  /\ Unlocked
  /\ connectedGeneration' = IF connectedGeneration = generation THEN 0 ELSE connectedGeneration
  /\ UNCHANGED <<nextGeneration, lastFrame, publisher, held, shard, room, elapsed, callVars>>

(* The holder's next store; the last one releases the mutex and the shard. *)
StoreNext ==
  /\ ~Unlocked
  /\ held' = Tail(held)
  /\ shard' = IF shard = "connect" /\ Len(held) = 1 THEN "none" ELSE shard
  /\ IF Head(held).field = "last_frame_elapsed_ms"
     THEN lastFrame' = elapsed /\ publisher' = connectedGeneration /\ UNCHANGED room
     ELSE /\ room' = [room EXCEPT ![Head(held).field] = Head(held).value]
          /\ UNCHANGED <<lastFrame, publisher>>
  /\ UNCHANGED <<nextGeneration, connectedGeneration, elapsed, callVars>>

Tick ==
  /\ nextGeneration > 0
  /\ elapsed' = elapsed + 1
  /\ UNCHANGED <<stateVars, held, shard, room, callVars>>

-----------------------------------------------------------------------------
(* Room::info *)

(* Mutant of ShardFor: list_rooms collects the rooms before it asks them. *)
NoShardFor(kind) == "none"

(* list_rooms calls info while it iterates over the map; get_room copies the
   Arc and lets go. *)
ShardFor(kind) == IF kind = "list" THEN "list" ELSE "none"

CallInfo(kind) ==
  /\ nextGeneration > 0
  /\ caller = "none"
  /\ shard = "none"
  /\ caller' = kind
  /\ shard' = ShardFor(kind)
  /\ readAt' = elapsed
  /\ before' = [f \in Counters |-> room[f]]
  /\ UNCHANGED <<stateVars, held, room, elapsed, seen, loaded, since>>

(* Mutant of Age: the subtraction wraps around. *)
AgeWrapping(now) ==
  IF lastFrame = NoFrame THEN NoFrame
  ELSE IF lastFrame > now THEN 2000000000 - (lastFrame - now) ELSE now - lastFrame

(* last_frame_age_ms: a frame after elapsed_ms was read has age 0. *)
Age(now) ==
  IF lastFrame = NoFrame THEN NoFrame
  ELSE IF lastFrame > now THEN 0 ELSE now - lastFrame

Fresh(age) == age = NoFrame \/ age <= ActiveFrameWindow

(* `since' is 0 until the call has held the mutex. *)
ReadProducerState ==
  /\ caller # "none" /\ since = 0
  /\ Unlocked
  /\ seen' = [connected |-> connectedGeneration # 0,
              age |-> Age(readAt), fresh |-> Fresh(Age(readAt))]
  /\ since' = nextGeneration
  /\ UNCHANGED <<stateVars, held, shard, room, elapsed, caller, readAt, loaded, before>>

LoadNext ==
  /\ since > 0
  /\ Len(loaded) < Len(LoadOrder)
  /\ loaded' = Append(loaded, room[LoadOrder[Len(loaded) + 1]])
  /\ UNCHANGED <<stateVars, held, shard, room, elapsed, caller, readAt, seen, since, before>>

Answer ==
  /\ Len(loaded) = Len(LoadOrder)
  /\ caller' = "none"
  /\ shard' = IF shard = "list" THEN "none" ELSE shard
  /\ readAt' = 0 /\ seen' = NotSeen /\ loaded' = << >> /\ since' = 0 /\ before' = NoCounters
  /\ UNCHANGED <<stateVars, held, room, elapsed>>

Info == (\E kind \in {"detail", "list"} : CallInfo(kind)) \/ ReadProducerState \/ LoadNext \/ Answer
=============================================================================
