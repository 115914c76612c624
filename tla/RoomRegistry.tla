---------------------------- MODULE RoomRegistry ----------------------------
(***************************************************************************)
(* The gateway's room registry (crates/gateway/src/room.rs: Rooms and the  *)
(* producer/watcher bookkeeping of Room), driven by the life of producer   *)
(* connections (ingest.rs: handle_socket) and of watcher connections       *)
(* (watch.rs: handle_watch, handle_socket, release_watcher).               *)
(*                                                                         *)
(* One room id is modelled: DashMap entries of different ids share no      *)
(* state.  `inner' is the entry of that id.  A Room is a heap object, and  *)
(* a freed address may be handed out again, so the members of `Room' are   *)
(* addresses; Arc::ptr_eq is equality of addresses.                        *)
(*                                                                         *)
(* Atomicity.  Rooms' methods hold the shard lock of the id: the entry API *)
(* and remove_if for writing, get for reading.  connect_producer, publish  *)
(* and disconnect hold the room's mutex.  Everything else interleaves, so  *)
(* each lock-free or separately locked access of release_watcher is a step *)
(* of its own.  Within remove_if the mutex and the watcher count are read  *)
(* one after the other, but under the shard lock a connected producer can  *)
(* only disconnect and the count can only fall, so the step takes effect   *)
(* where it reads the count.                                               *)
(***************************************************************************)
EXTENDS Naturals, FiniteSets

CONSTANTS
  Producers,      \* producer connections
  Watchers,       \* watcher connections
  Room,           \* addresses a Room can be allocated at
  NoRoom,         \* the vacant entry, or no room held
  MaxGeneration   \* bound: connections accepted by one Room object

ASSUME RegistryAssumption ==
  /\ IsFiniteSet(Watchers)
  /\ NoRoom \notin Room
  /\ MaxGeneration \in Nat

VARIABLES
  inner,                \* the DashMap entry of the id
  nextGeneration,       \* per Room: ProducerState.next_generation
  connectedGeneration,  \* per Room: ProducerState.connected_generation, 0 if none
  watchers,             \* per Room: the watcher count
  pState, pRoom, pGeneration,  \* producer connection: phase, Arc<Room>, generation
  wState, wRoom, wGeneration   \* watcher connection: phase, Arc<Room>, generation read

roomVars == <<nextGeneration, connectedGeneration, watchers>>
producerVars == <<pState, pRoom, pGeneration>>
watcherVars == <<wState, wRoom, wGeneration>>
vars == <<inner, roomVars, producerVars, watcherVars>>

ProducerState == {"idle", "connected", "retaining"}

(***************************************************************************)
(* "reserved": counted, upgrade not finished; "watching": socket open.     *)
(* The rest are the points inside release_watcher: "emptied" after the     *)
(* decrement returned 0, "dark" after no producer was seen, "expiring"     *)
(* after the generation was read.                                          *)
(***************************************************************************)
WatcherState == {"idle", "reserved", "watching", "emptied", "dark", "expiring"}

TypeOK ==
  /\ inner \in Room \cup {NoRoom}
  /\ nextGeneration \in [Room -> Nat]
  /\ connectedGeneration \in [Room -> Nat]
  /\ watchers \in [Room -> Nat]
  /\ pState \in [Producers -> ProducerState]
  /\ pRoom \in [Producers -> Room \cup {NoRoom}]
  /\ pGeneration \in [Producers -> Nat]
  /\ wState \in [Watchers -> WatcherState]
  /\ wRoom \in [Watchers -> Room \cup {NoRoom}]
  /\ wGeneration \in [Watchers -> Nat]

Init ==
  /\ inner = NoRoom
  /\ nextGeneration = [r \in Room |-> 0]
  /\ connectedGeneration = [r \in Room |-> 0]
  /\ watchers = [r \in Room |-> 0]
  /\ pState = [p \in Producers |-> "idle"]
  /\ pRoom = [p \in Producers |-> NoRoom]
  /\ pGeneration = [p \in Producers |-> 0]
  /\ wState = [w \in Watchers |-> "idle"]
  /\ wRoom = [w \in Watchers |-> NoRoom]
  /\ wGeneration = [w \in Watchers |-> 0]

-----------------------------------------------------------------------------
(* No Arc to r is left: its address may be allocated again. *)
Unreferenced(r) ==
  /\ inner # r
  /\ \A p \in Producers : pRoom[p] # r
  /\ \A w \in Watchers : wRoom[w] # r

(* Mutants of Removable: a condition of the remove_if closure dropped. *)
RemovableIgnoringWatchers(r, g) ==
  inner = r /\ connectedGeneration[r] = 0 /\ nextGeneration[r] = g
RemovableIgnoringProducer(r, g) ==
  inner = r /\ nextGeneration[r] = g /\ watchers[r] = 0
RemovableAnyRoom(r, g) ==
  /\ inner # NoRoom
  /\ connectedGeneration[r] = 0 /\ nextGeneration[r] = g /\ watchers[r] = 0

(* The closure of remove_room_if_current. *)
Removable(r, g) ==
  /\ inner = r
  /\ connectedGeneration[r] = 0
  /\ nextGeneration[r] = g
  /\ watchers[r] = 0

RemoveRoomIfCurrent(r, g) ==
  inner' = IF Removable(r, g) THEN NoRoom ELSE inner

-----------------------------------------------------------------------------
(* A producer connection *)

(* Mutant of TakeOver: the generation handed out is the one already connected. *)
TakeOverSameGeneration(p) ==
  /\ inner # NoRoom
  /\ nextGeneration[inner] < MaxGeneration
  /\ connectedGeneration' = [connectedGeneration EXCEPT ![inner] = nextGeneration[inner]]
  /\ pGeneration' = [pGeneration EXCEPT ![p] = nextGeneration[inner]]
  /\ pRoom' = [pRoom EXCEPT ![p] = inner]
  /\ UNCHANGED <<inner, nextGeneration, watchers>>

(* Occupied entry: the newcomer takes the room over. *)
TakeOver(p) ==
  /\ inner # NoRoom
  /\ nextGeneration[inner] < MaxGeneration
  /\ LET generation == nextGeneration[inner] + 1 IN
       /\ nextGeneration' = [nextGeneration EXCEPT ![inner] = generation]
       /\ connectedGeneration' = [connectedGeneration EXCEPT ![inner] = generation]
       /\ pGeneration' = [pGeneration EXCEPT ![p] = generation]
  /\ pRoom' = [pRoom EXCEPT ![p] = inner]
  /\ UNCHANGED <<inner, watchers>>

(* Vacant entry: a new Room at an unreferenced address. *)
Allocate(p) ==
  /\ inner = NoRoom
  /\ \E r \in Room :
       /\ Unreferenced(r)
       /\ inner' = r
       /\ nextGeneration' = [nextGeneration EXCEPT ![r] = 1]
       /\ connectedGeneration' = [connectedGeneration EXCEPT ![r] = 1]
       /\ watchers' = [watchers EXCEPT ![r] = 0]
       /\ pRoom' = [pRoom EXCEPT ![p] = r]
  /\ pGeneration' = [pGeneration EXCEPT ![p] = 1]

ConnectProducer(p) ==
  /\ pState[p] = "idle"
  /\ TakeOver(p) \/ Allocate(p)
  /\ pState' = [pState EXCEPT ![p] = "connected"]
  /\ UNCHANGED watcherVars

(* Mutant of MarkProducerDisconnected: no generation check. *)
MarkAnyProducerDisconnected(r, g) ==
  connectedGeneration' = [connectedGeneration EXCEPT ![r] = 0]

MarkProducerDisconnected(r, g) ==
  connectedGeneration' =
    [connectedGeneration EXCEPT ![r] = IF @ = g THEN 0 ELSE @]

(* socket_task ended, for any reason; the retention timer is spawned. *)
DisconnectProducer(p) ==
  /\ pState[p] = "connected"
  /\ MarkProducerDisconnected(pRoom[p], pGeneration[p])
  /\ pState' = [pState EXCEPT ![p] = "retaining"]
  /\ UNCHANGED <<inner, nextGeneration, watchers, pRoom, pGeneration, watcherVars>>

(* ROOM_RETENTION_AFTER_DISCONNECT has passed; the task drops its Arc. *)
RetentionExpires(p) ==
  /\ pState[p] = "retaining"
  /\ RemoveRoomIfCurrent(pRoom[p], pGeneration[p])
  /\ pState' = [pState EXCEPT ![p] = "idle"]
  /\ pRoom' = [pRoom EXCEPT ![p] = NoRoom]
  /\ pGeneration' = [pGeneration EXCEPT ![p] = 0]
  /\ UNCHANGED <<roomVars, watcherVars>>

-----------------------------------------------------------------------------
(* A watcher connection *)

Holding(w) == wState[w] \in {"reserved", "watching"}

(* Mutant of ReserveWatcher: the watcher is not counted until its upgrade. *)
ReserveUncounted(w) ==
  /\ wState[w] = "idle"
  /\ inner # NoRoom
  /\ wState' = [wState EXCEPT ![w] = "reserved"]
  /\ wRoom' = [wRoom EXCEPT ![w] = inner]
  /\ UNCHANGED <<inner, roomVars, producerVars, wGeneration>>

(* A missing room answers 404 and changes nothing. *)
ReserveWatcher(w) ==
  /\ wState[w] = "idle"
  /\ inner # NoRoom
  /\ watchers' = [watchers EXCEPT ![inner] = @ + 1]
  /\ wState' = [wState EXCEPT ![w] = "reserved"]
  /\ wRoom' = [wRoom EXCEPT ![w] = inner]
  /\ UNCHANGED <<inner, nextGeneration, connectedGeneration, producerVars, wGeneration>>

Upgrade(w) ==
  /\ wState[w] = "reserved"
  /\ wState' = [wState EXCEPT ![w] = "watching"]
  /\ UNCHANGED <<inner, roomVars, producerVars, wRoom, wGeneration>>

(* The task of w ends: its Arc is dropped. *)
WatcherGone(w) ==
  /\ wState' = [wState EXCEPT ![w] = "idle"]
  /\ wRoom' = [wRoom EXCEPT ![w] = NoRoom]
  /\ wGeneration' = [wGeneration EXCEPT ![w] = 0]

(* Mutant of DecWatchers: both tasks of a watcher release it, without a floor. *)
DecWatchersTwice(r) == watchers[r] - 2

DecWatchers(r) == IF watchers[r] = 0 THEN 0 ELSE watchers[r] - 1

(* Mutant of LastWatcher: the last leaver never looks at the room. *)
NeverLastWatcher(n) == FALSE

(* The left operand of release_watcher's `&&'. *)
LastWatcher(n) == n = 0

(* release_watcher's decrement, after a failed upgrade or a closed socket. *)
ReleaseWatcher(w) ==
  /\ Holding(w)
  /\ LET n == DecWatchers(wRoom[w]) IN
       /\ watchers' = [watchers EXCEPT ![wRoom[w]] = n]
       /\ IF LastWatcher(n)
          THEN wState' = [wState EXCEPT ![w] = "emptied"]
               /\ UNCHANGED <<wRoom, wGeneration>>
          ELSE WatcherGone(w)
  /\ UNCHANGED <<inner, nextGeneration, connectedGeneration, producerVars>>

CheckConnected(w) ==
  /\ wState[w] = "emptied"
  /\ IF connectedGeneration[wRoom[w]] # 0
     THEN WatcherGone(w)
     ELSE wState' = [wState EXCEPT ![w] = "dark"] /\ UNCHANGED <<wRoom, wGeneration>>
  /\ UNCHANGED <<inner, roomVars, producerVars>>

ReadGeneration(w) ==
  /\ wState[w] = "dark"
  /\ wGeneration' = [wGeneration EXCEPT ![w] = nextGeneration[wRoom[w]]]
  /\ wState' = [wState EXCEPT ![w] = "expiring"]
  /\ UNCHANGED <<inner, roomVars, producerVars, wRoom>>

RemoveAfterRelease(w) ==
  /\ wState[w] = "expiring"
  /\ RemoveRoomIfCurrent(wRoom[w], wGeneration[w])
  /\ WatcherGone(w)
  /\ UNCHANGED <<roomVars, producerVars>>

-----------------------------------------------------------------------------
Next ==
  \/ \E p \in Producers :
       ConnectProducer(p) \/ DisconnectProducer(p) \/ RetentionExpires(p)
  \/ \E w \in Watchers :
       \/ ReserveWatcher(w) \/ Upgrade(w) \/ ReleaseWatcher(w)
       \/ CheckConnected(w) \/ ReadGeneration(w) \/ RemoveAfterRelease(w)

(***************************************************************************)
(* A spawned timer fires and the statements of release_watcher run on; a   *)
(* client need not connect, leave, or finish an upgrade.                   *)
(***************************************************************************)
Fairness ==
  /\ \A p \in Producers : WF_vars(RetentionExpires(p))
  /\ \A w \in Watchers :
       WF_vars(CheckConnected(w) \/ ReadGeneration(w) \/ RemoveAfterRelease(w))

Spec == Init /\ [][Next]_vars
FairSpec == Spec /\ Fairness

-----------------------------------------------------------------------------
(* Safety *)

Holders(r) == {w \in Watchers : Holding(w) /\ wRoom[w] = r}

(***************************************************************************)
(* The count of a room is the number of connections that reserved it and   *)
(* have not released it: reserve_watcher's increment is undone once on     *)
(* each of the two ways out (failed upgrade, closed socket).  Then the     *)
(* floor at 0 in dec_watchers never hides a double release.                *)
(***************************************************************************)
WatcherCount == \A r \in Room : watchers[r] = Cardinality(Holders(r))

(***************************************************************************)
(* A watcher that reserved a room and has not left watches the listed one: *)
(* no room is removed under its audience, whichever timer or departing     *)
(* watcher of whichever incarnation of the id is about to remove it.  An   *)
(* orphaned watcher would never see the producer reconnect.                *)
(***************************************************************************)
NoOrphan == \A w \in Watchers : Holding(w) => inner = wRoom[w]

(* p is the producer connection whose frames r accepts. *)
CurrentProducer(p, r) ==
  /\ pState[p] = "connected"
  /\ pRoom[p] = r
  /\ pGeneration[p] = connectedGeneration[r]

(***************************************************************************)
(* A room that claims a connected producer is the listed one and has such  *)
(* a producer: `active' (README, room info) is never stale, and a producer *)
(* never publishes into a room nobody can find.                            *)
(***************************************************************************)
ActiveIsLive ==
  \A r \in Room : connectedGeneration[r] # 0 =>
    inner = r /\ \E p \in Producers : CurrentProducer(p, r)

(***************************************************************************)
(* The newest producer of a room stays its current one while it is         *)
(* connected: the late end of a connection it replaced neither silences it *)
(* nor exposes its room to removal.                                        *)
(***************************************************************************)
NewestStaysCurrent ==
  \A p \in Producers :
    pState[p] = "connected" /\ pGeneration[p] = nextGeneration[pRoom[p]] =>
      CurrentProducer(p, pRoom[p])

(***************************************************************************)
(* Two connections to one room never share a generation, those in use are  *)
(* no newer than the last one handed out, and a room is never connected to *)
(* any but the last: comparing generations tells connections apart, also   *)
(* those that outlived the room's previous incarnation.                    *)
(***************************************************************************)
DistinctGenerations ==
  \A p, q \in Producers :
    p # q /\ pState[p] # "idle" /\ pRoom[p] = pRoom[q] => pGeneration[p] # pGeneration[q]
BoundedGenerations ==
  \A p \in Producers :
    pState[p] # "idle" => pGeneration[p] \in 1..nextGeneration[pRoom[p]]
LastConnects ==
  \A r \in Room : connectedGeneration[r] \in {0, nextGeneration[r]}
GenerationsTellApart == DistinctGenerations /\ BoundedGenerations /\ LastConnects

(* p's retention timer, or w on its way out, would remove r as it is now. *)
TimerCleans(p, r) ==
  /\ pState[p] = "retaining"
  /\ pRoom[p] = r
  /\ pGeneration[p] = nextGeneration[r]
LeaverCleans(w, r) ==
  /\ wRoom[w] = r
  /\ \/ wState[w] \in {"emptied", "dark"}
     \/ wState[w] = "expiring" /\ wGeneration[w] = nextGeneration[r]

(***************************************************************************)
(* No room leaks: a listed room with neither producer nor watcher always   *)
(* has a timer or a departing watcher whose remove_room_if_current will    *)
(* match it.  Every failed removal (a producer or a watcher came back, a   *)
(* newer generation) leaves the duty with somebody else.                   *)
(***************************************************************************)
IdleRoomHasCleaner ==
  \A r \in Room :
    inner = r /\ connectedGeneration[r] = 0 /\ watchers[r] = 0 =>
      \/ \E p \in Producers : TimerCleans(p, r)
      \/ \E w \in Watchers : LeaverCleans(w, r)

(***************************************************************************)
(* README.md:137 promises that a disconnected room stays listed `briefly'  *)
(* so that a dropped stream is not lost immediately; ingest.rs makes that  *)
(* ROOM_RETENTION_AFTER_DISCONNECT.  Hence: while the timer of the last    *)
(* producer runs, the room stays listed.  release_watcher breaks it: the   *)
(* last watcher to leave removes the room at once.                         *)
(***************************************************************************)
RetentionHonoured ==
  [][\A p \in Producers : \A r \in Room :
       inner = r /\ TimerCleans(p, r) /\ TimerCleans(p, r)' => inner' = r]_vars

-----------------------------------------------------------------------------
(* Liveness *)

Idle(r) == inner = r /\ connectedGeneration[r] = 0 /\ watchers[r] = 0

(***************************************************************************)
(* A room left by everybody does not stay listed as it is: it is removed,  *)
(* or a producer or a watcher comes back.                                  *)
(***************************************************************************)
IdleRoomEnds == \A r \in Room : Idle(r) ~> ~Idle(r)

-----------------------------------------------------------------------------
(* Refinement: what the registry promises its users *)

Audience == {w \in Watchers : Holding(w)}
Live == {p \in Producers : inner # NoRoom /\ CurrentProducer(p, inner)}

Directory == INSTANCE RoomDirectory WITH listed <- (inner # NoRoom), live <- Live, audience <- Audience
DirectorySpec == Directory!Spec
=============================================================================
