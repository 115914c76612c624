--------------------------- MODULE StreamManager ----------------------------
(***************************************************************************)
(* The viewer page's StreamManager (web/js/app.js): which rooms have a     *)
(* stream.  Streams are added by the user (pinned) or by the auto-add      *)
(* sync, which polls GET /api/rooms; only the sync releases streams.       *)
(*                                                                         *)
(* Each startAutoAdd makes a syncRooms of its own, a session here, with    *)
(* its own syncInFlight.  stopAutoAdd clears the interval but not the      *)
(* fetch in flight, so syncs of two sessions may overlap and apply their   *)
(* answers in either order.  An answer is the directory as it was at some  *)
(* time between request and application.  Date.now() is kept as ages: a    *)
(* tick adds one to each, up to Grace.                                     *)
(***************************************************************************)
EXTENDS Naturals, Sequences, FiniteSets, Functions

CONSTANTS
  Order,        \* the room ids in the order of list_rooms, which sorts them
  MaxStreams,   \* maxStreams: 12
  Grace,        \* missingRoomGraceMs and inactiveRoomGraceMs, both 9000
  MaxSessions,  \* bound: calls of startAutoAdd
  MaxFailures   \* bound: fetches that fail

Rooms == Range(Order)

ASSUME ManagerAssumption ==
  /\ Order \in Seq(Rooms) /\ Cardinality(Rooms) = Len(Order)
  /\ MaxStreams \in Nat /\ Grace \in Nat \ {0}
  /\ MaxSessions \in Nat /\ MaxFailures \in Nat

VARIABLES
  directory,  \* the gateway's rooms
  manager,    \* the StreamManager's collections
  autoAdd,    \* the session whose interval runs, 0 if none
  sessions,   \* sessions so far
  fetches,    \* each session's fetch
  failures,   \* fetches that failed
  offFor      \* history: ticks since a sync saw the room connected

vars == <<directory, manager, autoAdd, sessions, fetches, failures, offFor>>

Status == {"absent", "inactive", "connected"}
Listing == [Rooms -> Status]
NoRooms == [room \in Rooms |-> "absent"]
NoFetch == [phase |-> "none", rooms |-> NoRooms]
Sent == [phase |-> "sent", rooms |-> NoRooms]
Answered(listing) == [phase |-> "answered", rooms |-> listing]

(* The Map has no entry. *)
Unset == Grace + 1
Age == 0..Unset

Manager == [streams : SUBSET Rooms, pinnedRooms : SUBSET Rooms,
            missingRooms : [Rooms -> Age], inactiveRooms : [Rooms -> Age]]

TypeOK ==
  /\ directory \in Listing
  /\ manager \in Manager
  /\ Cardinality(manager.streams) <= MaxStreams
  /\ \A room \in Rooms : room \notin manager.streams =>
       manager.missingRooms[room] = Unset /\ manager.inactiveRooms[room] = Unset
  /\ sessions \in 0..MaxSessions
  /\ autoAdd \in 0..sessions
  /\ fetches \in [1..MaxSessions ->
                  {NoFetch, Sent} \cup {Answered(listing) : listing \in Listing}]
  /\ failures \in Nat
  /\ offFor \in [Rooms -> 0..Grace]

Init ==
  /\ directory \in Listing
  /\ manager = [streams |-> {}, pinnedRooms |-> {},
                missingRooms |-> [room \in Rooms |-> Unset],
                inactiveRooms |-> [room \in Rooms |-> Unset]]
  /\ autoAdd = 0
  /\ sessions = 0
  /\ fetches = [n \in 1..MaxSessions |-> NoFetch]
  /\ failures = 0
  /\ offFor = [room \in Rooms |-> 0]

-----------------------------------------------------------------------------
(* addStream and removeStream *)

Forget(m, room) ==
  [m EXCEPT !.missingRooms[room] = Unset, !.inactiveRooms[room] = Unset]

(* Mutant of AtLimit: one stream too many. *)
OverLimit(m) == Cardinality(m.streams) > MaxStreams

AtLimit(m) == Cardinality(m.streams) >= MaxStreams

(* A stream whose worker cannot be made is in `streams' as well. *)
AddStream(m, room) ==
  IF room \notin m.streams /\ AtLimit(m) THEN m
  ELSE Forget([m EXCEPT !.streams = @ \cup {room}], room)

AddPinnedStream(m, room) == AddStream([m EXCEPT !.pinnedRooms = @ \cup {room}], room)

RemoveStream(m, room) ==
  Forget([m EXCEPT !.streams = @ \ {room}, !.pinnedRooms = @ \ {room}], room)

-----------------------------------------------------------------------------
(* syncRooms, room by room, for a manager m *)

(* The age a Map will have for the room: get(roomId) || now. *)
Since(age) == IF age = Unset THEN 0 ELSE age

(* Mutant of SyncConnected: a room that came back keeps its old timer. *)
SyncKeepingTimer(m, room) == IF room \in m.streams THEN m ELSE AddStream(m, room)

SyncConnected(m, room) ==
  IF room \in m.streams THEN [m EXCEPT !.inactiveRooms[room] = Unset]
  ELSE AddStream(m, room)

(* Mutant of SyncInactive: the timer starts again at every sync. *)
SyncRestartingTimer(m, room) ==
  IF room \notin m.streams \ m.pinnedRooms THEN m
  ELSE [m EXCEPT !.inactiveRooms[room] = 0]

SyncInactive(m, room) ==
  IF room \notin m.streams \ m.pinnedRooms THEN m
  ELSE IF Since(m.inactiveRooms[room]) = Grace THEN RemoveStream(m, room)
  ELSE [m EXCEPT !.inactiveRooms[room] = Since(@)]

(* The first loop, over the listed rooms. *)
SyncListed(m, room, status) ==
  LET n == [m EXCEPT !.missingRooms[room] = Unset]
  IN IF status = "absent" THEN m
     ELSE IF status = "connected" THEN SyncConnected(n, room) ELSE SyncInactive(n, room)

(* The second loop, over the streams that are not listed. *)
SyncMissing(m, room, status) ==
  IF status # "absent" \/ room \notin m.streams \ m.pinnedRooms THEN m
  ELSE IF Since(m.missingRooms[room]) = Grace THEN RemoveStream(m, room)
  ELSE [m EXCEPT !.missingRooms[room] = Since(@), !.inactiveRooms[room] = Unset]

(* The manager after i rooms of the first loop, and of the second. *)
SyncRooms(m, listing) ==
  LET listed[i \in 0..Len(Order)] ==
        IF i = 0 THEN m ELSE SyncListed(listed[i - 1], Order[i], listing[Order[i]])
      missing[i \in 0..Len(Order)] ==
        IF i = 0 THEN listed[Len(Order)]
        ELSE SyncMissing(missing[i - 1], Order[i], listing[Order[i]])
  IN missing[Len(Order)]

-----------------------------------------------------------------------------
(* The user *)

Pin(room) ==
  /\ manager' = AddPinnedStream(manager, room)
  /\ UNCHANGED <<directory, autoAdd, sessions, fetches, failures, offFor>>

(* A sync starts at once. *)
StartAutoAdd ==
  /\ autoAdd = 0
  /\ sessions < MaxSessions
  /\ sessions' = sessions + 1
  /\ autoAdd' = sessions'
  /\ fetches' = [fetches EXCEPT ![sessions'] = Sent]
  /\ UNCHANGED <<directory, manager, failures, offFor>>

StopAutoAdd ==
  /\ autoAdd # 0
  /\ autoAdd' = 0
  /\ UNCHANGED <<directory, manager, sessions, fetches, failures, offFor>>

-----------------------------------------------------------------------------
(* The sync *)

(* The interval fires; syncInFlight is false. *)
IntervalFires ==
  /\ autoAdd # 0
  /\ fetches[autoAdd] = NoFetch
  /\ fetches' = [fetches EXCEPT ![autoAdd] = Sent]
  /\ UNCHANGED <<directory, manager, autoAdd, sessions, failures, offFor>>

GatewayAnswers(n) ==
  /\ fetches[n] = Sent
  /\ fetches' = [fetches EXCEPT ![n] = Answered(directory)]
  /\ UNCHANGED <<directory, manager, autoAdd, sessions, failures, offFor>>

FetchFails(n) ==
  /\ fetches[n] # NoFetch
  /\ failures < MaxFailures
  /\ failures' = failures + 1
  /\ fetches' = [fetches EXCEPT ![n] = NoFetch]
  /\ UNCHANGED <<directory, manager, autoAdd, sessions, offFor>>

ApplyAnswer(n) ==
  /\ fetches[n].phase = "answered"
  /\ LET listing == fetches[n].rooms IN
       /\ manager' = SyncRooms(manager, listing)
       /\ offFor' = [room \in Rooms |->
                       IF listing[room] = "connected" THEN 0 ELSE offFor[room]]
  /\ fetches' = [fetches EXCEPT ![n] = NoFetch]
  /\ UNCHANGED <<directory, autoAdd, sessions, failures>>

-----------------------------------------------------------------------------
(* The gateway and the clock *)

RoomChanges(room) ==
  /\ \E status \in Status : directory' = [directory EXCEPT ![room] = status]
  /\ UNCHANGED <<manager, autoAdd, sessions, fetches, failures, offFor>>

Older(age) == IF age < Grace THEN age + 1 ELSE age

Tick ==
  /\ manager' = [manager EXCEPT
       !.missingRooms = [room \in Rooms |-> Older(@[room])],
       !.inactiveRooms = [room \in Rooms |-> Older(@[room])]]
  /\ offFor' = [room \in Rooms |-> Older(offFor[room])]
  /\ UNCHANGED <<directory, autoAdd, sessions, fetches, failures>>

-----------------------------------------------------------------------------
Next ==
  \/ \E room \in Rooms : Pin(room) \/ RoomChanges(room)
  \/ StartAutoAdd \/ StopAutoAdd
  \/ IntervalFires
  \/ \E n \in 1..MaxSessions : GatewayAnswers(n) \/ FetchFails(n) \/ ApplyAnswer(n)
  \/ Tick

(* A session's next step: its interval fires, or its fetch goes on. *)
Sync(n) ==
  \/ autoAdd = n /\ IntervalFires
  \/ GatewayAnswers(n)
  \/ ApplyAnswer(n)

(***************************************************************************)
(* The interval fires, fetches end (app.js sets no timeout: this assumes a *)
(* network that ends them, and a bounded number of failures) and the clock *)
(* goes on.                                                                *)
(***************************************************************************)
Fairness ==
  /\ WF_vars(Tick)
  /\ \A n \in 1..MaxSessions : WF_vars(Sync(n))

Spec == Init /\ [][Next]_vars
FairSpec == Spec /\ Fairness

-----------------------------------------------------------------------------
(* Properties *)

(***************************************************************************)
(* A stream is released only if nobody pinned it and no sync of the last   *)
(* Grace ticks saw its producer connected: neither an old timer of an      *)
(* earlier outage, nor alternating missing and inactive answers, nor an    *)
(* overtaken answer of another session ends a live stream early.           *)
(***************************************************************************)
NoEarlyRelease ==
  [][\A room \in manager.streams \ manager'.streams :
        room \notin manager.pinnedRooms /\ offFor[room] = Grace]_vars

(* A stream nobody pinned, of a room without producer. *)
Releasable(room) ==
  room \in manager.streams \ manager.pinnedRooms /\ directory[room] = "inactive"

(***************************************************************************)
(* While auto-add runs, a stream of an inactive room that nobody pins is   *)
(* released, unless the room changes.  The worker's connection counts as a *)
(* watcher, so the gateway's retention of the room waits for this.         *)
(***************************************************************************)
ReleasedWhileSyncing ==
  \A room \in Rooms :
    Releasable(room) /\ autoAdd # 0 ~> ~Releasable(room) \/ autoAdd = 0

(***************************************************************************)
(* README.md:137: `The viewer also releases non-pinned inactive streams    *)
(* after its grace window so backend retention can expire.'  The code does *)
(* so only in the auto-add sync, and not while the toggle is off.          *)
(***************************************************************************)
InactiveReleased == \A room \in Rooms : Releasable(room) ~> ~Releasable(room)
=============================================================================
