--------------------------- MODULE RoomDirectory ----------------------------
(***************************************************************************)
(* What the gateway's room registry promises for one room id, without      *)
(* addresses, counters, generations or timers: the room is listed as long  *)
(* as anybody uses it, at most one producer is live, a newcomer replaces   *)
(* it, and a room may expire only when it has no producer and no audience. *)
(* RoomRegistry implements this specification.                             *)
(***************************************************************************)
CONSTANTS Producers, Watchers

VARIABLES
  listed,    \* the id has a room
  live,      \* the producers whose frames reach it: none or one
  audience   \* watchers of it

vars == <<listed, live, audience>>

Init ==
  /\ listed = FALSE
  /\ live = {}
  /\ audience = {}

(* A producer connects: it creates the room or replaces the live producer. *)
Connect(p) ==
  /\ listed' = TRUE
  /\ live' = {p}
  /\ UNCHANGED audience

Disconnect ==
  /\ live # {}
  /\ live' = {}
  /\ UNCHANGED <<listed, audience>>

Join(w) ==
  /\ listed
  /\ w \notin audience
  /\ audience' = audience \cup {w}
  /\ UNCHANGED <<listed, live>>

Leave(w) ==
  /\ w \in audience
  /\ audience' = audience \ {w}
  /\ UNCHANGED <<listed, live>>

Expire ==
  /\ listed
  /\ live = {}
  /\ audience = {}
  /\ listed' = FALSE
  /\ UNCHANGED <<live, audience>>

Next ==
  \/ \E p \in Producers : Connect(p)
  \/ Disconnect
  \/ \E w \in Watchers : Join(w) \/ Leave(w)
  \/ Expire

Spec == Init /\ [][Next]_vars
=============================================================================
