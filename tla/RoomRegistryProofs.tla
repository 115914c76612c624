------------------------- MODULE RoomRegistryProofs -------------------------
(***************************************************************************)
(* The safety properties of RoomRegistry for any number of connections,    *)
(* addresses and generations.                                              *)
(***************************************************************************)
EXTENDS RoomRegistry, FiniteSetTheorems, TLAPS

(* A connection holds an Arc exactly while it is not idle. *)
Attached ==
  /\ \A p \in Producers : pState[p] # "idle" <=> pRoom[p] \in Room
  /\ \A w \in Watchers : wState[w] # "idle" <=> wRoom[w] \in Room

(* The inductive invariant. *)
IInv ==
  /\ TypeOK
  /\ Attached
  /\ WatcherCount
  /\ NoOrphan
  /\ GenerationsTellApart
  /\ ActiveIsLive
  /\ NewestStaysCurrent
  /\ IdleRoomHasCleaner

USE DEF ProducerState, WatcherState

-----------------------------------------------------------------------------

LEMMA HoldersFinite ==
  ASSUME NEW r \in Room
  PROVE  IsFiniteSet(Holders(r))
<1>1. Holders(r) \in SUBSET Watchers
  BY DEF Holders
<1> QED BY <1>1, FS_Subset, RegistryAssumption

(* A room can be removed only when nobody holds it. *)
LEMMA RemovableUnheld ==
  ASSUME IInv, NEW r \in Room, NEW g, Removable(r, g)
  PROVE  \A w \in Watchers : Holding(w) => wRoom[w] # r
<1>1. Cardinality(Holders(r)) = 0
  BY DEF IInv, WatcherCount, Removable
<1>2. Holders(r) = {}
  BY <1>1, HoldersFinite, FS_EmptySet
<1> QED BY <1>2 DEF Holders

LEMMA InitInv == Init => IInv
<1> SUFFICES ASSUME Init PROVE IInv
  OBVIOUS
<1>1. TypeOK /\ Attached
  BY RegistryAssumption DEF Init, TypeOK, Attached
<1>2. \A r \in Room : Holders(r) = {}
  BY DEF Init, Holders, Holding
<1>3. WatcherCount
  BY <1>2, FS_EmptySet DEF Init, WatcherCount
<1>4. NoOrphan /\ GenerationsTellApart /\ ActiveIsLive /\ NewestStaysCurrent
       /\ IdleRoomHasCleaner
  BY RegistryAssumption DEF Init, NoOrphan, Holding, GenerationsTellApart, DistinctGenerations,
     BoundedGenerations, LastConnects, ActiveIsLive, NewestStaysCurrent,
     IdleRoomHasCleaner
<1> QED BY <1>1, <1>3, <1>4 DEF IInv

LEMMA TypeStep ==
  ASSUME IInv, [Next]_vars
  PROVE  TypeOK' /\ Attached'
<1> USE RegistryAssumption DEF IInv, TypeOK, Attached
<1>1. ASSUME NEW p \in Producers, ConnectProducer(p)
      PROVE  TypeOK' /\ Attached'
  <2>1. CASE TakeOver(p)
    BY <1>1, <2>1 DEF ConnectProducer, TakeOver, watcherVars
  <2>2. CASE Allocate(p)
    BY <1>1, <2>2 DEF ConnectProducer, Allocate, watcherVars
  <2> QED BY <1>1, <2>1, <2>2 DEF ConnectProducer
<1>2. ASSUME NEW p \in Producers, DisconnectProducer(p)
      PROVE  TypeOK' /\ Attached'
  BY <1>2 DEF DisconnectProducer, MarkProducerDisconnected, watcherVars
<1>3. ASSUME NEW p \in Producers, RetentionExpires(p)
      PROVE  TypeOK' /\ Attached'
  BY <1>3 DEF RetentionExpires, RemoveRoomIfCurrent, watcherVars, roomVars
<1>4. ASSUME NEW w \in Watchers, ReserveWatcher(w)
      PROVE  TypeOK' /\ Attached'
  BY <1>4 DEF ReserveWatcher, producerVars
<1>5. ASSUME NEW w \in Watchers, Upgrade(w)
      PROVE  TypeOK' /\ Attached'
  BY <1>5 DEF Upgrade, producerVars, roomVars
<1>6. ASSUME NEW w \in Watchers, ReleaseWatcher(w)
      PROVE  TypeOK' /\ Attached'
  <2>1. wRoom[w] \in Room /\ DecWatchers(wRoom[w]) \in Nat
    BY <1>6 DEF ReleaseWatcher, Holding, DecWatchers
  <2> QED BY <1>6, <2>1 DEF ReleaseWatcher, Holding, WatcherGone, producerVars
<1>7. ASSUME NEW w \in Watchers, CheckConnected(w)
      PROVE  TypeOK' /\ Attached'
  BY <1>7 DEF CheckConnected, WatcherGone, producerVars, roomVars
<1>8. ASSUME NEW w \in Watchers, ReadGeneration(w)
      PROVE  TypeOK' /\ Attached'
  BY <1>8 DEF ReadGeneration, producerVars, roomVars
<1>9. ASSUME NEW w \in Watchers, RemoveAfterRelease(w)
      PROVE  TypeOK' /\ Attached'
  BY <1>9 DEF RemoveAfterRelease, RemoveRoomIfCurrent, WatcherGone, producerVars, roomVars
<1>10. CASE UNCHANGED vars
  BY <1>10 DEF vars, roomVars, producerVars, watcherVars
<1> QED BY <1>1, <1>2, <1>3, <1>4, <1>5, <1>6, <1>7, <1>8, <1>9, <1>10 DEF Next

-----------------------------------------------------------------------------
(* Who holds which room, and the counts. *)

(* A step that changes neither the counts nor who holds what. *)
LEMMA CountKept ==
  ASSUME IInv, UNCHANGED watchers,
         \A w \in Watchers : Holding(w)' <=> Holding(w),
         \A w \in Watchers : Holding(w) => wRoom'[w] = wRoom[w]
  PROVE  WatcherCount'
<1>1. \A r \in Room : Holders(r)' = Holders(r)
  BY DEF Holders
<1> QED BY <1>1 DEF IInv, WatcherCount

LEMMA CountStep ==
  ASSUME IInv, [Next]_vars
  PROVE  WatcherCount'
<1> USE DEF Holding
<1>1. ASSUME NEW p \in Producers, ConnectProducer(p)
      PROVE  WatcherCount'
  <2>1. CASE TakeOver(p)
    BY <1>1, <2>1, CountKept DEF ConnectProducer, TakeOver, watcherVars
  <2>2. CASE Allocate(p)
    <3>1. PICK r \in Room : Unreferenced(r) /\ watchers' = [watchers EXCEPT ![r] = 0]
      BY <2>2 DEF Allocate
    <3>2. Holders(r) = {}
      BY <3>1 DEF Holders, Unreferenced
    <3>3. watchers[r] = 0
      BY <3>2, FS_EmptySet DEF IInv, WatcherCount
    <3>4. UNCHANGED watchers
      BY <3>1, <3>3 DEF IInv, TypeOK
    <3> QED BY <1>1, <3>4, CountKept DEF ConnectProducer, watcherVars
  <2> QED BY <1>1, <2>1, <2>2 DEF ConnectProducer
<1>2. ASSUME NEW w \in Watchers, ReserveWatcher(w)
      PROVE  WatcherCount'
  <2> SUFFICES ASSUME NEW r \in Room
               PROVE  watchers'[r] = Cardinality(Holders(r)')
    BY DEF WatcherCount
  <2>1. watchers[r] = Cardinality(Holders(r)) /\ watchers[r] \in Nat
    BY DEF IInv, WatcherCount, TypeOK
  <2>2. CASE r = inner
    <3>1. Holders(r)' = Holders(r) \cup {w} /\ w \notin Holders(r)
      BY <1>2, <2>2 DEF ReserveWatcher, Holders, IInv, TypeOK
    <3>2. watchers'[r] = watchers[r] + 1
      BY <1>2, <2>2 DEF ReserveWatcher, IInv, TypeOK
    <3> QED BY <2>1, <3>1, <3>2, HoldersFinite, FS_AddElement
  <2>3. CASE r # inner
    <3>1. Holders(r)' = Holders(r)
      BY <1>2, <2>3 DEF ReserveWatcher, Holders, IInv, TypeOK
    <3> QED BY <1>2, <2>1, <2>3, <3>1 DEF ReserveWatcher, IInv, TypeOK
  <2> QED BY <2>2, <2>3
<1>3. ASSUME NEW w \in Watchers, ReleaseWatcher(w)
      PROVE  WatcherCount'
  <2> SUFFICES ASSUME NEW r \in Room
               PROVE  watchers'[r] = Cardinality(Holders(r)')
    BY DEF WatcherCount
  <2>1. watchers[r] = Cardinality(Holders(r)) /\ watchers[r] \in Nat
    BY DEF IInv, WatcherCount, TypeOK
  <2>2. CASE r = wRoom[w]
    <3>1. Holders(r)' = Holders(r) \ {w} /\ w \in Holders(r)
      BY <1>3, <2>2 DEF ReleaseWatcher, WatcherGone, Holders, IInv, TypeOK
    <3>2. watchers[r] # 0
      BY <2>1, <3>1, HoldersFinite, FS_EmptySet
    <3>3. watchers'[r] = watchers[r] - 1
      BY <1>3, <2>1, <2>2, <3>2 DEF ReleaseWatcher, DecWatchers, IInv, TypeOK
    <3> QED BY <2>1, <3>1, <3>3, HoldersFinite, FS_RemoveElement
  <2>3. CASE r # wRoom[w]
    <3>1. Holders(r)' = Holders(r)
      BY <1>3, <2>3 DEF ReleaseWatcher, WatcherGone, Holders, IInv, TypeOK
    <3>2. watchers'[r] = watchers[r]
      BY <1>3, <2>3 DEF ReleaseWatcher, IInv, TypeOK
    <3> QED BY <2>1, <3>1, <3>2
  <2> QED BY <2>2, <2>3
<1>4. ASSUME NEW w \in Watchers, Upgrade(w)
      PROVE  WatcherCount'
  BY <1>4, CountKept DEF Upgrade, roomVars, IInv, TypeOK
<1>5. ASSUME NEW w \in Watchers,
             CheckConnected(w) \/ ReadGeneration(w) \/ RemoveAfterRelease(w)
      PROVE  WatcherCount'
  BY <1>5, CountKept
     DEF CheckConnected, ReadGeneration, RemoveAfterRelease, WatcherGone, roomVars, IInv, TypeOK
<1>6. ASSUME NEW p \in Producers, DisconnectProducer(p) \/ RetentionExpires(p)
      PROVE  WatcherCount'
  BY <1>6, CountKept DEF DisconnectProducer, RetentionExpires, roomVars, watcherVars
<1>7. CASE UNCHANGED vars
  BY <1>7, CountKept DEF vars, roomVars, watcherVars
<1> QED BY <1>1, <1>2, <1>3, <1>4, <1>5, <1>6, <1>7 DEF Next

LEMMA OrphanStep ==
  ASSUME IInv, [Next]_vars
  PROVE  NoOrphan'
<1> USE DEF IInv, TypeOK, Attached, NoOrphan, Holding
<1>1. ASSUME NEW p \in Producers, ConnectProducer(p)
      PROVE  NoOrphan'
  BY <1>1, RegistryAssumption DEF ConnectProducer, TakeOver, Allocate, watcherVars
<1>2. ASSUME NEW p \in Producers, RetentionExpires(p)
      PROVE  NoOrphan'
  <2>1. pRoom[p] \in Room
    BY <1>2 DEF RetentionExpires
  <2>2. CASE Removable(pRoom[p], pGeneration[p])
    BY <1>2, <2>1, <2>2, RemovableUnheld DEF Removable, RetentionExpires, watcherVars
  <2>3. CASE ~Removable(pRoom[p], pGeneration[p])
    BY <1>2, <2>3 DEF RetentionExpires, RemoveRoomIfCurrent, watcherVars
  <2> QED BY <2>2, <2>3
<1>3. ASSUME NEW w \in Watchers, RemoveAfterRelease(w)
      PROVE  NoOrphan'
  <2>1. wRoom[w] \in Room
    BY <1>3 DEF RemoveAfterRelease
  <2>2. CASE Removable(wRoom[w], wGeneration[w])
    BY <1>3, <2>1, <2>2, RemovableUnheld DEF Removable, RemoveAfterRelease, WatcherGone
  <2>3. CASE ~Removable(wRoom[w], wGeneration[w])
    BY <1>3, <2>3 DEF RemoveAfterRelease, RemoveRoomIfCurrent, WatcherGone
  <2> QED BY <2>2, <2>3
<1>4. ASSUME NEW p \in Producers, DisconnectProducer(p)
      PROVE  NoOrphan'
  BY <1>4 DEF DisconnectProducer, watcherVars
<1>5. ASSUME NEW w \in Watchers,
             ReserveWatcher(w) \/ Upgrade(w) \/ ReleaseWatcher(w)
      PROVE  NoOrphan'
  BY <1>5 DEF ReserveWatcher, Upgrade, ReleaseWatcher, WatcherGone
<1>6. ASSUME NEW w \in Watchers, CheckConnected(w) \/ ReadGeneration(w)
      PROVE  NoOrphan'
  BY <1>6 DEF CheckConnected, ReadGeneration, WatcherGone
<1>7. CASE UNCHANGED vars
  BY <1>7 DEF vars, watcherVars
<1> QED BY <1>1, <1>2, <1>3, <1>4, <1>5, <1>6, <1>7 DEF Next

-----------------------------------------------------------------------------
(* Generations, and the producer behind an active room. *)

LEMMA GenerationStep ==
  ASSUME IInv, [Next]_vars
  PROVE  GenerationsTellApart'
<1> USE DEF IInv, TypeOK, Attached, GenerationsTellApart, DistinctGenerations,
            BoundedGenerations, LastConnects
<1>1. ASSUME NEW p \in Producers, ConnectProducer(p)
      PROVE  GenerationsTellApart'
  <2>1. CASE TakeOver(p)
    BY <1>1, <2>1 DEF ConnectProducer, TakeOver
  <2>2. CASE Allocate(p)
    BY <1>1, <2>2 DEF ConnectProducer, Allocate, Unreferenced
  <2> QED BY <1>1, <2>1, <2>2 DEF ConnectProducer
<1>2. ASSUME NEW p \in Producers, DisconnectProducer(p)
      PROVE  GenerationsTellApart'
  BY <1>2 DEF DisconnectProducer, MarkProducerDisconnected
<1>3. ASSUME NEW p \in Producers, RetentionExpires(p)
      PROVE  GenerationsTellApart'
  BY <1>3 DEF RetentionExpires, roomVars
<1>4. ASSUME NEW w \in Watchers,
             \/ ReserveWatcher(w) \/ Upgrade(w) \/ ReleaseWatcher(w)
             \/ CheckConnected(w) \/ ReadGeneration(w) \/ RemoveAfterRelease(w)
      PROVE  GenerationsTellApart'
  BY <1>4 DEF ReserveWatcher, Upgrade, ReleaseWatcher, CheckConnected, ReadGeneration,
     RemoveAfterRelease, roomVars, producerVars
<1>5. CASE UNCHANGED vars
  BY <1>5 DEF vars, roomVars, producerVars
<1> QED BY <1>1, <1>2, <1>3, <1>4, <1>5 DEF Next

LEMMA ActiveStep ==
  ASSUME IInv, [Next]_vars
  PROVE  ActiveIsLive'
<1> USE DEF IInv, TypeOK, Attached, ActiveIsLive, CurrentProducer
<1>1. ASSUME NEW p \in Producers, ConnectProducer(p)
      PROVE  ActiveIsLive'
  <2>1. CASE TakeOver(p)
    <3>1. inner \in Room /\ CurrentProducer(p, inner)'
      BY <1>1, <2>1 DEF ConnectProducer, TakeOver
    <3>2. \A r \in Room : r # inner => connectedGeneration'[r] = 0
      BY <2>1 DEF TakeOver
    <3> QED BY <2>1, <3>1, <3>2 DEF TakeOver
  <2>2. CASE Allocate(p)
    BY <1>1, <2>2 DEF ConnectProducer, Allocate
  <2> QED BY <1>1, <2>1, <2>2 DEF ConnectProducer
<1>2. ASSUME NEW p \in Producers, DisconnectProducer(p)
      PROVE  ActiveIsLive'
  <2> SUFFICES ASSUME NEW r \in Room, connectedGeneration'[r] # 0
               PROVE  inner' = r /\ \E q \in Producers : CurrentProducer(q, r)'
    BY DEF ActiveIsLive
  <2>1. connectedGeneration'[r] = connectedGeneration[r]
    BY <1>2 DEF DisconnectProducer, MarkProducerDisconnected
  <2>2. inner = r /\ \E q \in Producers : CurrentProducer(q, r)
    BY <2>1
  <2>3. ~CurrentProducer(p, r)
    BY <1>2, <2>1 DEF DisconnectProducer, MarkProducerDisconnected
  <2> QED BY <1>2, <2>1, <2>2, <2>3 DEF DisconnectProducer
<1>3. ASSUME NEW p \in Producers, RetentionExpires(p)
      PROVE  ActiveIsLive'
  BY <1>3 DEF RetentionExpires, RemoveRoomIfCurrent, Removable, roomVars
<1>4. ASSUME NEW w \in Watchers, RemoveAfterRelease(w)
      PROVE  ActiveIsLive'
  BY <1>4 DEF RemoveAfterRelease, RemoveRoomIfCurrent, Removable, roomVars, producerVars
<1>5. ASSUME NEW w \in Watchers,
             \/ ReserveWatcher(w) \/ Upgrade(w) \/ ReleaseWatcher(w)
             \/ CheckConnected(w) \/ ReadGeneration(w)
      PROVE  ActiveIsLive'
  BY <1>5 DEF ReserveWatcher, Upgrade, ReleaseWatcher, CheckConnected, ReadGeneration,
     roomVars, producerVars
<1>6. CASE UNCHANGED vars
  BY <1>6 DEF vars, roomVars, producerVars
<1> QED BY <1>1, <1>2, <1>3, <1>4, <1>5, <1>6 DEF Next

LEMMA NewestStep ==
  ASSUME IInv, [Next]_vars
  PROVE  NewestStaysCurrent'
<1> USE DEF IInv, TypeOK, Attached, NewestStaysCurrent, CurrentProducer
<1>1. ASSUME NEW p \in Producers, ConnectProducer(p)
      PROVE  NewestStaysCurrent'
  <2>1. CASE TakeOver(p)
    BY <1>1, <2>1 DEF ConnectProducer, TakeOver, GenerationsTellApart, BoundedGenerations
  <2>2. CASE Allocate(p)
    BY <1>1, <2>2 DEF ConnectProducer, Allocate, Unreferenced
  <2> QED BY <1>1, <2>1, <2>2 DEF ConnectProducer
<1>2. ASSUME NEW p \in Producers, DisconnectProducer(p)
      PROVE  NewestStaysCurrent'
  BY <1>2 DEF DisconnectProducer, MarkProducerDisconnected, GenerationsTellApart,
     DistinctGenerations
<1>3. ASSUME NEW p \in Producers, RetentionExpires(p)
      PROVE  NewestStaysCurrent'
  BY <1>3 DEF RetentionExpires, roomVars
<1>4. ASSUME NEW w \in Watchers,
             \/ ReserveWatcher(w) \/ Upgrade(w) \/ ReleaseWatcher(w)
             \/ CheckConnected(w) \/ ReadGeneration(w) \/ RemoveAfterRelease(w)
      PROVE  NewestStaysCurrent'
  BY <1>4 DEF ReserveWatcher, Upgrade, ReleaseWatcher, CheckConnected, ReadGeneration,
     RemoveAfterRelease, roomVars, producerVars
<1>5. CASE UNCHANGED vars
  BY <1>5 DEF vars, roomVars, producerVars
<1> QED BY <1>1, <1>2, <1>3, <1>4, <1>5 DEF Next

-----------------------------------------------------------------------------
(* The duty to remove an idle room. *)

LEMMA CleanerStep ==
  ASSUME IInv, [Next]_vars
  PROVE  IdleRoomHasCleaner'
<1> SUFFICES ASSUME NEW r \in Room, Idle(r)'
             PROVE  \/ \E p \in Producers : TimerCleans(p, r)'
                    \/ \E w \in Watchers : LeaverCleans(w, r)'
  BY DEF IdleRoomHasCleaner, Idle
<1> USE DEF IInv, TypeOK, Attached, Idle, IdleRoomHasCleaner, TimerCleans, LeaverCleans
<1>1. ASSUME NEW p \in Producers, ConnectProducer(p)
      PROVE  FALSE
  BY <1>1 DEF ConnectProducer, TakeOver, Allocate
<1>2. ASSUME NEW p \in Producers, DisconnectProducer(p)
      PROVE  \/ \E q \in Producers : TimerCleans(q, r)'
             \/ \E w \in Watchers : LeaverCleans(w, r)'
  <2>1. CASE connectedGeneration[r] = 0
    BY <1>2, <2>1 DEF DisconnectProducer, watcherVars
  <2>2. CASE connectedGeneration[r] # 0
    <3>1. pRoom[p] = r /\ pGeneration[p] = connectedGeneration[r]
      BY <1>2, <2>2 DEF DisconnectProducer, MarkProducerDisconnected
    <3>2. TimerCleans(p, r)'
      BY <1>2, <2>2, <3>1 DEF DisconnectProducer, GenerationsTellApart, LastConnects
    <3> QED BY <3>2
  <2> QED BY <2>1, <2>2
<1>3. ASSUME NEW p \in Producers, RetentionExpires(p)
      PROVE  \/ \E q \in Producers : TimerCleans(q, r)'
             \/ \E w \in Watchers : LeaverCleans(w, r)'
  <2>1. Idle(r) /\ ~Removable(pRoom[p], pGeneration[p])
    BY <1>3, RegistryAssumption DEF RetentionExpires, RemoveRoomIfCurrent, roomVars
  <2>2. ~TimerCleans(p, r)
    BY <2>1 DEF Removable
  <2> QED BY <1>3, <2>1, <2>2 DEF RetentionExpires, watcherVars, roomVars
<1>4. ASSUME NEW w \in Watchers, ReserveWatcher(w)
      PROVE  \/ \E q \in Producers : TimerCleans(q, r)'
             \/ \E v \in Watchers : LeaverCleans(v, r)'
  BY <1>4 DEF ReserveWatcher, producerVars
<1>5. ASSUME NEW w \in Watchers, Upgrade(w)
      PROVE  \/ \E q \in Producers : TimerCleans(q, r)'
             \/ \E v \in Watchers : LeaverCleans(v, r)'
  BY <1>5 DEF Upgrade, producerVars, roomVars
<1>6. ASSUME NEW w \in Watchers, ReleaseWatcher(w)
      PROVE  \/ \E q \in Producers : TimerCleans(q, r)'
             \/ \E v \in Watchers : LeaverCleans(v, r)'
  <2>1. CASE wRoom[w] = r
    <3>1. DecWatchers(r) = 0
      BY <1>6, <2>1 DEF ReleaseWatcher, Holding
    <3>2. wState'[w] = "emptied" /\ wRoom'[w] = r
      BY <1>6, <2>1, <3>1 DEF ReleaseWatcher, LastWatcher
    <3> QED BY <3>2
  <2>2. CASE wRoom[w] # r
    BY <1>6, <2>2 DEF ReleaseWatcher, Holding, WatcherGone, producerVars
  <2> QED BY <2>1, <2>2
<1>7. ASSUME NEW w \in Watchers, CheckConnected(w)
      PROVE  \/ \E q \in Producers : TimerCleans(q, r)'
             \/ \E v \in Watchers : LeaverCleans(v, r)'
  BY <1>7 DEF CheckConnected, WatcherGone, producerVars, roomVars
<1>8. ASSUME NEW w \in Watchers, ReadGeneration(w)
      PROVE  \/ \E q \in Producers : TimerCleans(q, r)'
             \/ \E v \in Watchers : LeaverCleans(v, r)'
  BY <1>8 DEF ReadGeneration, producerVars, roomVars
<1>9. ASSUME NEW w \in Watchers, RemoveAfterRelease(w)
      PROVE  \/ \E q \in Producers : TimerCleans(q, r)'
             \/ \E v \in Watchers : LeaverCleans(v, r)'
  <2>1. Idle(r) /\ ~Removable(wRoom[w], wGeneration[w])
    BY <1>9, RegistryAssumption DEF RemoveAfterRelease, RemoveRoomIfCurrent, roomVars
  <2>2. ~LeaverCleans(w, r)
    BY <1>9, <2>1 DEF Removable, RemoveAfterRelease
  <2> QED BY <1>9, <2>1, <2>2 DEF RemoveAfterRelease, WatcherGone, producerVars, roomVars
<1>10. CASE UNCHANGED vars
  BY <1>10 DEF vars, roomVars, producerVars, watcherVars
<1> QED BY <1>1, <1>2, <1>3, <1>4, <1>5, <1>6, <1>7, <1>8, <1>9, <1>10 DEF Next

-----------------------------------------------------------------------------
LEMMA InductiveInvariant == Spec => []IInv
<1>1. IInv /\ [Next]_vars => IInv'
  BY TypeStep, CountStep, OrphanStep, GenerationStep, ActiveStep,
     NewestStep, CleanerStep DEF IInv
<1> QED BY InitInv, <1>1, PTL DEF Spec

(* room.rs, watch.rs: reservations and releases of watchers balance. *)
THEOREM WatcherCountCorrect == Spec => []WatcherCount
<1>1. IInv => WatcherCount
  BY DEF IInv
<1> QED BY <1>1, InductiveInvariant, PTL

(* remove_room_if_current never removes a room under its audience. *)
THEOREM NoOrphanCorrect == Spec => []NoOrphan
<1>1. IInv => NoOrphan
  BY DEF IInv
<1> QED BY <1>1, InductiveInvariant, PTL

(* `active' in the room info is true of a listed room with a live producer. *)
THEOREM ActiveIsLiveCorrect == Spec => []ActiveIsLive
<1>1. IInv => ActiveIsLive
  BY DEF IInv
<1> QED BY <1>1, InductiveInvariant, PTL

(* The end of a replaced connection never disconnects its successor. *)
THEOREM NewestStaysCurrentCorrect == Spec => []NewestStaysCurrent
<1>1. IInv => NewestStaysCurrent
  BY DEF IInv
<1> QED BY <1>1, InductiveInvariant, PTL

(* Every variable keeps its type, whatever the interleaving. *)
THEOREM TypeCorrect == Spec => []TypeOK
<1>1. IInv => TypeOK
  BY DEF IInv
<1> QED BY <1>1, InductiveInvariant, PTL

(* Comparing generations tells the connections of a room apart. *)
THEOREM GenerationsCorrect == Spec => []GenerationsTellApart
<1>1. IInv => GenerationsTellApart
  BY DEF IInv
<1> QED BY <1>1, InductiveInvariant, PTL

(* An idle listed room always has somebody left to remove it. *)
THEOREM CleanerCorrect == Spec => []IdleRoomHasCleaner
<1>1. IInv => IdleRoomHasCleaner
  BY DEF IInv
<1> QED BY <1>1, InductiveInvariant, PTL

-----------------------------------------------------------------------------
(* The registry implements RoomDirectory. *)

(* A step of the producers' side leaves the audience alone. *)
LEMMA AudienceKept ==
  ASSUME UNCHANGED wState
  PROVE  UNCHANGED Audience
BY DEF Audience, Holding

(* The generations of a room tell its live producer from the others. *)
LEMMA LiveUnique ==
  ASSUME IInv, inner # NoRoom, NEW p \in Producers, CurrentProducer(p, inner)
  PROVE  Live = {p}
BY DEF IInv, GenerationsTellApart, DistinctGenerations, CurrentProducer, Live

(* Removing a room is the directory's Expire, or nothing. *)
LEMMA RemovalIsExpire ==
  ASSUME IInv, NEW r \in Room, NEW g, RemoveRoomIfCurrent(r, g),
         UNCHANGED connectedGeneration, UNCHANGED Audience,
         inner' = inner => UNCHANGED Live
  PROVE  [Directory!Next]_<<inner # NoRoom, Live, Audience>>
<1>1. CASE Removable(r, g)
  <2>1. inner # NoRoom /\ inner' = NoRoom
    BY <1>1, RegistryAssumption DEF Removable, RemoveRoomIfCurrent
  <2>2. Live = {} /\ Live' = {}
    BY <1>1, <2>1 DEF Live, CurrentProducer, Removable, IInv, GenerationsTellApart,
       BoundedGenerations, TypeOK
  <2>3. Audience = {}
    BY <1>1, RemovableUnheld DEF Removable, Audience, IInv, NoOrphan
  <2>4. Directory!Expire
    BY <2>1, <2>2, <2>3 DEF Directory!Expire
  <2> QED BY <2>4 DEF Directory!Next
<1>2. CASE ~Removable(r, g)
  BY <1>2 DEF RemoveRoomIfCurrent
<1> QED BY <1>1, <1>2

LEMMA DirectoryInit == Init => Directory!Init
BY DEF Init, Directory!Init, Live, Audience, Holding

LEMMA DirectoryStep ==
  ASSUME IInv, IInv', [Next]_vars
  PROVE  [Directory!Next]_<<inner # NoRoom, Live, Audience>>
<1>1. ASSUME NEW p \in Producers, ConnectProducer(p)
      PROVE  Directory!Connect(p)
  <2>1. inner' # NoRoom /\ CurrentProducer(p, inner)'
    BY <1>1, RegistryAssumption
       DEF ConnectProducer, TakeOver, Allocate, CurrentProducer, IInv, TypeOK
  <2>2. Live' = {p}
    BY <2>1, LiveUnique
       DEF IInv, GenerationsTellApart, DistinctGenerations, CurrentProducer, Live
  <2> QED BY <1>1, <2>1, <2>2, AudienceKept
          DEF ConnectProducer, watcherVars, Directory!Connect
<1>2. ASSUME NEW p \in Producers, DisconnectProducer(p)
      PROVE  [Directory!Next]_<<inner # NoRoom, Live, Audience>>
  <2>1. UNCHANGED <<inner, Audience>>
    BY <1>2, AudienceKept DEF DisconnectProducer, watcherVars
  <2>2. CASE p \in Live
    <3>1. Live = {p}
      BY <2>2, LiveUnique DEF Live
    <3>2. pRoom[p] = inner /\ connectedGeneration'[inner] = 0 /\ inner \in Room
      BY <1>2, <2>2 DEF DisconnectProducer, MarkProducerDisconnected, Live, CurrentProducer,
         IInv, TypeOK
    <3>3. Live' = {}
      BY <1>2, <2>1, <3>2 DEF DisconnectProducer, Live, CurrentProducer, IInv,
         GenerationsTellApart, BoundedGenerations, TypeOK
    <3>4. Directory!Disconnect
      BY <2>1, <3>1, <3>3 DEF Directory!Disconnect
    <3> QED BY <3>4 DEF Directory!Next
  <2>3. CASE p \notin Live
    <3>1. \A q \in Producers : q # p => (CurrentProducer(q, inner)' <=> CurrentProducer(q, inner))
      <4> SUFFICES ASSUME NEW q \in Producers, q # p
                   PROVE  CurrentProducer(q, inner)' <=> CurrentProducer(q, inner)
        OBVIOUS
      <4>1. CASE inner = NoRoom
        BY <1>2, <2>1, <4>1, RegistryAssumption
           DEF DisconnectProducer, CurrentProducer, IInv, Attached, TypeOK
      <4>2. CASE inner # NoRoom
        <5>1. connectedGeneration'[inner] = connectedGeneration[inner]
          BY <1>2, <2>3, <4>2 DEF DisconnectProducer, MarkProducerDisconnected, Live,
             CurrentProducer, IInv, TypeOK
        <5> QED BY <1>2, <2>1, <5>1 DEF DisconnectProducer, CurrentProducer, IInv, TypeOK
      <4> QED BY <4>1, <4>2
    <3>2. ~CurrentProducer(p, inner)' /\ (inner = NoRoom \/ ~CurrentProducer(p, inner))
      BY <1>2, <2>3 DEF DisconnectProducer, Live, CurrentProducer, IInv, TypeOK
    <3>3. UNCHANGED Live
      BY <2>1, <3>1, <3>2 DEF Live
    <3> QED BY <2>1, <3>3
  <2> QED BY <2>2, <2>3
<1>3. ASSUME NEW p \in Producers, RetentionExpires(p)
      PROVE  [Directory!Next]_<<inner # NoRoom, Live, Audience>>
  <2>1. UNCHANGED Audience /\ UNCHANGED connectedGeneration /\ pRoom[p] \in Room
    BY <1>3, AudienceKept DEF RetentionExpires, watcherVars, roomVars, IInv, Attached
  <2>2. inner' = inner => UNCHANGED Live
    BY <1>3 DEF RetentionExpires, roomVars, Live, CurrentProducer, IInv, TypeOK
  <2> QED BY <1>3, <2>1, <2>2, RemovalIsExpire DEF RetentionExpires
<1>4. ASSUME NEW w \in Watchers, RemoveAfterRelease(w)
      PROVE  [Directory!Next]_<<inner # NoRoom, Live, Audience>>
  <2>1. UNCHANGED Audience /\ UNCHANGED connectedGeneration /\ wRoom[w] \in Room
    BY <1>4 DEF RemoveAfterRelease, WatcherGone, roomVars, Audience, Holding, IInv, Attached,
       TypeOK
  <2>2. inner' = inner => UNCHANGED Live
    BY <1>4 DEF RemoveAfterRelease, roomVars, producerVars, Live, CurrentProducer
  <2> QED BY <1>4, <2>1, <2>2, RemovalIsExpire DEF RemoveAfterRelease
<1>5. ASSUME NEW w \in Watchers, ReserveWatcher(w)
      PROVE  Directory!Join(w)
  <2>1. Audience' = Audience \cup {w} /\ w \notin Audience
    BY <1>5 DEF ReserveWatcher, Audience, Holding, IInv, TypeOK
  <2>2. UNCHANGED Live
    BY <1>5 DEF ReserveWatcher, producerVars, Live, CurrentProducer
  <2> QED BY <1>5, <2>1, <2>2 DEF ReserveWatcher, Directory!Join
<1>6. ASSUME NEW w \in Watchers, ReleaseWatcher(w)
      PROVE  Directory!Leave(w)
  <2>1. Audience' = Audience \ {w} /\ w \in Audience
    BY <1>6 DEF ReleaseWatcher, WatcherGone, Audience, Holding, IInv, TypeOK
  <2>2. UNCHANGED Live
    BY <1>6 DEF ReleaseWatcher, producerVars, Live, CurrentProducer
  <2> QED BY <1>6, <2>1, <2>2 DEF ReleaseWatcher, Directory!Leave
<1>7. ASSUME NEW w \in Watchers, Upgrade(w) \/ CheckConnected(w) \/ ReadGeneration(w)
      PROVE  UNCHANGED <<inner, Live, Audience>>
  BY <1>7 DEF Upgrade, CheckConnected, ReadGeneration, WatcherGone, roomVars, producerVars, Live,
     CurrentProducer, Audience, Holding, IInv, TypeOK
<1>8. CASE UNCHANGED vars
  BY <1>8 DEF vars, roomVars, producerVars, watcherVars, Live, CurrentProducer, Audience, Holding
<1> QED BY <1>1, <1>2, <1>3, <1>4, <1>5, <1>6, <1>7, <1>8 DEF Next, Directory!Next

(* The registry's addresses, counts, generations, timers and unlocked      *)
(* release steps keep the promise of RoomDirectory.                        *)
THEOREM ImplementsDirectory == Spec => DirectorySpec
<1>1. IInv /\ IInv' /\ [Next]_vars => [Directory!Next]_<<inner # NoRoom, Live, Audience>>
  BY DirectoryStep
<1> QED BY DirectoryInit, <1>1, InductiveInvariant, PTL
        DEF Spec, DirectorySpec, Directory!Spec, Directory!vars
=============================================================================
