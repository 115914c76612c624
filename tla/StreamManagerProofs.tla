------------------------ MODULE StreamManagerProofs -------------------------
(***************************************************************************)
(* Theorems about StreamManager, for any rooms, limit, grace period,       *)
(* sessions and listings.  syncRooms is two loops over the rooms; what     *)
(* they do is shown by induction over the rooms passed.                    *)
(***************************************************************************)
EXTENDS StreamManager, FiniteSetTheorems, SequenceTheorems, TLAPS

(* A timer has not run longer than its room has been seen off. *)
TimelyAt(m, room, off) ==
  /\ m.missingRooms[room] = Unset \/ m.missingRooms[room] <= off[room]
  /\ m.inactiveRooms[room] = Unset \/ m.inactiveRooms[room] <= off[room]

Timely(m, off) == \A room \in Rooms : TimelyAt(m, room, off)

(* What every operation keeps: the limit, and no timer without a stream. *)
Sound(m) ==
  /\ m \in Manager
  /\ Cardinality(m.streams) <= MaxStreams
  /\ \A room \in Rooms : room \notin m.streams =>
       m.missingRooms[room] = Unset /\ m.inactiveRooms[room] = Unset

(* The inductive invariant. *)
IInv == TypeOK /\ Timely(manager, offFor)

-----------------------------------------------------------------------------
(* Induction *)

(* A set of numbers has a least one. *)
LEMMA LeastNumber ==
  ASSUME NEW T, T \subseteq Nat, T # {}
  PROVE \E n \in T : \A k \in T : n <= k
<1> DEFINE R == OpToRel(<, Nat)
<1>1. PICK n \in T : \A k \in T : ~ (<<k, n>> \in R)
  <2> HIDE DEF R
  <2>1. IsWellFoundedOn(R, Nat)
    BY NatLessThanWellFounded DEF R
  <2> QED BY <2>1, WFMin
<1>2. ASSUME NEW k \in T PROVE n <= k
  <2>1. ~ (<<k, n>> \in R)
    BY <1>1
  <2>2. n \in Nat /\ k \in Nat
    OBVIOUS
  <2>3. ~ (k < n)
    BY <2>1, <2>2 DEF OpToRel
  <2> QED BY <2>2, <2>3
<1> QED BY <1>2

(* g[i] is what the i-th turn of a loop does: a function holds what n turns
   have made of b. *)
LoopRuns(n, S, b, g) ==
  \E f \in [0..n -> S] : f[0] = b /\ \A i \in 1..n : f[i] = g[i][f[i - 1]]

LEMMA LoopExists ==
  ASSUME NEW N \in Nat, NEW S, NEW b \in S, NEW g \in [1..N -> [S -> S]]
  PROVE  LoopRuns(N, S, b, g)
<1> USE DEF LoopRuns
<1> DEFINE Good(n) == LoopRuns(n, S, b, g)
           Bad == {n \in 0..N : ~Good(n)}
<1>1. Good(0)
  <2> DEFINE f == [i \in 0..0 |-> b]
  <2>1. f \in [0..0 -> S] /\ f[0] = b /\ 1..0 = {}
    OBVIOUS
  <2> HIDE DEF f
  <2> QED BY <2>1
<1>2. ASSUME NEW n \in 0..N, n > 0, Good(n - 1) PROVE Good(n)
  <2>1. PICK f \in [0..(n - 1) -> S] : f[0] = b /\ \A i \in 1..(n - 1) : f[i] = g[i][f[i - 1]]
    BY <1>2
  <2> DEFINE h == [i \in 0..n |-> IF i = n THEN g[n][f[n - 1]] ELSE f[i]]
  <2>2. h \in [0..n -> S]
    BY <1>2
  <2>3. h[0] = b
    BY <2>1, <1>2
  <2>4. ASSUME NEW i \in 1..n PROVE h[i] = g[i][h[i - 1]]
    BY <2>1, <1>2
  <2> HIDE DEF h
  <2> QED BY <2>2, <2>3, <2>4
<1>3. Bad = {}
  <2>1. SUFFICES ASSUME Bad # {} PROVE FALSE
    OBVIOUS
  <2>2. Bad \subseteq Nat
    OBVIOUS
  <2> HIDE DEF Bad
  <2>3. PICK n \in Bad : \A k \in Bad : n <= k
    BY <2>1, <2>2, LeastNumber
  <2> USE DEF Bad
  <2> HIDE DEF Good
  <2>4. n # 0
    BY <1>1
  <2>5. n - 1 \in 0..N /\ n > 0
    BY <2>4
  <2>6. Good(n - 1)
    BY <2>3, <2>5
  <2> QED BY <1>2, <2>5, <2>6
<1>4. Good(N)
  <2> HIDE DEF Good
  <2> QED BY <1>3
<1> QED BY <1>4, Zenon

(* The rule of the loop invariant: J[i] holds after i turns. *)
LEMMA LoopInvariant ==
  ASSUME NEW N \in Nat, NEW f, NEW J, f[0] \in J[0],
         \A i \in 1..N : f[i - 1] \in J[i - 1] => f[i] \in J[i]
  PROVE  f[N] \in J[N]
<1> DEFINE Bad == {n \in 0..N : f[n] \notin J[n]}
<1>1. Bad = {}
  <2>1. SUFFICES ASSUME Bad # {} PROVE FALSE
    OBVIOUS
  <2>2. Bad \subseteq Nat
    OBVIOUS
  <2> HIDE DEF Bad
  <2>3. PICK n \in Bad : \A k \in Bad : n <= k
    BY <2>1, <2>2, LeastNumber
  <2> USE DEF Bad
  <2>4. n # 0
    OBVIOUS
  <2>5. n - 1 \in 0..N /\ n \in 1..N /\ n - 1 < n
    BY <2>4
  <2>6. f[n - 1] \in J[n - 1]
    BY <2>3, <2>5
  <2> QED BY <2>5, <2>6
<1> QED BY <1>1

-----------------------------------------------------------------------------
(* Types *)

LEMMA RoomsFinite == IsFiniteSet(Rooms)
<1>1. Order \in Seq(Rooms)
  BY ManagerAssumption
<1>2. Len(Order) \in Nat /\ DOMAIN Order = 1..Len(Order)
  BY <1>1
<1>3. IsFiniteSet(1..Len(Order))
  BY <1>2, FS_Interval
<1>4. Order \in Surjection(1..Len(Order), Rooms)
  BY <1>1, <1>2 DEF Surjection, Rooms, Range
<1> QED BY <1>3, <1>4, FS_Surjection

LEMMA SomeAges == Unset \in Age /\ 0 \in Age /\ Grace \in Nat \ {0} /\ Unset = Grace + 1
BY ManagerAssumption DEF Age, Unset

LEMMA ManagerFields ==
  ASSUME NEW m \in Manager
  PROVE  /\ m.streams \in SUBSET Rooms /\ m.pinnedRooms \in SUBSET Rooms
         /\ m.missingRooms \in [Rooms -> Age] /\ m.inactiveRooms \in [Rooms -> Age]
BY DEF Manager

LEMMA StreamsChanged ==
  ASSUME NEW m \in Manager, NEW s \in SUBSET Rooms, NEW p \in SUBSET Rooms
  PROVE  [m EXCEPT !.streams = s, !.pinnedRooms = p] \in Manager
BY Zenon DEF Manager

LEMMA MissingSet ==
  ASSUME NEW m \in Manager, NEW room \in Rooms, NEW age \in Age
  PROVE  LET n == [m EXCEPT !.missingRooms[room] = age] IN
           /\ n \in Manager /\ n.streams = m.streams /\ n.pinnedRooms = m.pinnedRooms
           /\ n.missingRooms = [m.missingRooms EXCEPT ![room] = age]
           /\ n.inactiveRooms = m.inactiveRooms
BY DEF Manager

LEMMA InactiveSet ==
  ASSUME NEW m \in Manager, NEW room \in Rooms, NEW age \in Age
  PROVE  LET n == [m EXCEPT !.inactiveRooms[room] = age] IN
           /\ n \in Manager /\ n.streams = m.streams /\ n.pinnedRooms = m.pinnedRooms
           /\ n.inactiveRooms = [m.inactiveRooms EXCEPT ![room] = age]
           /\ n.missingRooms = m.missingRooms
BY DEF Manager

-----------------------------------------------------------------------------
(* addStream and removeStream *)

(* The other rooms' ages. *)
OthersKept(m, n, room) ==
  \A x \in Rooms : x # room =>
    n.missingRooms[x] = m.missingRooms[x] /\ n.inactiveRooms[x] = m.inactiveRooms[x]

NoTimer(m, room) == m.missingRooms[room] = Unset /\ m.inactiveRooms[room] = Unset

LEMMA ForgetDoes ==
  ASSUME NEW m \in Manager, NEW room \in Rooms
  PROVE  /\ Forget(m, room) \in Manager
         /\ Forget(m, room).streams = m.streams /\ Forget(m, room).pinnedRooms = m.pinnedRooms
         /\ NoTimer(Forget(m, room), room)
         /\ OthersKept(m, Forget(m, room), room)
<1> DEFINE n == Forget(m, room)
<1>1. /\ n \in Manager /\ n.streams = m.streams /\ n.pinnedRooms = m.pinnedRooms
      /\ n.missingRooms = [m.missingRooms EXCEPT ![room] = Unset]
      /\ n.inactiveRooms = [m.inactiveRooms EXCEPT ![room] = Unset]
  BY SomeAges DEF Forget, Manager
<1> HIDE DEF n
<1>2. NoTimer(n, room) /\ OthersKept(m, n, room)
  BY <1>1, ManagerFields DEF NoTimer, OthersKept
<1> QED
  BY <1>1, <1>2 DEF n

(* A stream is added below the limit, or not at all. *)
LEMMA AddStreamDoes ==
  ASSUME NEW m, Sound(m), NEW room \in Rooms
  PROVE  /\ Sound(AddStream(m, room))
         /\ AddStream(m, room).pinnedRooms = m.pinnedRooms
         /\ m.streams \subseteq AddStream(m, room).streams
         /\ AddStream(m, room).streams \subseteq m.streams \cup {room}
         /\ NoTimer(AddStream(m, room), room)
         /\ OthersKept(m, AddStream(m, room), room)
<1>1. m \in Manager /\ m.streams \in SUBSET Rooms /\ m.pinnedRooms \in SUBSET Rooms
  BY ManagerFields DEF Sound
<1>2. CASE room \notin m.streams /\ AtLimit(m)
  <2>1. AddStream(m, room) = m
    BY <1>2 DEF AddStream
  <2>2. NoTimer(m, room) /\ OthersKept(m, m, room)
    BY <1>2 DEF Sound, NoTimer, OthersKept
  <2> QED BY <2>1, <2>2
<1>3. CASE ~(room \notin m.streams /\ AtLimit(m))
  <2> DEFINE k == [m EXCEPT !.streams = @ \cup {room}]
             n == Forget(k, room)
  <2>1. AddStream(m, room) = n
    BY <1>3, Zenon DEF AddStream
  <2>2. /\ k \in Manager /\ k.streams = m.streams \cup {room} /\ k.pinnedRooms = m.pinnedRooms
        /\ k.missingRooms = m.missingRooms /\ k.inactiveRooms = m.inactiveRooms
    BY <1>1 DEF Manager
  <2> HIDE DEF k
  <2>3. /\ n \in Manager /\ n.streams = m.streams \cup {room} /\ n.pinnedRooms = m.pinnedRooms
        /\ NoTimer(n, room) /\ OthersKept(k, n, room)
    BY <2>2, ForgetDoes
  <2> HIDE DEF n
  <2>4. OthersKept(m, n, room)
    BY <2>2, <2>3 DEF OthersKept
  <2>5. Cardinality(n.streams) <= MaxStreams
    <3>1. IsFiniteSet(m.streams) /\ Cardinality(m.streams) \in Nat
      BY <1>1, RoomsFinite, FS_Subset, FS_CardinalityType
    <3>2. CASE room \in m.streams
      <4>1. n.streams = m.streams
        BY <2>3, <3>2
      <4> QED BY <4>1 DEF Sound
    <3>3. CASE room \notin m.streams
      <4>1. Cardinality(n.streams) = Cardinality(m.streams) + 1
        BY <2>3, <3>1, <3>3, FS_AddElement
      <4>2. Cardinality(m.streams) < MaxStreams
        BY <1>3, <3>1, <3>3, ManagerAssumption DEF AtLimit
      <4> QED BY <3>1, <4>1, <4>2, ManagerAssumption
    <3> QED BY <3>2, <3>3
  <2>6. \A x \in Rooms : x \notin n.streams =>
          n.missingRooms[x] = Unset /\ n.inactiveRooms[x] = Unset
    BY <2>3, <2>4 DEF OthersKept, Sound
  <2>7. Sound(n)
    BY <2>3, <2>5, <2>6 DEF Sound
  <2> QED BY <2>1, <2>3, <2>4, <2>7
<1> QED BY <1>2, <1>3

LEMMA RemoveStreamDoes ==
  ASSUME NEW m, Sound(m), NEW room \in Rooms
  PROVE  /\ Sound(RemoveStream(m, room))
         /\ RemoveStream(m, room).pinnedRooms = m.pinnedRooms \ {room}
         /\ RemoveStream(m, room).streams = m.streams \ {room}
         /\ NoTimer(RemoveStream(m, room), room)
         /\ OthersKept(m, RemoveStream(m, room), room)
<1> DEFINE k == [m EXCEPT !.streams = @ \ {room}, !.pinnedRooms = @ \ {room}]
           n == Forget(k, room)
<1>1. m \in Manager /\ m.streams \in SUBSET Rooms /\ m.pinnedRooms \in SUBSET Rooms
  BY ManagerFields DEF Sound
<1>2. RemoveStream(m, room) = n
  BY Zenon DEF RemoveStream
<1>3. /\ k \in Manager /\ k.streams = m.streams \ {room} /\ k.pinnedRooms = m.pinnedRooms \ {room}
      /\ k.missingRooms = m.missingRooms /\ k.inactiveRooms = m.inactiveRooms
  BY <1>1 DEF Manager
<1> HIDE DEF k
<1>4. /\ n \in Manager /\ n.streams = m.streams \ {room} /\ n.pinnedRooms = m.pinnedRooms \ {room}
      /\ NoTimer(n, room) /\ OthersKept(k, n, room)
  BY <1>3, ForgetDoes
<1> HIDE DEF n
<1>5. OthersKept(m, n, room)
  BY <1>3, <1>4 DEF OthersKept
<1>6. Cardinality(n.streams) <= MaxStreams
  <2>1. IsFiniteSet(m.streams)
    BY <1>1, RoomsFinite, FS_Subset
  <2>2. IsFiniteSet(n.streams) /\ Cardinality(n.streams) <= Cardinality(m.streams)
    BY <1>4, <2>1, FS_Subset
  <2>3. Cardinality(n.streams) \in Nat /\ Cardinality(m.streams) \in Nat
    BY <2>1, <2>2, FS_CardinalityType
  <2> QED BY <2>2, <2>3, ManagerAssumption DEF Sound
<1>7. \A x \in Rooms : x \notin n.streams =>
        n.missingRooms[x] = Unset /\ n.inactiveRooms[x] = Unset
  BY <1>4, <1>5 DEF OthersKept, NoTimer, Sound
<1>8. Sound(n)
  BY <1>4, <1>6, <1>7 DEF Sound
<1> QED BY <1>2, <1>4, <1>5, <1>8

-----------------------------------------------------------------------------
(* One turn of a loop of syncRooms, for one room *)

(* From m to n: a stream is released only after Grace, and nobody is unpinned. *)
Turn(m, n, room, off) ==
  /\ Sound(n)
  /\ n.pinnedRooms = m.pinnedRooms
  /\ n.streams \subseteq m.streams \cup {room}
  /\ OthersKept(m, n, room)
  /\ TimelyAt(n, room, off)
  /\ \A x \in m.streams \ n.streams :
       x = room /\ room \notin m.pinnedRooms /\ off[room] = Grace

LEMMA TurnOfNothing ==
  ASSUME NEW m, Sound(m), NEW room \in Rooms, NEW off, TimelyAt(m, room, off)
  PROVE  Turn(m, m, room, off)
BY DEF Turn, OthersKept

(* A timer that has run for Grace belongs to a room seen off for as long. *)
LEMMA ExpiredMeansOff ==
  ASSUME NEW age \in Age, NEW o \in 0..Grace, age = Unset \/ age <= o
  PROVE  /\ Since(age) = Grace => o = Grace
         /\ Since(age) \in Age /\ Since(age) <= o
BY SomeAges DEF Since, Age

(* A release at the end of the grace period. *)
LEMMA ReleaseTurn ==
  ASSUME NEW m, Sound(m), NEW room \in Rooms, NEW off, off[room] = Grace,
         room \in m.streams \ m.pinnedRooms
  PROVE  Turn(m, RemoveStream(m, room), room, off)
<1> DEFINE n == RemoveStream(m, room)
<1>1. /\ Sound(n) /\ n.pinnedRooms = m.pinnedRooms \ {room}
      /\ n.streams = m.streams \ {room}
      /\ NoTimer(n, room) /\ OthersKept(m, n, room)
  BY RemoveStreamDoes, Zenon
<1> HIDE DEF n
<1>2. n.pinnedRooms = m.pinnedRooms
  BY <1>1, ManagerFields DEF Sound
<1>3. TimelyAt(n, room, off)
  BY <1>1 DEF NoTimer, TimelyAt
<1>4. \A x \in m.streams \ n.streams :
        x = room /\ room \notin m.pinnedRooms /\ off[room] = Grace
  BY <1>1
<1>5. Turn(m, n, room, off)
  BY <1>1, <1>2, <1>3, <1>4, Zenon DEF Turn
<1> QED BY <1>5 DEF n

(* Clearing or starting a timer of a room with a stream. *)
LEMMA TimerTurn ==
  ASSUME NEW m, Sound(m), NEW room \in Rooms, NEW off, NEW n \in Manager,
         n.streams = m.streams, n.pinnedRooms = m.pinnedRooms,
         OthersKept(m, n, room), TimelyAt(n, room, off),
         room \in m.streams \/ NoTimer(n, room)
  PROVE  Turn(m, n, room, off)
<1>1. \A x \in Rooms : x \notin n.streams =>
        n.missingRooms[x] = Unset /\ n.inactiveRooms[x] = Unset
  BY DEF Sound, OthersKept, NoTimer
<1>2. Sound(n)
  BY <1>1 DEF Sound
<1> QED BY <1>2 DEF Turn

LEMMA MissingTurn ==
  ASSUME NEW m, Sound(m), NEW room \in Rooms, NEW status \in Status,
         NEW off \in [Rooms -> 0..Grace], TimelyAt(m, room, off)
  PROVE  Turn(m, SyncMissing(m, room, status), room, off)
<1> DEFINE age == m.missingRooms[room]
<1>1. m \in Manager /\ age \in Age /\ off[room] \in 0..Grace
  BY ManagerFields DEF Sound
<1>2. /\ Since(age) = Grace => off[room] = Grace
      /\ Since(age) \in Age /\ Since(age) <= off[room]
  BY <1>1, ExpiredMeansOff DEF TimelyAt
<1>3. CASE status # "absent" \/ room \notin m.streams \ m.pinnedRooms
  <2>1. SyncMissing(m, room, status) = m
    BY <1>3 DEF SyncMissing
  <2> QED BY <2>1, TurnOfNothing
<1>4. CASE /\ ~(status # "absent" \/ room \notin m.streams \ m.pinnedRooms)
           /\ Since(age) = Grace
  <2>1. SyncMissing(m, room, status) = RemoveStream(m, room)
    BY <1>4 DEF SyncMissing
  <2>2. off[room] = Grace /\ room \in m.streams \ m.pinnedRooms
    BY <1>2, <1>4
  <2> QED BY <2>1, <2>2, ReleaseTurn
<1>5. CASE /\ ~(status # "absent" \/ room \notin m.streams \ m.pinnedRooms)
           /\ Since(age) # Grace
  <2> DEFINE n == [m EXCEPT !.missingRooms[room] = Since(@), !.inactiveRooms[room] = Unset]
  <2>1. SyncMissing(m, room, status) = n
    BY <1>5, Zenon DEF SyncMissing
  <2>2. /\ n \in Manager /\ n.streams = m.streams /\ n.pinnedRooms = m.pinnedRooms
        /\ n.missingRooms = [m.missingRooms EXCEPT ![room] = Since(age)]
        /\ n.inactiveRooms = [m.inactiveRooms EXCEPT ![room] = Unset]
    BY <1>1, <1>2, SomeAges DEF Manager
  <2> HIDE DEF n
  <2>3. OthersKept(m, n, room) /\ TimelyAt(n, room, off)
    BY <1>1, <1>2, <2>2, ManagerFields DEF OthersKept, TimelyAt
  <2> QED BY <1>5, <2>1, <2>2, <2>3, TimerTurn
<1> QED BY <1>3, <1>4, <1>5

LEMMA InactiveTurn ==
  ASSUME NEW m, Sound(m), NEW room \in Rooms,
         NEW off \in [Rooms -> 0..Grace], TimelyAt(m, room, off)
  PROVE  Turn(m, SyncInactive(m, room), room, off)
<1> DEFINE age == m.inactiveRooms[room]
<1>1. m \in Manager /\ age \in Age /\ off[room] \in 0..Grace
  BY ManagerFields DEF Sound
<1>2. /\ Since(age) = Grace => off[room] = Grace
      /\ Since(age) \in Age /\ Since(age) <= off[room]
  BY <1>1, ExpiredMeansOff DEF TimelyAt
<1>3. CASE room \notin m.streams \ m.pinnedRooms
  <2>1. SyncInactive(m, room) = m
    BY <1>3 DEF SyncInactive
  <2> QED BY <2>1, TurnOfNothing
<1>4. CASE room \in m.streams \ m.pinnedRooms /\ Since(age) = Grace
  <2>1. SyncInactive(m, room) = RemoveStream(m, room)
    BY <1>4 DEF SyncInactive
  <2>2. off[room] = Grace /\ room \in m.streams \ m.pinnedRooms
    BY <1>2, <1>4
  <2> QED BY <2>1, <2>2, ReleaseTurn
<1>5. CASE room \in m.streams \ m.pinnedRooms /\ Since(age) # Grace
  <2> DEFINE n == [m EXCEPT !.inactiveRooms[room] = Since(@)]
  <2>1. SyncInactive(m, room) = n
    BY <1>5, Zenon DEF SyncInactive
  <2>2. /\ n \in Manager /\ n.streams = m.streams /\ n.pinnedRooms = m.pinnedRooms
        /\ n.missingRooms = m.missingRooms
        /\ n.inactiveRooms = [m.inactiveRooms EXCEPT ![room] = Since(age)]
    BY <1>1, <1>2 DEF Manager
  <2> HIDE DEF n
  <2>3. OthersKept(m, n, room) /\ TimelyAt(n, room, off)
    BY <1>1, <1>2, <2>2, ManagerFields DEF OthersKept, TimelyAt
  <2> QED BY <1>5, <2>1, <2>2, <2>3, TimerTurn
<1> QED BY <1>3, <1>4, <1>5

(* A room seen connected has no timer left. *)
LEMMA ConnectedTurn ==
  ASSUME NEW m, Sound(m), NEW room \in Rooms, NEW off, m.missingRooms[room] = Unset
  PROVE  /\ Turn(m, SyncConnected(m, room), room, off)
         /\ NoTimer(SyncConnected(m, room), room)
<1> DEFINE n == SyncConnected(m, room)
<1>1. m \in Manager
  BY DEF Sound
<1>2. CASE room \in m.streams
  <2>1. n = [m EXCEPT !.inactiveRooms[room] = Unset]
    BY <1>2 DEF SyncConnected
  <2>2. /\ n \in Manager /\ n.streams = m.streams /\ n.pinnedRooms = m.pinnedRooms
        /\ n.missingRooms = m.missingRooms
        /\ n.inactiveRooms = [m.inactiveRooms EXCEPT ![room] = Unset]
    BY <1>1, <2>1, SomeAges DEF Manager
  <2> HIDE DEF n
  <2>3. OthersKept(m, n, room) /\ NoTimer(n, room)
    BY <1>1, <2>2, ManagerFields DEF OthersKept, NoTimer
  <2>4. TimelyAt(n, room, off)
    BY <2>3 DEF TimelyAt, NoTimer
  <2>5. Turn(m, n, room, off)
    BY <2>2, <2>3, <2>4, TimerTurn
  <2> QED BY <2>3, <2>5 DEF n
<1>3. CASE room \notin m.streams
  <2>1. n = AddStream(m, room)
    BY <1>3 DEF SyncConnected
  <2>2. /\ Sound(n) /\ n.pinnedRooms = m.pinnedRooms /\ m.streams \subseteq n.streams
        /\ n.streams \subseteq m.streams \cup {room}
        /\ NoTimer(n, room) /\ OthersKept(m, n, room)
    BY <2>1, AddStreamDoes
  <2> HIDE DEF n
  <2>3. Turn(m, n, room, off)
    BY <2>2 DEF Turn, TimelyAt, NoTimer
  <2> QED BY <2>2, <2>3 DEF n
<1> QED BY <1>2, <1>3

LEMMA TurnThenTurn ==
  ASSUME NEW m, NEW n, NEW k, NEW room \in Rooms, NEW off,
         Turn(m, n, room, off), Turn(n, k, room, off)
  PROVE  Turn(m, k, room, off)
BY DEF Turn, OthersKept

LEMMA ListedTurn ==
  ASSUME NEW m, Sound(m), NEW room \in Rooms, NEW status \in Status,
         NEW off \in [Rooms -> 0..Grace], TimelyAt(m, room, off)
  PROVE  /\ Turn(m, SyncListed(m, room, status), room, off)
         /\ status = "connected" => NoTimer(SyncListed(m, room, status), room)
<1> DEFINE n == [m EXCEPT !.missingRooms[room] = Unset]
<1>1. m \in Manager
  BY DEF Sound
<1>2. /\ n \in Manager /\ n.streams = m.streams /\ n.pinnedRooms = m.pinnedRooms
      /\ n.missingRooms = [m.missingRooms EXCEPT ![room] = Unset]
      /\ n.inactiveRooms = m.inactiveRooms
  BY <1>1, SomeAges DEF Manager
<1>3. SyncListed(m, room, status) =
        IF status = "absent" THEN m
        ELSE IF status = "connected" THEN SyncConnected(n, room) ELSE SyncInactive(n, room)
  BY Zenon DEF SyncListed
<1> HIDE DEF n
<1>4. /\ OthersKept(m, n, room) /\ TimelyAt(n, room, off)
      /\ room \in m.streams \/ NoTimer(n, room)
      /\ n.missingRooms[room] = Unset
  BY <1>1, <1>2, ManagerFields DEF OthersKept, TimelyAt, NoTimer, Sound
<1>5. Turn(m, n, room, off) /\ Sound(n)
  BY <1>2, <1>4, TimerTurn DEF Turn
<1>6. CASE status = "absent"
  BY <1>3, <1>6, TurnOfNothing
<1>7. CASE status = "connected"
  <2>1. Turn(n, SyncConnected(n, room), room, off) /\ NoTimer(SyncConnected(n, room), room)
    BY <1>4, <1>5, ConnectedTurn
  <2> QED BY <1>3, <1>5, <1>7, <2>1, TurnThenTurn
<1>8. CASE status = "inactive"
  <2>1. Turn(n, SyncInactive(n, room), room, off)
    BY <1>4, <1>5, InactiveTurn
  <2> QED BY <1>3, <1>5, <1>8, <2>1, TurnThenTurn
<1> QED BY <1>6, <1>7, <1>8 DEF Status

-----------------------------------------------------------------------------
(* The loops *)

(* The loop invariant: n is what syncRooms has made of m, and the connected
   rooms among the first k have no timer. *)
InLoop(m, n, listing, off, k) ==
  /\ Sound(n)
  /\ n.pinnedRooms = m.pinnedRooms
  /\ Timely(n, off)
  /\ \A x \in m.streams \ n.streams : x \notin m.pinnedRooms /\ off[x] = Grace
  /\ \A j \in 1..k : listing[Order[j]] = "connected" => NoTimer(n, Order[j])

(* The recursive functions inside SyncRooms. *)
ListedLoop(m, listing) ==
  CHOOSE f : f = [i \in 0..Len(Order) |->
    IF i = 0 THEN m ELSE SyncListed(f[i - 1], Order[i], listing[Order[i]])]

MissingLoop(m, listing) ==
  CHOOSE f : f = [i \in 0..Len(Order) |->
    IF i = 0 THEN m ELSE SyncMissing(f[i - 1], Order[i], listing[Order[i]])]

LEMMA SyncRoomsLoops ==
  ASSUME NEW m, NEW listing
  PROVE  SyncRooms(m, listing) =
           MissingLoop(ListedLoop(m, listing)[Len(Order)], listing)[Len(Order)]
BY DEF SyncRooms, ListedLoop, MissingLoop

LEMMA OrderTyped ==
  /\ Len(Order) \in Nat
  /\ \A i \in 1..Len(Order) : Order[i] \in Rooms
  /\ \A room \in Rooms : \E i \in 1..Len(Order) : room = Order[i]
<1>1. Order \in Seq(Rooms)
  BY ManagerAssumption
<1>2. Len(Order) \in Nat /\ DOMAIN Order = 1..Len(Order)
  BY <1>1
<1> QED BY <1>1, <1>2 DEF Rooms, Range

LEMMA TurnKeepsLoop ==
  ASSUME NEW m, NEW n, NEW p, NEW listing, NEW off, NEW k \in Nat, NEW room \in Rooms,
         k <= Len(Order), InLoop(m, n, listing, off, k), Turn(n, p, room, off),
         listing[room] = "connected" /\ NoTimer(n, room) => NoTimer(p, room)
  PROVE  InLoop(m, p, listing, off, k)
<1>1. Sound(p) /\ p.pinnedRooms = m.pinnedRooms
  BY DEF InLoop, Turn
<1>2. Timely(p, off)
  BY DEF InLoop, Turn, Timely, TimelyAt, OthersKept
<1>3. ASSUME NEW x \in m.streams \ p.streams
      PROVE  x \notin m.pinnedRooms /\ off[x] = Grace
  BY <1>3 DEF InLoop, Turn
<1>4. ASSUME NEW j \in 1..k, listing[Order[j]] = "connected"
      PROVE  NoTimer(p, Order[j])
  <2>1. Order[j] \in Rooms /\ NoTimer(n, Order[j])
    BY <1>4, OrderTyped DEF InLoop
  <2>2. CASE Order[j] = room
    BY <1>4, <2>1, <2>2
  <2>3. CASE Order[j] # room
    BY <2>1, <2>3 DEF Turn, OthersKept, NoTimer
  <2> QED BY <2>2, <2>3
<1> QED BY <1>1, <1>2, <1>3, <1>4 DEF InLoop

LEMMA TurnKeepsTimely ==
  ASSUME NEW m, NEW n, NEW room \in Rooms, NEW off, Timely(m, off), Turn(m, n, room, off)
  PROVE  Timely(n, off) /\ Sound(n)
BY DEF Turn, Timely, TimelyAt, OthersKept

LEMMA ListedLoopExists ==
  ASSUME NEW m, Sound(m), NEW listing \in Listing,
         NEW off \in [Rooms -> 0..Grace], Timely(m, off)
  PROVE  ListedLoop(m, listing) = [i \in 0..Len(Order) |->
           IF i = 0 THEN m
           ELSE SyncListed(ListedLoop(m, listing)[i - 1], Order[i], listing[Order[i]])]
<1> DEFINE S == {n \in Manager : Sound(n) /\ Timely(n, off)}
           g == [i \in 1..Len(Order) |->
                   [n \in S |-> SyncListed(n, Order[i], listing[Order[i]])]]
<1>1. ASSUME NEW i \in 1..Len(Order), NEW n \in S
      PROVE  SyncListed(n, Order[i], listing[Order[i]]) \in S
  <2>1. Order[i] \in Rooms /\ listing[Order[i]] \in Status /\ TimelyAt(n, Order[i], off)
    BY OrderTyped DEF Listing, Timely
  <2>2. Turn(n, SyncListed(n, Order[i], listing[Order[i]]), Order[i], off)
    BY <2>1, ListedTurn
  <2>3. /\ Sound(SyncListed(n, Order[i], listing[Order[i]]))
        /\ Timely(SyncListed(n, Order[i], listing[Order[i]]), off)
    BY <2>1, <2>2, TurnKeepsTimely
  <2> QED BY <2>3 DEF Sound
<1>2. m \in S
  BY DEF Sound
<1> HIDE DEF S
<1>3. g \in [1..Len(Order) -> [S -> S]]
  BY <1>1
<1>4. PICK f \in [0..Len(Order) -> S] :
        f[0] = m /\ \A i \in 1..Len(Order) : f[i] = g[i][f[i - 1]]
  <2> HIDE DEF g
  <2>1. Len(Order) \in Nat
    BY OrderTyped
  <2>2. LoopRuns(Len(Order), S, m, g)
    BY <1>2, <1>3, <2>1, LoopExists
  <2> QED BY <2>2 DEF LoopRuns
<1>5. \A i \in 1..Len(Order) : f[i] = SyncListed(f[i - 1], Order[i], listing[Order[i]])
  <2>1. \A i \in 1..Len(Order) : f[i - 1] \in S
    BY <1>4, OrderTyped
  <2> QED BY <1>4, <2>1
<1>6. f = [i \in 0..Len(Order) |->
             IF i = 0 THEN m ELSE SyncListed(f[i - 1], Order[i], listing[Order[i]])]
  BY <1>4, <1>5, OrderTyped
<1> QED BY <1>6, Zenon DEF ListedLoop

(* The first loop keeps its invariant, and passes every room. *)
LEMMA ListedLoopDoes ==
  ASSUME NEW m, Sound(m), NEW listing \in Listing,
         NEW off \in [Rooms -> 0..Grace], Timely(m, off)
  PROVE  InLoop(m, ListedLoop(m, listing)[Len(Order)], listing, off, Len(Order))
<1> DEFINE f == ListedLoop(m, listing)
           J == [i \in 0..Len(Order) |-> {n \in Manager : InLoop(m, n, listing, off, i)}]
<1>1. f[0] = m /\ \A i \in 1..Len(Order) :
        f[i] = SyncListed(f[i - 1], Order[i], listing[Order[i]])
  <2> HIDE DEF f
  <2>1. f = [i \in 0..Len(Order) |->
               IF i = 0 THEN m ELSE SyncListed(f[i - 1], Order[i], listing[Order[i]])]
    BY ListedLoopExists, Zenon DEF f
  <2> QED BY <2>1, OrderTyped
<1> HIDE DEF f
<1>2. f[0] \in J[0]
  BY <1>1, OrderTyped DEF InLoop, Sound
<1>3. ASSUME NEW i \in 1..Len(Order), f[i - 1] \in J[i - 1]
      PROVE  f[i] \in J[i]
  <2> DEFINE n == f[i - 1]
             p == SyncListed(n, Order[i], listing[Order[i]])
             k == i - 1
  <2>1. k \in Nat /\ k <= Len(Order) /\ InLoop(m, n, listing, off, k)
    BY <1>3, OrderTyped
  <2>2. Order[i] \in Rooms /\ listing[Order[i]] \in Status /\ Sound(n) /\ TimelyAt(n, Order[i], off)
    BY <2>1, OrderTyped DEF InLoop, Listing, Timely
  <2>3. /\ Turn(n, p, Order[i], off)
        /\ listing[Order[i]] = "connected" => NoTimer(p, Order[i])
    BY <2>2, ListedTurn, Zenon
  <2> HIDE DEF n, p
  <2>4. InLoop(m, p, listing, off, k)
    BY <2>1, <2>2, <2>3, TurnKeepsLoop
  <2>5. InLoop(m, p, listing, off, i)
    BY <2>3, <2>4 DEF InLoop
  <2>6. p \in Manager /\ f[i] = p
    BY <1>1, <2>5 DEF InLoop, Sound, n, p
  <2> QED BY <2>5, <2>6, OrderTyped
<1> HIDE DEF J
<1>4. f[Len(Order)] \in J[Len(Order)]
  BY <1>2, <1>3, OrderTyped, LoopInvariant
<1>5. J[Len(Order)] = {n \in Manager : InLoop(m, n, listing, off, Len(Order))}
  BY OrderTyped DEF J
<1>6. InLoop(m, f[Len(Order)], listing, off, Len(Order))
  BY <1>4, <1>5
<1> QED BY <1>6, Zenon DEF f

LEMMA MissingLoopExists ==
  ASSUME NEW m, Sound(m), NEW listing \in Listing,
         NEW off \in [Rooms -> 0..Grace], Timely(m, off)
  PROVE  MissingLoop(m, listing) = [i \in 0..Len(Order) |->
           IF i = 0 THEN m
           ELSE SyncMissing(MissingLoop(m, listing)[i - 1], Order[i], listing[Order[i]])]
<1> DEFINE S == {n \in Manager : Sound(n) /\ Timely(n, off)}
           g == [i \in 1..Len(Order) |->
                   [n \in S |-> SyncMissing(n, Order[i], listing[Order[i]])]]
<1>1. ASSUME NEW i \in 1..Len(Order), NEW n \in S
      PROVE  SyncMissing(n, Order[i], listing[Order[i]]) \in S
  <2>1. Order[i] \in Rooms /\ listing[Order[i]] \in Status /\ TimelyAt(n, Order[i], off)
    BY OrderTyped DEF Listing, Timely
  <2>2. Turn(n, SyncMissing(n, Order[i], listing[Order[i]]), Order[i], off)
    BY <2>1, MissingTurn
  <2>3. /\ Sound(SyncMissing(n, Order[i], listing[Order[i]]))
        /\ Timely(SyncMissing(n, Order[i], listing[Order[i]]), off)
    BY <2>1, <2>2, TurnKeepsTimely
  <2> QED BY <2>3 DEF Sound
<1>2. m \in S
  BY DEF Sound
<1> HIDE DEF S
<1>3. g \in [1..Len(Order) -> [S -> S]]
  BY <1>1
<1>4. PICK f \in [0..Len(Order) -> S] :
        f[0] = m /\ \A i \in 1..Len(Order) : f[i] = g[i][f[i - 1]]
  <2> HIDE DEF g
  <2>1. Len(Order) \in Nat
    BY OrderTyped
  <2>2. LoopRuns(Len(Order), S, m, g)
    BY <1>2, <1>3, <2>1, LoopExists
  <2> QED BY <2>2 DEF LoopRuns
<1>5. \A i \in 1..Len(Order) : f[i] = SyncMissing(f[i - 1], Order[i], listing[Order[i]])
  <2>1. \A i \in 1..Len(Order) : f[i - 1] \in S
    BY <1>4, OrderTyped
  <2> QED BY <1>4, <2>1
<1>6. f = [i \in 0..Len(Order) |->
             IF i = 0 THEN m ELSE SyncMissing(f[i - 1], Order[i], listing[Order[i]])]
  BY <1>4, <1>5, OrderTyped
<1> QED BY <1>6, Zenon DEF MissingLoop

(* The second loop touches no listed room, so it keeps what the first one did. *)
LEMMA MissingLoopDoes ==
  ASSUME NEW m, NEW q, NEW listing \in Listing, NEW off \in [Rooms -> 0..Grace],
         InLoop(m, q, listing, off, Len(Order))
  PROVE  InLoop(m, MissingLoop(q, listing)[Len(Order)], listing, off, Len(Order))
<1> DEFINE f == MissingLoop(q, listing)
           J == [i \in 0..Len(Order) |-> {n \in Manager : InLoop(m, n, listing, off, Len(Order))}]
<1>1. f[0] = q /\ \A i \in 1..Len(Order) :
        f[i] = SyncMissing(f[i - 1], Order[i], listing[Order[i]])
  <2> HIDE DEF f
  <2>1. Sound(q) /\ Timely(q, off)
    BY DEF InLoop
  <2>2. f = [i \in 0..Len(Order) |->
               IF i = 0 THEN q ELSE SyncMissing(f[i - 1], Order[i], listing[Order[i]])]
    BY <2>1, MissingLoopExists, Zenon DEF f
  <2> QED BY <2>2, OrderTyped
<1> HIDE DEF f
<1>2. f[0] \in J[0]
  BY <1>1, OrderTyped DEF InLoop, Sound
<1>3. ASSUME NEW i \in 1..Len(Order), f[i - 1] \in J[i - 1]
      PROVE  f[i] \in J[i]
  <2> DEFINE n == f[i - 1]
             p == SyncMissing(n, Order[i], listing[Order[i]])
  <2>1. InLoop(m, n, listing, off, Len(Order)) /\ Len(Order) \in Nat
    BY <1>3, OrderTyped
  <2>2. Order[i] \in Rooms /\ listing[Order[i]] \in Status /\ Sound(n) /\ TimelyAt(n, Order[i], off)
    BY <2>1, OrderTyped DEF InLoop, Listing, Timely
  <2>3. Turn(n, p, Order[i], off)
    BY <2>2, MissingTurn, Zenon
  <2>4. listing[Order[i]] = "connected" => p = n
    BY DEF SyncMissing
  <2> HIDE DEF n, p
  <2>5. InLoop(m, p, listing, off, Len(Order))
    BY <2>1, <2>2, <2>3, <2>4, TurnKeepsLoop
  <2>6. p \in Manager /\ f[i] = p
    BY <1>1, <2>5 DEF InLoop, Sound, n, p
  <2> QED BY <2>5, <2>6, OrderTyped
<1> HIDE DEF J
<1>4. f[Len(Order)] \in J[Len(Order)]
  BY <1>2, <1>3, OrderTyped, LoopInvariant
<1>5. J[Len(Order)] = {n \in Manager : InLoop(m, n, listing, off, Len(Order))}
  BY OrderTyped DEF J
<1>6. InLoop(m, f[Len(Order)], listing, off, Len(Order))
  BY <1>4, <1>5
<1> QED BY <1>6, Zenon DEF f

(* A sync releases no stream early, keeps the limit, and leaves no timer to a
   connected room. *)
LEMMA SyncRoomsDoes ==
  ASSUME NEW m, Sound(m), NEW listing \in Listing,
         NEW off \in [Rooms -> 0..Grace], Timely(m, off)
  PROVE  InLoop(m, SyncRooms(m, listing), listing, off, Len(Order))
BY SyncRoomsLoops, ListedLoopDoes, MissingLoopDoes, Zenon

-----------------------------------------------------------------------------
(* What a sync makes of one room *)

(* n has of the room what m has. *)
SameAt(m, n, room) ==
  /\ room \in n.streams <=> room \in m.streams
  /\ room \in n.pinnedRooms <=> room \in m.pinnedRooms
  /\ n.missingRooms[room] = m.missingRooms[room]
  /\ n.inactiveRooms[room] = m.inactiveRooms[room]

(* The timer that was `old' runs on, and has time left. *)
RunsOn(old, new) == new = Since(old) /\ new # Grace

(* If the room's stream is left, its timer of that status runs on. *)
TimedAt(m, n, room, status) ==
  room \in n.streams \ n.pinnedRooms =>
    /\ status = "inactive" => RunsOn(m.inactiveRooms[room], n.inactiveRooms[room])
    /\ status = "absent" => RunsOn(m.missingRooms[room], n.missingRooms[room])

LEMMA SinceSince ==
  ASSUME NEW age
  PROVE  Since(Since(age)) = Since(age)
BY SomeAges DEF Since

LEMMA TurnElsewhere ==
  ASSUME NEW m, NEW n, NEW p, NEW room \in Rooms, NEW x \in Rooms, x # room, NEW off,
         Turn(n, p, x, off)
  PROVE  SameAt(n, p, room)
BY DEF Turn, SameAt, OthersKept

LEMMA SameThenSame ==
  ASSUME NEW m, NEW n, NEW p, NEW room, SameAt(n, p, room)
  PROVE  /\ SameAt(m, n, room) => SameAt(m, p, room)
         /\ \A status \in Status : TimedAt(m, n, room, status) => TimedAt(m, p, room, status)
BY DEF SameAt, TimedAt

(* SyncInactive goes on with the room's timer, or releases its stream. *)
LEMMA InactiveTimes ==
  ASSUME NEW m, NEW n, Sound(n), NEW room \in Rooms,
         SameAt(m, n, room) \/ TimedAt(m, n, room, "inactive")
  PROVE  TimedAt(m, SyncListed(n, room, "inactive"), room, "inactive")
<1> DEFINE k == [n EXCEPT !.missingRooms[room] = Unset]
           p == SyncInactive(k, room)
<1>1. SyncListed(n, room, "inactive") = p
  BY Zenon DEF SyncListed
<1>2. /\ n \in Manager /\ k \in Manager /\ k.streams = n.streams
      /\ k.pinnedRooms = n.pinnedRooms /\ k.inactiveRooms = n.inactiveRooms
      /\ room \notin k.streams => NoTimer(k, room)
  BY SomeAges DEF Sound, Manager, NoTimer
<1>3. Sound(k)
  BY <1>2, SomeAges DEF Sound, Manager
<1> HIDE DEF k
<1>4. CASE room \notin k.streams \ k.pinnedRooms
  <2>1. p = k
    BY <1>4 DEF SyncInactive
  <2> QED BY <1>1, <1>4, <2>1 DEF TimedAt
<1>5. CASE room \in k.streams \ k.pinnedRooms /\ Since(k.inactiveRooms[room]) = Grace
  <2>1. p = RemoveStream(k, room)
    BY <1>5 DEF SyncInactive
  <2>2. room \notin p.streams
    BY <1>3, <2>1, RemoveStreamDoes
  <2> QED BY <1>1, <2>2 DEF TimedAt
<1>6. CASE room \in k.streams \ k.pinnedRooms /\ Since(k.inactiveRooms[room]) # Grace
  <2>1. p = [k EXCEPT !.inactiveRooms[room] = Since(@)]
    BY <1>6, Zenon DEF SyncInactive
  <2>2. p.inactiveRooms[room] = Since(n.inactiveRooms[room])
    BY <1>2, <2>1, ManagerFields DEF Manager
  <2>3. Since(n.inactiveRooms[room]) = Since(m.inactiveRooms[room])
    BY <1>2, <1>6, SinceSince DEF SameAt, TimedAt, RunsOn
  <2>4. Since(n.inactiveRooms[room]) # Grace
    BY <1>2, <1>6
  <2> QED BY <1>1, <2>2, <2>3, <2>4 DEF TimedAt, RunsOn
<1> QED BY <1>4, <1>5, <1>6

LEMMA AbsentTimes ==
  ASSUME NEW m, NEW n, Sound(n), NEW room \in Rooms,
         SameAt(m, n, room) \/ TimedAt(m, n, room, "absent")
  PROVE  TimedAt(m, SyncMissing(n, room, "absent"), room, "absent")
<1> DEFINE p == SyncMissing(n, room, "absent")
<1>1. n \in Manager /\ n.missingRooms \in [Rooms -> Age]
  BY ManagerFields DEF Sound
<1>2. CASE room \notin n.streams \ n.pinnedRooms
  <2>1. p = n
    BY <1>2 DEF SyncMissing
  <2> QED BY <1>2, <2>1 DEF TimedAt
<1>3. CASE room \in n.streams \ n.pinnedRooms /\ Since(n.missingRooms[room]) = Grace
  <2>1. p = RemoveStream(n, room)
    BY <1>3 DEF SyncMissing
  <2>2. room \notin p.streams
    BY <2>1, RemoveStreamDoes
  <2> QED BY <2>2 DEF TimedAt
<1>4. CASE room \in n.streams \ n.pinnedRooms /\ Since(n.missingRooms[room]) # Grace
  <2>1. p = [n EXCEPT !.missingRooms[room] = Since(@), !.inactiveRooms[room] = Unset]
    BY <1>4, Zenon DEF SyncMissing
  <2>2. p.missingRooms[room] = Since(n.missingRooms[room])
    BY <1>1, <2>1 DEF Manager
  <2>3. Since(n.missingRooms[room]) = Since(m.missingRooms[room])
    BY <1>4, SinceSince DEF SameAt, TimedAt, RunsOn
  <2> QED BY <1>4, <2>2, <2>3 DEF TimedAt, RunsOn
<1> QED BY <1>2, <1>3, <1>4

(* The loop f does D at the room's turn, keeps what it has before it (A), and
   keeps what it has done. *)
TurnsReach(f, A, D, room) ==
  \A i \in 1..Len(Order) :
    IF Order[i] = room THEN f[i - 1] \in A \cup D => f[i] \in D
    ELSE /\ f[i - 1] \in A => f[i] \in A
         /\ f[i - 1] \in D => f[i] \in D

LEMMA LoopReaches ==
  ASSUME NEW f, NEW A, NEW D, NEW room \in Rooms, f[0] \in A, TurnsReach(f, A, D, room)
  PROVE  f[Len(Order)] \in D
<1> USE DEF TurnsReach
<1> DEFINE Passed(i) == \E k \in 1..i : Order[k] = room
           J == [i \in 0..Len(Order) |-> IF Passed(i) THEN D ELSE A]
<1>1. Len(Order) \in Nat /\ Passed(Len(Order))
  BY OrderTyped
<1>2. f[0] \in J[0]
  BY <1>1
<1>3. ASSUME NEW i \in 1..Len(Order), f[i - 1] \in J[i - 1]
      PROVE  f[i] \in J[i]
  <2>1. i \in 0..Len(Order) /\ i - 1 \in 0..Len(Order)
    BY <1>1
  <2>2. J[i] = (IF Passed(i) THEN D ELSE A) /\ J[i - 1] = (IF Passed(i - 1) THEN D ELSE A)
    BY <2>1
  <2> HIDE DEF J
  <2>3. Passed(i) <=> Passed(i - 1) \/ Order[i] = room
    BY <1>1
  <2> HIDE DEF Passed
  <2> QED BY <1>3, <2>2, <2>3
<1> HIDE DEF J
<1>4. f[Len(Order)] \in J[Len(Order)]
  BY <1>1, <1>2, <1>3, LoopInvariant
<1>5. J[Len(Order)] = D
  BY <1>1 DEF J
<1> QED BY <1>4, <1>5

(* What the loops may assume of a manager, and keep. *)
Fit(n, off) == Sound(n) /\ Timely(n, off)

Untouched(m, room, off) == {n \in Manager : Fit(n, off) /\ SameAt(m, n, room)}
TimerSet(m, room, status, off) ==
  {n \in Manager : Fit(n, off) /\ TimedAt(m, n, room, status)}

LEMMA TurnKeepsSets ==
  ASSUME NEW m, NEW n, NEW p, NEW room \in Rooms, NEW x \in Rooms, NEW off,
         NEW status \in Status, Fit(n, off), Turn(n, p, x, off), x # room \/ p = n
  PROVE  /\ n \in Untouched(m, room, off) => p \in Untouched(m, room, off)
         /\ n \in TimerSet(m, room, status, off) => p \in TimerSet(m, room, status, off)
<1>1. Fit(p, off) /\ p \in Manager
  BY TurnKeepsTimely DEF Fit, Sound
<1>2. SameAt(n, p, room)
  <2>1. CASE p = n
    BY <2>1 DEF SameAt
  <2>2. CASE x # room
    BY <2>2, TurnElsewhere
  <2> QED BY <2>1, <2>2
<1> QED BY <1>1, <1>2, SameThenSame DEF Untouched, TimerSet

LEMMA ListedLoopTimes ==
  ASSUME NEW m, NEW listing \in Listing, NEW room \in Rooms,
         NEW off \in [Rooms -> 0..Grace], Fit(m, off)
  PROVE  LET q == ListedLoop(m, listing)[Len(Order)] IN
           /\ listing[room] = "inactive" => q \in TimerSet(m, room, "inactive", off)
           /\ listing[room] = "absent" => q \in Untouched(m, room, off)
<1> DEFINE f == ListedLoop(m, listing)
           A == Untouched(m, room, off)
           D == TimerSet(m, room, "inactive", off)
<1>1. f[0] = m /\ \A i \in 1..Len(Order) :
        f[i] = SyncListed(f[i - 1], Order[i], listing[Order[i]])
  <2> HIDE DEF f
  <2>1. f = [i \in 0..Len(Order) |->
               IF i = 0 THEN m ELSE SyncListed(f[i - 1], Order[i], listing[Order[i]])]
    BY ListedLoopExists, Zenon DEF f, Fit
  <2> QED BY <2>1, OrderTyped, SMTT(20)
<1> HIDE DEF f
<1>2. f[0] \in A
  BY <1>1 DEF Untouched, Fit, Sound, SameAt
<1>3. ASSUME NEW i \in 1..Len(Order), f[i - 1] \in A \cup D
      PROVE  /\ Order[i] \in Rooms /\ listing[Order[i]] \in Status /\ Fit(f[i - 1], off)
             /\ Turn(f[i - 1], f[i], Order[i], off)
  <2>1. Order[i] \in Rooms /\ listing[Order[i]] \in Status
    BY OrderTyped DEF Listing
  <2>2. Fit(f[i - 1], off)
    BY <1>3 DEF Untouched, TimerSet
  <2>3. Sound(f[i - 1]) /\ TimelyAt(f[i - 1], Order[i], off)
    BY <2>1, <2>2 DEF Fit, Timely
  <2>4. Turn(f[i - 1], SyncListed(f[i - 1], Order[i], listing[Order[i]]), Order[i], off)
    BY <2>1, <2>3, ListedTurn
  <2> QED BY <1>1, <2>1, <2>2, <2>4
<1>4. ASSUME NEW i \in 1..Len(Order), Order[i] # room
      PROVE  (f[i - 1] \in A => f[i] \in A) /\ (f[i - 1] \in D => f[i] \in D)
  <2>1. "inactive" \in Status
    BY DEF Status
  <2> QED BY <1>3, <1>4, <2>1, TurnKeepsSets
<1>5. CASE listing[room] = "inactive"
  <2>1. ASSUME NEW i \in 1..Len(Order), Order[i] = room, f[i - 1] \in A \cup D
        PROVE  f[i] \in D
    <3>1. Sound(f[i - 1]) /\ (SameAt(m, f[i - 1], room) \/ TimedAt(m, f[i - 1], room, "inactive"))
      BY <2>1 DEF Untouched, TimerSet, Fit
    <3>2. f[i] = SyncListed(f[i - 1], room, "inactive")
      BY <1>1, <1>5, <2>1
    <3>3. TimedAt(m, f[i], room, "inactive")
      BY <3>1, <3>2, InactiveTimes
    <3>4. Fit(f[i], off)
      BY <1>3, <2>1, TurnKeepsTimely DEF Fit
    <3> QED BY <3>3, <3>4 DEF TimerSet, Fit, Sound
  <2> HIDE DEF A, D
  <2>2. TurnsReach(f, A, D, room)
    BY <1>4, <2>1 DEF TurnsReach
  <2>3. f[Len(Order)] \in D
    BY <1>2, <2>2, LoopReaches, Zenon
  <2> QED BY <1>5, <2>3 DEF f, D
<1>6. CASE listing[room] = "absent"
  <2> DEFINE J == [i \in 0..Len(Order) |-> A]
  <2>1. ASSUME NEW i \in 1..Len(Order), f[i - 1] \in A
        PROVE  f[i] \in A
    <3>1. CASE Order[i] # room
      BY <1>4, <2>1, <3>1
    <3>2. CASE Order[i] = room
      <4>1. f[i] = f[i - 1]
        BY <1>1, <1>6, <3>2 DEF SyncListed
      <4> QED BY <2>1, <4>1
    <3> QED BY <3>1, <3>2
  <2> HIDE DEF A
  <2>2. f[0] \in J[0] /\ \A i \in 1..Len(Order) : f[i - 1] \in J[i - 1] => f[i] \in J[i]
    BY <1>2, <2>1, OrderTyped
  <2>3. f[Len(Order)] \in J[Len(Order)]
    <3> HIDE DEF J
    <3> QED BY <2>2, OrderTyped, LoopInvariant
  <2>4. f[Len(Order)] \in A
    BY <2>3, OrderTyped
  <2> QED BY <1>6, <2>4 DEF f, A
<1>7. CASE listing[room] = "connected"
  BY <1>7
<1> QED BY <1>5, <1>6, <1>7 DEF Listing, Status

LEMMA MissingLoopTimes ==
  ASSUME NEW m, NEW q, NEW listing \in Listing, NEW room \in Rooms,
         NEW off \in [Rooms -> 0..Grace],
         listing[room] = "inactive" => q \in TimerSet(m, room, "inactive", off),
         listing[room] = "absent" => q \in Untouched(m, room, off),
         NEW status \in {"inactive", "absent"}, listing[room] = status
  PROVE  MissingLoop(q, listing)[Len(Order)] \in TimerSet(m, room, status, off)
<1> DEFINE f == MissingLoop(q, listing)
           A == IF status = "absent" THEN Untouched(m, room, off)
                ELSE TimerSet(m, room, status, off)
           D == TimerSet(m, room, status, off)
<1>1. q \in A /\ Fit(q, off)
  BY DEF Untouched, TimerSet
<1>2. f[0] = q /\ \A i \in 1..Len(Order) :
        f[i] = SyncMissing(f[i - 1], Order[i], listing[Order[i]])
  <2> HIDE DEF f, A
  <2>1. f = [i \in 0..Len(Order) |->
               IF i = 0 THEN q ELSE SyncMissing(f[i - 1], Order[i], listing[Order[i]])]
    BY <1>1, MissingLoopExists, Zenon DEF f, Fit
  <2> QED BY <2>1, OrderTyped
<1> HIDE DEF f
<1>3. ASSUME NEW i \in 1..Len(Order), f[i - 1] \in A \cup D
      PROVE  /\ Order[i] \in Rooms /\ Fit(f[i - 1], off)
             /\ Turn(f[i - 1], f[i], Order[i], off)
  <2>1. Order[i] \in Rooms /\ listing[Order[i]] \in Status
    BY OrderTyped DEF Listing
  <2>2. Fit(f[i - 1], off)
    BY <1>3 DEF Untouched, TimerSet
  <2>3. Sound(f[i - 1]) /\ TimelyAt(f[i - 1], Order[i], off)
    BY <2>1, <2>2 DEF Fit, Timely
  <2>4. Turn(f[i - 1], SyncMissing(f[i - 1], Order[i], listing[Order[i]]), Order[i], off)
    BY <2>1, <2>3, MissingTurn
  <2> QED BY <1>2, <2>1, <2>2, <2>4
<1>4. ASSUME NEW i \in 1..Len(Order), Order[i] # room
      PROVE  (f[i - 1] \in A => f[i] \in A) /\ (f[i - 1] \in D => f[i] \in D)
  <2>1. status \in Status
    BY DEF Status
  <2> QED BY <1>3, <1>4, <2>1, TurnKeepsSets
<1>5. ASSUME NEW i \in 1..Len(Order), Order[i] = room, f[i - 1] \in A \cup D
      PROVE  f[i] \in D
  <2>1. Fit(f[i], off) /\ Sound(f[i - 1])
    BY <1>3, <1>5, TurnKeepsTimely DEF Fit
  <2>2. f[i] = SyncMissing(f[i - 1], room, status)
    BY <1>2, <1>5
  <2>3. CASE status = "absent"
    <3>1. SameAt(m, f[i - 1], room) \/ TimedAt(m, f[i - 1], room, "absent")
      BY <1>5, <2>3 DEF Untouched, TimerSet
    <3>2. TimedAt(m, f[i], room, status)
      BY <2>1, <2>2, <2>3, <3>1, AbsentTimes
    <3> QED BY <2>1, <3>2 DEF TimerSet, Fit, Sound
  <2>4. CASE status = "inactive"
    <3>1. f[i] = f[i - 1] /\ f[i - 1] \in D
      BY <1>5, <2>2, <2>4 DEF SyncMissing
    <3> QED BY <3>1
  <2> QED BY <2>3, <2>4
<1> HIDE DEF A, D
<1>6. f[0] \in A
  BY <1>1, <1>2
<1>7. TurnsReach(f, A, D, room)
  BY <1>4, <1>5 DEF TurnsReach
<1>8. f[Len(Order)] \in D
  BY <1>6, <1>7, LoopReaches, Zenon
<1> QED BY <1>8 DEF f, D

LEMMA SyncRoomsTimes ==
  ASSUME NEW m, NEW listing \in Listing, NEW room \in Rooms,
         NEW off \in [Rooms -> 0..Grace], Fit(m, off)
  PROVE  TimedAt(m, SyncRooms(m, listing), room, listing[room])
<1> DEFINE q == ListedLoop(m, listing)[Len(Order)]
           n == SyncRooms(m, listing)
<1>1. n = MissingLoop(q, listing)[Len(Order)]
  BY SyncRoomsLoops, Zenon
<1>2. /\ listing[room] = "inactive" => q \in TimerSet(m, room, "inactive", off)
      /\ listing[room] = "absent" => q \in Untouched(m, room, off)
  BY ListedLoopTimes, Zenon
<1> HIDE DEF q, n
<1>3. ASSUME NEW status \in {"inactive", "absent"}, listing[room] = status
      PROVE  n \in TimerSet(m, room, status, off)
  BY <1>1, <1>2, <1>3, MissingLoopTimes
<1>4. CASE listing[room] = "connected"
  BY <1>4 DEF TimedAt, n
<1>5. CASE listing[room] \in {"inactive", "absent"}
  BY <1>3, <1>5 DEF TimerSet, n
<1> QED BY <1>4, <1>5 DEF Listing, Status

-----------------------------------------------------------------------------
(* The steps *)

LEMMA Parts ==
  IInv <=> /\ directory \in Listing
           /\ Sound(manager)
           /\ sessions \in 0..MaxSessions /\ autoAdd \in 0..sessions
           /\ fetches \in [1..MaxSessions ->
                {NoFetch, Sent} \cup {Answered(listing) : listing \in Listing}]
           /\ failures \in Nat
           /\ offFor \in [Rooms -> 0..Grace]
           /\ Timely(manager, offFor)
BY DEF IInv, TypeOK, Sound

(* No stream is released that should not be. *)
Kept == \A room \in manager.streams \ manager'.streams :
          room \notin manager.pinnedRooms /\ offFor[room] = Grace

LEMMA ApplyStep ==
  ASSUME IInv, NEW s \in 1..MaxSessions, ApplyAnswer(s)
  PROVE  IInv' /\ Kept
<1>1. PICK listing \in Listing : fetches[s] = Answered(listing)
  <2>1. fetches[s] \in {NoFetch, Sent} \cup {Answered(listing) : listing \in Listing}
    BY DEF IInv, TypeOK
  <2>2. fetches[s].phase = "answered"
    BY DEF ApplyAnswer
  <2>3. fetches[s] # NoFetch /\ fetches[s] # Sent
    BY <2>2 DEF NoFetch, Sent
  <2> QED BY <2>1, <2>3
<1>2. /\ manager' = SyncRooms(manager, listing)
      /\ offFor' = [room \in Rooms |-> IF listing[room] = "connected" THEN 0 ELSE offFor[room]]
      /\ fetches' = [fetches EXCEPT ![s] = NoFetch]
      /\ UNCHANGED <<directory, autoAdd, sessions, failures>>
  <2>1. fetches[s].rooms = listing
    BY <1>1 DEF Answered
  <2> QED BY <2>1 DEF ApplyAnswer
<1>3. Sound(manager) /\ offFor \in [Rooms -> 0..Grace] /\ Timely(manager, offFor)
  BY Parts
<1>4. InLoop(manager, manager', listing, offFor, Len(Order))
  BY <1>2, <1>3, SyncRoomsDoes, Zenon
<1>5. Kept
  BY <1>4 DEF InLoop, Kept
<1>6. offFor' \in [Rooms -> 0..Grace]
  BY <1>2, <1>3, SomeAges
<1>7. Timely(manager', offFor')
  <2> SUFFICES ASSUME NEW room \in Rooms PROVE TimelyAt(manager', room, offFor')
    BY DEF Timely
  <2>1. TimelyAt(manager', room, offFor)
    BY <1>4 DEF InLoop, Timely
  <2>2. CASE listing[room] = "connected"
    <3>1. NoTimer(manager', room)
      BY <1>4, <2>2, OrderTyped DEF InLoop
    <3> QED BY <3>1 DEF NoTimer, TimelyAt
  <2>3. CASE listing[room] # "connected"
    <3>1. offFor'[room] = offFor[room]
      BY <1>2, <2>3
    <3> QED BY <2>1, <3>1 DEF TimelyAt
  <2> QED BY <2>2, <2>3
<1>8. Sound(manager')
  BY <1>4 DEF InLoop
<1>9. fetches' \in [1..MaxSessions ->
        {NoFetch, Sent} \cup {Answered(l) : l \in Listing}]
  BY <1>2 DEF IInv, TypeOK
<1>10. /\ directory' \in Listing /\ sessions' \in 0..MaxSessions
       /\ autoAdd' \in 0..sessions' /\ failures' \in Nat
  BY <1>2 DEF IInv, TypeOK
<1>11. TypeOK'
  BY <1>6, <1>8, <1>9, <1>10 DEF TypeOK, Sound
<1> QED BY <1>5, <1>7, <1>11 DEF IInv

LEMMA PinStep ==
  ASSUME IInv, NEW room \in Rooms, Pin(room)
  PROVE  IInv' /\ Kept
<1> DEFINE k == [manager EXCEPT !.pinnedRooms = @ \cup {room}]
<1>1. /\ manager \in Manager /\ Sound(manager) /\ Timely(manager, offFor)
      /\ manager.pinnedRooms \in SUBSET Rooms
  BY Parts, ManagerFields DEF Sound
<1>2. /\ k \in Manager /\ k.streams = manager.streams
      /\ k.missingRooms = manager.missingRooms /\ k.inactiveRooms = manager.inactiveRooms
  BY <1>1 DEF Manager
<1>3. manager' = AddStream(k, room)
  BY Zenon DEF Pin, AddPinnedStream
<1> HIDE DEF k
<1>4. Sound(k)
  BY <1>1, <1>2 DEF Sound
<1>5. /\ Sound(manager') /\ k.streams \subseteq manager'.streams
      /\ NoTimer(manager', room) /\ OthersKept(k, manager', room)
  BY <1>3, <1>4, AddStreamDoes
<1>6. Timely(manager', offFor)
  BY <1>1, <1>2, <1>5 DEF Timely, TimelyAt, NoTimer, OthersKept
<1>7. UNCHANGED <<directory, autoAdd, sessions, fetches, failures, offFor>>
  BY DEF Pin
<1>8. TypeOK'
  BY <1>5, <1>7 DEF IInv, TypeOK, Sound
<1>9. Timely(manager', offFor')
  BY <1>6, <1>7
<1>10. Kept
  BY <1>2, <1>5 DEF Kept
<1> QED BY <1>8, <1>9, <1>10 DEF IInv

LEMMA OlderAge ==
  ASSUME NEW age \in Age, NEW o \in 0..Grace
  PROVE  /\ Older(age) \in Age /\ Older(o) \in 0..Grace
         /\ Older(age) = Unset <=> age = Unset
         /\ age <= o => Older(age) <= Older(o)
BY SomeAges DEF Older, Age

LEMMA TickStep ==
  ASSUME IInv, Tick
  PROVE  IInv' /\ Kept
<1>1. /\ manager \in Manager /\ Sound(manager) /\ Timely(manager, offFor)
      /\ manager.missingRooms \in [Rooms -> Age] /\ manager.inactiveRooms \in [Rooms -> Age]
      /\ offFor \in [Rooms -> 0..Grace]
  BY Parts, ManagerFields DEF Sound
<1>2. /\ manager'.streams = manager.streams
      /\ manager'.missingRooms = [room \in Rooms |-> Older(manager.missingRooms[room])]
      /\ manager'.inactiveRooms = [room \in Rooms |-> Older(manager.inactiveRooms[room])]
      /\ offFor' = [room \in Rooms |-> Older(offFor[room])]
      /\ UNCHANGED <<directory, autoAdd, sessions, fetches, failures>>
  BY <1>1 DEF Tick, Manager
<1>3. offFor' \in [Rooms -> 0..Grace]
  BY <1>1, <1>2, SomeAges, OlderAge
<1>4. manager' \in Manager
  <2>1. /\ [room \in Rooms |-> Older(manager.missingRooms[room])] \in [Rooms -> Age]
        /\ [room \in Rooms |-> Older(manager.inactiveRooms[room])] \in [Rooms -> Age]
    BY <1>1, SomeAges, OlderAge
  <2>2. manager' = [manager EXCEPT
          !.missingRooms = [room \in Rooms |-> Older(manager.missingRooms[room])],
          !.inactiveRooms = [room \in Rooms |-> Older(manager.inactiveRooms[room])]]
    BY DEF Tick
  <2> QED BY <1>1, <2>1, <2>2, Zenon DEF Manager
<1>5. \A room \in Rooms : room \notin manager'.streams =>
        manager'.missingRooms[room] = Unset /\ manager'.inactiveRooms[room] = Unset
  BY <1>1, <1>2, SomeAges, OlderAge DEF Sound
<1>6. Sound(manager')
  BY <1>1, <1>2, <1>4, <1>5 DEF Sound
<1>7. Timely(manager', offFor')
  <2> SUFFICES ASSUME NEW room \in Rooms PROVE TimelyAt(manager', room, offFor')
    BY DEF Timely
  <2>1. /\ manager'.missingRooms[room] = Older(manager.missingRooms[room])
        /\ manager'.inactiveRooms[room] = Older(manager.inactiveRooms[room])
        /\ offFor'[room] = Older(offFor[room])
    BY <1>2
  <2>2. /\ manager.missingRooms[room] \in Age /\ manager.inactiveRooms[room] \in Age
        /\ offFor[room] \in 0..Grace
    BY <1>1
  <2>3. TimelyAt(manager, room, offFor)
    BY <1>1 DEF Timely
  <2> QED BY <2>1, <2>2, <2>3, OlderAge DEF TimelyAt
<1>8. TypeOK'
  BY <1>2, <1>3, <1>6 DEF IInv, TypeOK, Sound
<1>9. Kept
  BY <1>2 DEF Kept
<1> QED BY <1>7, <1>8, <1>9 DEF IInv

(* What starts and ends syncs leaves the manager alone. *)
LEMMA OtherStep ==
  ASSUME IInv,
         \/ StartAutoAdd \/ StopAutoAdd \/ IntervalFires
         \/ \E room \in Rooms : RoomChanges(room)
         \/ \E s \in 1..MaxSessions : GatewayAnswers(s) \/ FetchFails(s)
  PROVE  IInv' /\ Kept
<1>1. UNCHANGED <<manager, offFor>>
  BY DEF StartAutoAdd, StopAutoAdd, IntervalFires, RoomChanges, GatewayAnswers, FetchFails
<1>2. Timely(manager, offFor)' /\ Kept
  BY <1>1 DEF IInv, Timely, TimelyAt, Kept
<1>3. /\ MaxSessions \in Nat /\ sessions \in 0..MaxSessions /\ autoAdd \in 0..sessions
      /\ directory \in Listing /\ failures \in Nat
      /\ fetches \in [1..MaxSessions ->
           {NoFetch, Sent} \cup {Answered(listing) : listing \in Listing}]
  BY ManagerAssumption DEF IInv, TypeOK
<1>4. sessions' \in 0..MaxSessions /\ autoAdd' \in 0..sessions'
  BY <1>3 DEF StartAutoAdd, StopAutoAdd, IntervalFires, RoomChanges, GatewayAnswers, FetchFails
<1>5. directory' \in Listing
  BY <1>3 DEF StartAutoAdd, StopAutoAdd, IntervalFires, RoomChanges, GatewayAnswers, FetchFails,
              Listing
<1>6. failures' \in Nat
  BY <1>3 DEF StartAutoAdd, StopAutoAdd, IntervalFires, RoomChanges, GatewayAnswers, FetchFails
<1>7. fetches' \in [1..MaxSessions ->
        {NoFetch, Sent} \cup {Answered(listing) : listing \in Listing}]
  BY <1>3 DEF StartAutoAdd, StopAutoAdd, IntervalFires, RoomChanges, GatewayAnswers, FetchFails
<1>8. TypeOK'
  BY <1>1, <1>4, <1>5, <1>6, <1>7 DEF IInv, TypeOK
<1> QED BY <1>2, <1>8 DEF IInv

LEMMA InitInv == Init => IInv
<1> SUFFICES ASSUME Init PROVE IInv
  OBVIOUS
<1>1. Sound(manager)
  <2>1. /\ manager \in Manager /\ manager.streams = {}
        /\ manager.missingRooms = [room \in Rooms |-> Unset]
        /\ manager.inactiveRooms = [room \in Rooms |-> Unset]
    BY SomeAges DEF Init, Manager
  <2>2. Cardinality(manager.streams) = 0
    BY <2>1, FS_EmptySet
  <2> QED BY <2>1, <2>2, ManagerAssumption DEF Sound
<1>2. Timely(manager, offFor)
  BY DEF Init, Timely, TimelyAt
<1>3. TypeOK
  BY <1>1, SomeAges, ManagerAssumption DEF Init, TypeOK, Sound
<1> QED BY <1>2, <1>3 DEF IInv

LEMMA Step ==
  ASSUME IInv, [Next]_vars
  PROVE  IInv' /\ (Kept \/ UNCHANGED vars)
<1>1. CASE UNCHANGED vars
  BY <1>1 DEF IInv, TypeOK, Timely, TimelyAt, vars
<1> QED
  BY <1>1, ApplyStep, PinStep, TickStep, OtherStep DEF Next

-----------------------------------------------------------------------------
(* The theorems *)

(* However the fetches of overlapping syncs end, the timers measure what they
   say: IInv holds of every behaviour of the manager. *)
THEOREM Invariant == Spec => []IInv
<1>1. IInv /\ [Next]_vars => IInv'
  BY Step
<1> QED
  BY InitInv, <1>1, PTL DEF Spec

(* Never more than maxStreams streams, and no timer without its stream, in any
   interleaving of the user and of overlapping syncs. *)
THEOREM ManagerTypeCorrect == Spec => []TypeOK
<1>1. IInv => TypeOK
  BY DEF IInv
<1> QED
  BY Invariant, <1>1, PTL

(* A stream is released only if nobody pinned it and no sync of the last Grace
   ticks saw its producer connected, whatever order the answers of overlapping
   syncs are applied in. *)
THEOREM EarlyReleaseCorrect == Spec => NoEarlyRelease
<1>1. IInv /\ [Next]_vars =>
        [\A room \in manager.streams \ manager'.streams :
           room \notin manager.pinnedRooms /\ offFor[room] = Grace]_vars
  BY Step DEF Kept
<1> QED
  BY Invariant, <1>1, PTL DEF Spec, NoEarlyRelease

(* When a sync applies its answer, a stream nobody pinned of a room without
   producer is released, or the room's timer of that status runs on. *)
TimersRunOn ==
  [][\A s \in 1..MaxSessions : ApplyAnswer(s) =>
       \A room \in Rooms :
         TimedAt(manager, manager', room, fetches[s].rooms[room])]_vars

(* No sync starts a running timer again or leaves a stream whose timer has run
   for Grace, wherever the room is in the list and whatever the other rooms do:
   the step of the code that ReleasedWhileSyncing repeats. *)
THEOREM TimersRunOnCorrect == Spec => TimersRunOn
<1>1. ASSUME IInv, NEW s \in 1..MaxSessions, ApplyAnswer(s), NEW room \in Rooms
      PROVE  TimedAt(manager, manager', room, fetches[s].rooms[room])
  <2>1. PICK listing \in Listing : fetches[s].rooms = listing
    <3>1. fetches[s] \in {NoFetch, Sent} \cup {Answered(listing) : listing \in Listing}
      BY <1>1 DEF IInv, TypeOK
    <3>2. fetches[s].phase = "answered"
      BY <1>1 DEF ApplyAnswer
    <3>3. fetches[s] # NoFetch /\ fetches[s] # Sent
      BY <3>2 DEF NoFetch, Sent
    <3> QED BY <3>1, <3>3 DEF Answered
  <2>2. manager' = SyncRooms(manager, listing)
    BY <1>1, <2>1 DEF ApplyAnswer
  <2>3. Fit(manager, offFor) /\ offFor \in [Rooms -> 0..Grace]
    BY <1>1, Parts DEF Fit
  <2>4. TimedAt(manager, SyncRooms(manager, listing), room, listing[room])
    BY <2>3, SyncRoomsTimes
  <2> QED BY <2>1, <2>2, <2>4
<1>2. IInv /\ [Next]_vars =>
        [\A s \in 1..MaxSessions : ApplyAnswer(s) =>
           \A room \in Rooms :
             TimedAt(manager, manager', room, fetches[s].rooms[room])]_vars
  BY <1>1
<1> QED
  BY Invariant, <1>2, PTL DEF Spec, TimersRunOn
=============================================================================
