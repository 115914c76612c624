--------------------------- MODULE RoomRelayProofs --------------------------
(***************************************************************************)
(* What a Room's cache and channel promise a joining watcher, for any      *)
(* connections, watchers, capacities and number of frames.                 *)
(***************************************************************************)
EXTENDS RoomRelay, SequenceTheorems, FiniteSetTheorems, TLAPS

(* Only the newest connection can be the connected one; a generation is that
   of a connection made. *)
Generations ==
  /\ connectedGeneration \in {0, nextGeneration}
  /\ \A c \in Connections :
       cState[c] # "idle" => cGeneration[c] \in 1..nextGeneration

(* Every accepted frame came from a connection made so far. *)
FramesDated == \A i \in 1..Len(frames) : frames[i].generation \in 1..nextGeneration

(* A watcher subscribed to what was passed on; it has not looked into the
   cache before it is forwarding. *)
Joined ==
  \A w \in Watchers :
    /\ wJoin[w] \in 0..sent
    /\ wState[w] # "forwarding" => wGeneration[w] = 0 /\ wCached[w] = 0

(* The inductive invariant. *)
IInv ==
  /\ TypeOK
  /\ Generations
  /\ FramesDated
  /\ Joined
  /\ FencedGenerations
  /\ CacheIsNewestKeyframe
  /\ JoinMissesNoKeyframe

-----------------------------------------------------------------------------
(* The sum of a finite function.  SumFunction sums along a recursive        *)
(* function over the subsets of the domain; that it exists, and what it      *)
(* does, is shown by induction, as the absence of a smallest counterexample. *)

(* A set of numbers has a least one. *)
LEMMA LeastNumber ==
  ASSUME NEW T, T \subseteq Nat, T # {}
  PROVE \E n \in T : \A k \in T : n <= k
<1> DEFINE R == OpToRel(<, Nat)
<1>1. PICK n \in T : \A k \in T : ~ (<<k, n>> \in R)
  <2> HIDE DEF R
  <2>1. IsWellFoundedOn(R, Nat)
    BY NatLessThanWellFounded DEF R
  <2> QED BY <2>1, WFMin
<1>2. ASSUME NEW k \in T PROVE n <= k
  <2>1. ~ (<<k, n>> \in R) BY <1>1
  <2>2. n \in Nat /\ k \in Nat OBVIOUS
  <2>3. ~ (k < n) BY <2>1, <2>2 DEF OpToRel
  <2> QED BY <2>2, <2>3
<1> QED BY <1>2

(* The element that SumFunction takes next. *)
Pick(s) == CHOOSE x \in s : TRUE

(* g sums f over s, given the sums over the smaller sets. *)
SumStep(f, g, s) == IF s = {} THEN 0 ELSE f[Pick(s)] + g[s \ {Pick(s)}]

(* The recursive function inside SumFunction. *)
Sums(f, S) == CHOOSE g : g = [s \in SUBSET S |-> SumStep(f, g, s)]

(* SumFunction(f) is the last value of its recursive function. *)
LEMMA SumIsLast ==
  ASSUME NEW f
  PROVE SumFunction(f) = Sums(f, DOMAIN f)[DOMAIN f]
BY DEF SumFunction, SumFunctionOnSet, FoldFunctionOnSet, MapThenFoldSet, Sums, SumStep, Pick

LEMMA Picked ==
  ASSUME NEW S, IsFiniteSet(S), NEW s \in SUBSET S, s # {}
  PROVE /\ Pick(s) \in s /\ s \ {Pick(s)} \in SUBSET S
        /\ Cardinality(s \ {Pick(s)}) = Cardinality(s) - 1
        /\ Cardinality(s) \in Nat
<1>1. Pick(s) \in s
  BY DEF Pick
<1>2. IsFiniteSet(s)
  BY FS_Subset
<1> QED BY <1>1, <1>2, FS_RemoveElement, FS_CardinalityType

(* Induction over the subsets of a finite set. *)
LEMMA SmallestSubset ==
  ASSUME NEW S, IsFiniteSet(S), NEW T, T \subseteq SUBSET S, T # {}
  PROVE  \E s \in T : s = {} \/ s \ {Pick(s)} \notin T
<1> DEFINE Sizes == {Cardinality(s) : s \in T}
<1>1. \A s \in T : s \in SUBSET S /\ Cardinality(s) \in Nat
  BY FS_Subset, FS_CardinalityType
<1>2. Sizes \subseteq Nat /\ Sizes # {}
  BY <1>1
<1>3. PICK n \in Sizes : \A k \in Sizes : n <= k
  <2> HIDE DEF Sizes
  <2> QED BY <1>2, LeastNumber
<1>4. PICK s \in T : n = Cardinality(s)
  OBVIOUS
<1>5. ASSUME s # {}, s \ {Pick(s)} \in T PROVE FALSE
  <2>1. Cardinality(s \ {Pick(s)}) = n - 1 /\ n \in Nat
    BY <1>1, <1>4, <1>5, Picked
  <2>2. n <= n - 1
    BY <1>3, <1>5, <2>1
  <2> QED BY <2>1, <2>2
<1> QED BY <1>4, <1>5

(* Extended from the subsets of at most n elements to those of n + 1. *)
LEMMA SumsExist ==
  ASSUME NEW S, IsFiniteSet(S), NEW f \in [S -> Nat]
  PROVE  \E g \in [SUBSET S -> Nat] : \A s \in SUBSET S : g[s] = SumStep(f, g, s)
<1> DEFINE Small(n) == {s \in SUBSET S : Cardinality(s) <= n}
           Good(n) == \E g \in [Small(n) -> Nat] :
                         \A s \in Small(n) : g[s] = SumStep(f, g, s)
           Bad == {n \in Nat : ~Good(n)}
<1>1. \A s \in SUBSET S : IsFiniteSet(s) /\ Cardinality(s) \in Nat /\ (Cardinality(s) = 0 <=> s = {})
  BY FS_Subset, FS_CardinalityType, FS_EmptySet
<1>2. Good(0)
  <2> DEFINE g == [s \in Small(0) |-> 0]
  <2>1. g \in [Small(0) -> Nat]
    OBVIOUS
  <2>2. ASSUME NEW s \in Small(0) PROVE g[s] = SumStep(f, g, s)
    <3>1. s = {}
      BY <1>1
    <3> QED BY <3>1 DEF SumStep
  <2> QED BY <2>1, <2>2
<1>3. ASSUME NEW n \in Nat, Good(n) PROVE Good(n + 1)
  <2>1. PICK g \in [Small(n) -> Nat] : \A s \in Small(n) : g[s] = SumStep(f, g, s)
    BY <1>3
  <2> DEFINE h == [s \in Small(n + 1) |-> SumStep(f, g, s)]
  <2>2. ASSUME NEW s \in Small(n + 1), s # {}
        PROVE  s \ {Pick(s)} \in Small(n) /\ Pick(s) \in S
    <3>1. s \in SUBSET S /\ Cardinality(s) <= n + 1
      OBVIOUS
    <3> QED BY <2>2, <3>1, Picked
  <2>3. h \in [Small(n + 1) -> Nat]
    <3> SUFFICES ASSUME NEW s \in Small(n + 1) PROVE SumStep(f, g, s) \in Nat
      OBVIOUS
    <3> HIDE DEF Small
    <3> QED BY <2>2 DEF SumStep
  <2>4. Small(n) \subseteq Small(n + 1)
    BY <1>1
  <2>5. ASSUME NEW s \in Small(n + 1) PROVE h[s] = SumStep(f, h, s)
    <3> HIDE DEF Small
    <3>1. \A t \in Small(n) : h[t] = g[t]
      BY <2>1, <2>4
    <3> QED BY <2>2, <3>1 DEF SumStep
  <2> HIDE DEF h, Small
  <2> QED BY <2>3, <2>5
<1>4. Bad = {}
  <2>1. SUFFICES ASSUME Bad # {} PROVE FALSE
    OBVIOUS
  <2>2. Bad \subseteq Nat
    OBVIOUS
  <2> HIDE DEF Bad
  <2>3. PICK n \in Bad : \A k \in Bad : n <= k
    BY <2>1, <2>2, LeastNumber
  <2> USE DEF Bad
  <2> HIDE DEF Good
  <2>4. n # 0 /\ n \in Nat
    BY <1>2
  <2>5. Good(n - 1)
    BY <2>3, <2>4
  <2> QED BY <1>3, <2>4, <2>5
<1>5. Small(Cardinality(S)) = SUBSET S /\ Cardinality(S) \in Nat
  BY FS_Subset, FS_CardinalityType
<1>6. Good(Cardinality(S))
  <2> HIDE DEF Good
  <2> QED BY <1>4, <1>5
<1> QED BY <1>5, <1>6

LEMMA SumsDef ==
  ASSUME NEW S, IsFiniteSet(S), NEW f \in [S -> Nat]
  PROVE  /\ \A s \in SUBSET S : Sums(f, S)[s] = SumStep(f, Sums(f, S), s)
         /\ \A s \in SUBSET S : Sums(f, S)[s] \in Nat
<1> DEFINE g == Sums(f, S)
           Bad == {s \in SUBSET S : g[s] \notin Nat}
<1>1. g = [s \in SUBSET S |-> SumStep(f, g, s)]
  <2>1. PICK h \in [SUBSET S -> Nat] : \A s \in SUBSET S : h[s] = SumStep(f, h, s)
    BY SumsExist
  <2>2. h = [s \in SUBSET S |-> SumStep(f, h, s)]
    BY <2>1
  <2> QED BY <2>2, Zenon DEF Sums
<1> HIDE DEF g
<1>2. \A s \in SUBSET S : g[s] = SumStep(f, g, s)
  BY <1>1
<1>3. Bad = {}
  <2>1. SUFFICES ASSUME Bad # {} PROVE FALSE
    OBVIOUS
  <2>2. Bad \subseteq SUBSET S
    OBVIOUS
  <2> HIDE DEF Bad
  <2>3. PICK s \in Bad : s = {} \/ s \ {Pick(s)} \notin Bad
    BY <2>1, <2>2, SmallestSubset
  <2> USE DEF Bad
  <2>4. s \in SUBSET S /\ g[s] \notin Nat
    OBVIOUS
  <2>5. s # {}
    BY <1>2, <2>4 DEF SumStep
  <2>6. s \ {Pick(s)} \in SUBSET S /\ Pick(s) \in S
    BY <2>4, <2>5, Picked
  <2>7. g[s \ {Pick(s)}] \in Nat
    BY <2>3, <2>5, <2>6
  <2>8. g[s] = f[Pick(s)] + g[s \ {Pick(s)}]
    BY <1>2, <2>4, <2>5 DEF SumStep
  <2>9. f[Pick(s)] \in Nat
    BY <2>6
  <2> QED BY <2>4, <2>7, <2>8, <2>9
<1>4. \A s \in SUBSET S : g[s] \in Nat
  BY <1>3
<1> QED BY <1>2, <1>4 DEF g

LEMMA SumNatural ==
  ASSUME NEW S, IsFiniteSet(S), NEW f \in [S -> Nat]
  PROVE  SumFunction(f) \in Nat
<1>1. \A s \in SUBSET S : Sums(f, S)[s] \in Nat
  BY SumsDef, Zenon
<1>2. SumFunction(f) = Sums(f, S)[S]
  <2>1. DOMAIN f = S
    OBVIOUS
  <2> QED BY <2>1, SumIsLast
<1> QED BY <1>1, <1>2

(* Raising one value raises the sum by as much. *)
Raised(f, h, w, n) == h = [f EXCEPT ![w] = f[w] + n]

LEMMA SumRaised ==
  ASSUME NEW S, IsFiniteSet(S), NEW f \in [S -> Nat], NEW w \in S, NEW n \in Nat,
         NEW h, Raised(f, h, w, n)
  PROVE  SumFunction(h) = SumFunction(f) + n
<1> DEFINE G == Sums(f, S)
           H == Sums(h, S)
           Bad == {s \in SUBSET S : H[s] # G[s] + (IF w \in s THEN n ELSE 0)}
<1>1. h \in [S -> Nat] /\ \A x \in S : h[x] = IF x = w THEN f[w] + n ELSE f[x]
  <2>1. f[w] + n \in Nat
    OBVIOUS
  <2> QED BY <2>1 DEF Raised
<1>2. /\ \A s \in SUBSET S : G[s] = SumStep(f, G, s) /\ G[s] \in Nat
      /\ \A s \in SUBSET S : H[s] = SumStep(h, H, s) /\ H[s] \in Nat
  <2>1. \A s \in SUBSET S : G[s] = SumStep(f, G, s) /\ G[s] \in Nat
    BY SumsDef, Zenon
  <2>2. h \in [S -> Nat]
    BY <1>1
  <2>3. \A s \in SUBSET S : H[s] = SumStep(h, H, s) /\ H[s] \in Nat
    BY <2>2, SumsDef, Zenon
  <2> QED BY <2>1, <2>3, Zenon
<1> HIDE DEF G, H
<1>3. Bad = {}
  <2>1. SUFFICES ASSUME Bad # {} PROVE FALSE
    OBVIOUS
  <2>2. Bad \subseteq SUBSET S
    OBVIOUS
  <2> HIDE DEF Bad
  <2>3. PICK s \in Bad : s = {} \/ s \ {Pick(s)} \notin Bad
    BY <2>1, <2>2, SmallestSubset
  <2> USE DEF Bad
  <2>4. s \in SUBSET S /\ H[s] # G[s] + (IF w \in s THEN n ELSE 0)
    OBVIOUS
  <2>5. s # {}
    <3>1. {} \in SUBSET S
      OBVIOUS
    <3>2. G[{}] = 0 /\ H[{}] = 0
      BY <1>2, <3>1 DEF SumStep
    <3> QED BY <2>4, <3>2
  <2> DEFINE x == Pick(s)
             t == s \ {x}
  <2>6. t \in SUBSET S /\ x \in S /\ x \in s
    BY <2>4, <2>5, Picked
  <2>7. H[t] = G[t] + (IF w \in t THEN n ELSE 0)
    BY <2>3, <2>5, <2>6
  <2>8. G[s] = f[x] + G[t] /\ H[s] = h[x] + H[t]
    BY <1>2, <2>4, <2>5 DEF SumStep
  <2>9. G[t] \in Nat /\ f[x] \in Nat /\ f[w] \in Nat /\ (w \in t <=> w \in s /\ w # x)
    BY <1>2, <2>6
  <2>10. h[x] = IF x = w THEN f[w] + n ELSE f[x]
    BY <1>1, <2>6
  <2> HIDE DEF x, t, Bad
  <2> QED BY <2>4, <2>6, <2>7, <2>8, <2>9, <2>10
<1>4. H[S] = G[S] + n
  BY <1>3
<1>5. DOMAIN f = S /\ DOMAIN h = S
  BY <1>1
<1> QED BY <1>4, <1>5, SumIsLast DEF G, H

(* Nothing adds up to nothing. *)
LEMMA SumOfNone ==
  ASSUME NEW S, IsFiniteSet(S)
  PROVE  SumFunction([x \in S |-> 0]) = 0
<1> DEFINE f == [x \in S |-> 0]
           G == Sums(f, S)
           Bad == {s \in SUBSET S : G[s] # 0}
<1>1. f \in [S -> Nat] /\ DOMAIN f = S /\ \A x \in S : f[x] = 0
  OBVIOUS
<1> HIDE DEF f
<1>2. \A s \in SUBSET S : G[s] = SumStep(f, G, s)
  BY <1>1, SumsDef
<1> HIDE DEF G
<1>3. Bad = {}
  <2>1. SUFFICES ASSUME Bad # {} PROVE FALSE
    OBVIOUS
  <2>2. Bad \subseteq SUBSET S
    OBVIOUS
  <2> HIDE DEF Bad
  <2>3. PICK s \in Bad : s = {} \/ s \ {Pick(s)} \notin Bad
    BY <2>1, <2>2, SmallestSubset
  <2> USE DEF Bad
  <2>4. s \in SUBSET S /\ G[s] # 0
    OBVIOUS
  <2>5. s # {}
    BY <1>2, <2>4 DEF SumStep
  <2>6. s \ {Pick(s)} \in SUBSET S /\ Pick(s) \in S
    BY <2>4, <2>5, Picked
  <2>7. G[s] = f[Pick(s)] + G[s \ {Pick(s)}]
    BY <1>2, <2>4, <2>5 DEF SumStep
  <2> QED BY <1>1, <2>3, <2>4, <2>5, <2>6, <2>7
<1> QED BY <1>1, <1>3, SumIsLast DEF G, f

-----------------------------------------------------------------------------
USE RelayAssumption DEF WatcherState

-----------------------------------------------------------------------------
(* Lemmas *)

LEMMA AppendedFrame ==
  ASSUME NEW s \in Seq(Frame), NEW f \in Frame
  PROVE  /\ Append(s, f) \in Seq(Frame)
         /\ Len(Append(s, f)) = Len(s) + 1
         /\ \A i \in 1..Len(s) : Append(s, f)[i] = s[i]
         /\ Append(s, f)[Len(s) + 1] = f
OBVIOUS

(* A frame is accepted only from the newest connection. *)
LEMMA AcceptedIsNewest ==
  ASSUME IInv, NEW c \in Connections, NEW key \in BOOLEAN, Accept(c, key)
  PROVE  /\ cGeneration[c] = nextGeneration
         /\ nextGeneration \in Nat \ {0}
         /\ [generation |-> cGeneration[c], key |-> key] \in Frame
<1>1. cGeneration[c] \in 1..nextGeneration /\ cGeneration[c] = connectedGeneration
  BY DEF Accept, Accepted, IInv, Generations
<1>2. nextGeneration \in Nat
  BY DEF IInv, TypeOK
<1>3. connectedGeneration \in {0, nextGeneration}
  BY DEF IInv, Generations
<1> QED BY <1>1, <1>2, <1>3 DEF Frame

(* How the channel's positions lie. *)
LEMMA Positions ==
  ASSUME IInv
  PROVE  /\ Len(frames) \in Nat
         /\ sent \in Nat /\ sent <= Len(frames)
         /\ \A w \in Watchers : wJoin[w] \in Nat /\ wJoin[w] <= Len(frames)
<1>1. Len(frames) \in Nat /\ sent \in 0..Len(frames)
  BY DEF IInv, TypeOK
<1>2. \A w \in Watchers : wJoin[w] \in 0..sent
  BY DEF IInv, Joined
<1> QED BY <1>1, <1>2

(* No frame has the generation of a watcher that has not looked yet. *)
LEMMA NoneUndated ==
  ASSUME IInv, NEW n \in Nat
  PROVE  Keyframes(0, n) = {}
<1> SUFFICES ASSUME NEW i \in Keyframes(0, n) PROVE FALSE
  OBVIOUS
<1>1. i \in 1..Len(frames) /\ frames[i].generation = 0
  BY Positions DEF Keyframes
<1> QED BY <1>1 DEF IInv, TypeOK, FramesDated

LEMMA InitInv == Init => IInv
<1> SUFFICES ASSUME Init PROVE IInv
  OBVIOUS
<1>1. TypeOK
  BY DEF Init, TypeOK
<1>2. Generations /\ FramesDated /\ Joined /\ FencedGenerations
  BY DEF Init, Generations, FramesDated, Joined, FencedGenerations
<1>3. CacheIsNewestKeyframe /\ JoinMissesNoKeyframe
  BY DEF Init, CacheIsNewestKeyframe, JoinMissesNoKeyframe, Keyframes
<1> QED BY <1>1, <1>2, <1>3 DEF IInv

-----------------------------------------------------------------------------
(* Types *)

(* The types of the room's variables, and of a watcher's. *)
RoomTypes ==
  /\ nextGeneration \in Nat
  /\ connectedGeneration \in Nat
  /\ cState \in [Connections -> {"idle", "connected", "gone"}]
  /\ cGeneration \in [Connections -> Nat]
  /\ publishing \in Connections \cup {NoConnection}
  /\ frames \in Seq(Frame)
  /\ sent \in 0..Len(frames)
  /\ keyframe \in 0..Len(frames)
ReceiverTypes ==
  /\ wState \in [Watchers -> WatcherState]
  /\ wCursor \in [Watchers -> Nat]
  /\ \A w \in Watchers : wCursor[w] <= sent
  /\ wPending \in [Watchers -> Nat]
  /\ lagEvents \in Nat
  /\ laggedFrames \in Nat
  /\ wUncounted \in [Watchers -> Nat]
QueueTypes ==
  /\ wOut \in [Watchers -> Seq(Nat)]
  /\ \A w \in Watchers : Len(wOut[w]) <= OutboundSize
HistoryTypes ==
  /\ wJoin \in [Watchers -> Nat]
  /\ wCached \in [Watchers -> Nat]
  /\ wGeneration \in [Watchers -> Nat]
  /\ wLost \in [Watchers -> Nat]
  /\ wGot \in [Watchers -> Seq(Nat)]

LEMMA TypeParts == TypeOK <=> RoomTypes /\ ReceiverTypes /\ QueueTypes /\ HistoryTypes
BY DEF TypeOK, RoomTypes, ReceiverTypes, QueueTypes, HistoryTypes

LEMMA TypePartsNext == TypeOK' <=> RoomTypes' /\ ReceiverTypes' /\ QueueTypes' /\ HistoryTypes'
BY DEF TypeOK, RoomTypes, ReceiverTypes, QueueTypes, HistoryTypes

LEMMA RoomTypeStep ==
  ASSUME IInv, NEW c \in Connections,
         \/ ConnectProducer(c) \/ MarkProducerDisconnected(c) \/ Broadcast(c)
         \/ \E key \in BOOLEAN : Accept(c, key)
  PROVE  TypeOK'
<1>1. RoomTypes /\ ReceiverTypes /\ QueueTypes /\ HistoryTypes
  BY TypeParts DEF IInv
<1>2. UNCHANGED watcherVars
  BY DEF ConnectProducer, MarkProducerDisconnected, Accept, Broadcast
<1>3. QueueTypes' /\ HistoryTypes'
  BY <1>1, <1>2 DEF QueueTypes, HistoryTypes, watcherVars, history
<1>4. RoomTypes' /\ sent <= sent'
  <2>1. CASE ConnectProducer(c)
    BY <1>1, <2>1 DEF RoomTypes, ConnectProducer
  <2>2. CASE MarkProducerDisconnected(c)
    BY <1>1, <2>2 DEF RoomTypes, MarkProducerDisconnected, streamVars
  <2>3. CASE Broadcast(c)
    BY <1>1, <2>3 DEF RoomTypes, Broadcast, producerVars
  <2>4. ASSUME NEW key \in BOOLEAN, Accept(c, key)
        PROVE  RoomTypes' /\ sent <= sent'
    <3>1. frames' \in Seq(Frame) /\ Len(frames') = Len(frames) + 1
      BY <1>1, <2>4, AcceptedIsNewest, AppendedFrame DEF RoomTypes, Accept
    <3>2. Len(frames) \in Nat
      BY <1>1 DEF RoomTypes
    <3> QED BY <1>1, <2>4, <3>1, <3>2 DEF RoomTypes, Accept, producerVars
  <2> QED BY <2>1, <2>2, <2>3, <2>4
<1>5. sent \in Nat /\ sent' \in Nat
  BY <1>1, <1>4 DEF RoomTypes
<1>6. ReceiverTypes'
  BY <1>1, <1>2, <1>4, <1>5 DEF ReceiverTypes, watcherVars, lagVars
<1> QED BY <1>3, <1>4, <1>6, TypePartsNext

LEMMA WatcherTypeStep ==
  ASSUME IInv, NEW w \in Watchers,
         \/ Subscribe(w) \/ LoadKeyframe(w) \/ Receive(w) \/ Lagged(w) \/ CountSkipped(w)
         \/ Enqueue(w) \/ Send(w) \/ Leave(w)
  PROVE  TypeOK'
<1>1. RoomTypes /\ ReceiverTypes /\ QueueTypes /\ HistoryTypes
  BY TypeParts DEF IInv
<1>2. UNCHANGED <<producerVars, streamVars>>
  BY DEF Subscribe, LoadKeyframe, Receive, Lagged, CountSkipped, Enqueue, Send, Leave
<1>3. RoomTypes' /\ sent \in Nat /\ keyframe \in Nat /\ nextGeneration \in Nat
  BY <1>1, <1>2 DEF RoomTypes, producerVars, streamVars
<1>4. sent' = sent
  BY <1>2 DEF streamVars
<1>5. CASE Subscribe(w)
  <2>1. ReceiverTypes' /\ QueueTypes' /\ HistoryTypes'
    BY <1>1, <1>3, <1>4, <1>5, SMTT(30) DEF ReceiverTypes, QueueTypes, HistoryTypes, Subscribe, lagVars
  <2> QED BY <1>3, <2>1, TypePartsNext
<1>6. CASE LoadKeyframe(w)
  <2>1. ReceiverTypes' /\ QueueTypes' /\ HistoryTypes'
    BY <1>1, <1>3, <1>4, <1>6 DEF ReceiverTypes, QueueTypes, HistoryTypes, LoadKeyframe, lagVars
  <2> QED BY <1>3, <2>1, TypePartsNext
<1>7. CASE Receive(w)
  <2>1. ReceiverTypes' /\ QueueTypes' /\ HistoryTypes'
    BY <1>1, <1>3, <1>4, <1>7, SMTT(30)
       DEF ReceiverTypes, QueueTypes, HistoryTypes, Receive, Receiving, history, lagVars
  <2> QED BY <1>3, <2>1, TypePartsNext
<1>8. CASE Lagged(w)
  <2>1. wCursor[w] \in Nat /\ wLost[w] \in Nat /\ laggedFrames \in Nat /\ lagEvents \in Nat
    BY <1>1 DEF ReceiverTypes, HistoryTypes
  <2>2. Oldest \in Nat /\ Oldest <= sent /\ Oldest - wCursor[w] \in Nat
    BY <1>3, <1>8, <2>1 DEF Lagged, Receiving, Overwritten, Oldest
  <2>3. ReceiverTypes'
    <3>1. /\ wCursor' = [wCursor EXCEPT ![w] = Oldest]
          /\ lagEvents' = lagEvents + 1
          /\ wUncounted' = [wUncounted EXCEPT ![w] = Oldest - wCursor[w]]
          /\ UNCHANGED <<wState, wPending, laggedFrames>>
      BY <1>8 DEF Lagged
    <3> QED BY <1>1, <1>3, <1>4, <2>1, <2>2, <3>1 DEF ReceiverTypes
  <2>4. QueueTypes'
    BY <1>1, <1>8 DEF QueueTypes, Lagged
  <2>5. HistoryTypes'
    <3>1. /\ wLost' = [wLost EXCEPT ![w] = wLost[w] + (Oldest - wCursor[w])]
          /\ UNCHANGED <<wJoin, wCached, wGeneration, wGot>>
      BY <1>8 DEF Lagged
    <3>2. wLost[w] + (Oldest - wCursor[w]) \in Nat
      BY <2>1, <2>2
    <3> QED BY <1>1, <3>1, <3>2 DEF HistoryTypes
  <2> QED BY <1>3, <2>3, <2>4, <2>5, TypePartsNext
<1>9. CASE Enqueue(w)
  <2>1. ReceiverTypes' /\ HistoryTypes'
    BY <1>1, <1>4, <1>9 DEF ReceiverTypes, HistoryTypes, Enqueue, history, lagVars
  <2>2. wPending[w] \in Nat /\ wOut[w] \in Seq(Nat)
    BY <1>1 DEF ReceiverTypes, QueueTypes
  <2>3. /\ Append(wOut[w], wPending[w]) \in Seq(Nat)
        /\ Len(Append(wOut[w], wPending[w])) = Len(wOut[w]) + 1
        /\ Len(wOut[w]) \in Nat
    BY <2>2
  <2>4. QueueTypes'
    BY <1>1, <1>9, <2>3 DEF QueueTypes, Enqueue
  <2> QED BY <1>3, <2>1, <2>4, TypePartsNext
<1>10. CASE Send(w)
  <2>1. ReceiverTypes'
    BY <1>1, <1>4, <1>10 DEF ReceiverTypes, Send, lagVars
  <2>2. wOut[w] \in Seq(Nat) /\ wOut[w] # << >> /\ wGot[w] \in Seq(Nat)
    BY <1>1, <1>10 DEF QueueTypes, HistoryTypes, Send
  <2>3. /\ Tail(wOut[w]) \in Seq(Nat) /\ Len(Tail(wOut[w])) = Len(wOut[w]) - 1
        /\ Head(wOut[w]) \in Nat /\ Len(wOut[w]) \in Nat
    BY <2>2, HeadTailProperties
  <2>4. Append(wGot[w], Head(wOut[w])) \in Seq(Nat)
    BY <2>2, <2>3
  <2>5. QueueTypes'
    BY <1>1, <1>10, <2>3 DEF QueueTypes, Send
  <2>6. HistoryTypes'
    BY <1>1, <1>10, <2>4 DEF HistoryTypes, Send
  <2> QED BY <1>3, <2>1, <2>5, <2>6, TypePartsNext
<1>11. CASE Leave(w)
  <2>1. ReceiverTypes'
    BY <1>1, <1>3, <1>4, <1>11 DEF ReceiverTypes, Leave, lagVars
  <2>2. QueueTypes'
    <3>1. << >> \in Seq(Nat) /\ Len(<< >>) = 0 /\ OutboundSize \in Nat
      BY RelayAssumption
    <3> QED BY <1>1, <1>11, <3>1 DEF QueueTypes, Leave
  <2>3. HistoryTypes'
    BY <1>1, <1>11 DEF HistoryTypes, Leave
  <2> QED BY <1>3, <2>1, <2>2, <2>3, TypePartsNext
<1>12. CASE CountSkipped(w)
  <2>1. QueueTypes' /\ HistoryTypes'
    BY <1>1, <1>12 DEF QueueTypes, HistoryTypes, CountSkipped, history
  <2>2. ReceiverTypes'
    BY <1>1, <1>4, <1>12 DEF ReceiverTypes, CountSkipped
  <2> QED BY <1>3, <2>1, <2>2, TypePartsNext
<1> QED BY <1>5, <1>6, <1>7, <1>8, <1>9, <1>10, <1>11, <1>12

LEMMA TypeStep ==
  ASSUME IInv, [Next]_vars
  PROVE  TypeOK'
<1>1. CASE UNCHANGED vars
  BY <1>1 DEF IInv, TypeOK, vars, producerVars, streamVars, watcherVars, lagVars, history
<1> QED BY <1>1, RoomTypeStep, WatcherTypeStep DEF Next

-----------------------------------------------------------------------------
(* The steps of the room *)

LEMMA ConnectStep ==
  ASSUME IInv, TypeOK', NEW c \in Connections, ConnectProducer(c)
  PROVE  IInv'
<1>1. Generations' /\ FramesDated'
  <2>1. /\ nextGeneration \in Nat /\ cState \in [Connections -> {"idle", "connected", "gone"}]
        /\ cGeneration \in [Connections -> Nat] /\ Generations /\ FramesDated
    BY DEF IInv, TypeOK
  <2> QED BY <2>1 DEF ConnectProducer, Generations, FramesDated
<1> USE DEF IInv, ConnectProducer, watcherVars, history
<1>2. Joined' /\ FencedGenerations' /\ JoinMissesNoKeyframe'
  BY DEF Joined, FencedGenerations, JoinMissesNoKeyframe, Keyframes
<1>3. Keyframes(nextGeneration', Len(frames)) = {}
  BY DEF TypeOK, Keyframes, FramesDated
<1>4. CacheIsNewestKeyframe'
  BY <1>3 DEF CacheIsNewestKeyframe, Keyframes
<1> QED BY <1>1, <1>2, <1>4

LEMMA AcceptStep ==
  ASSUME IInv, TypeOK', NEW c \in Connections, NEW key \in BOOLEAN, Accept(c, key)
  PROVE  IInv'
<1> DEFINE n == Len(frames) + 1
           f == [generation |-> cGeneration[c], key |-> key]
<1>1. f.generation = nextGeneration /\ nextGeneration \in Nat \ {0} /\ f \in Frame
  BY AcceptedIsNewest
<1>2. /\ Len(frames') = n /\ n \in Nat \ {0}
      /\ \A i \in 1..Len(frames) : frames'[i] = frames[i]
      /\ frames'[n] = f
  <2>1. frames \in Seq(Frame) /\ frames' = Append(frames, f)
    BY DEF IInv, TypeOK, Accept
  <2> QED BY <1>1, <2>1, AppendedFrame
<1>3. UNCHANGED <<producerVars, watcherVars, sent>>
  BY DEF Accept
<1>4. Generations'
  BY <1>3 DEF IInv, Generations, producerVars
<1>5. FramesDated'
  BY <1>1, <1>2, <1>3 DEF IInv, FramesDated, producerVars
<1>6. Joined'
  BY <1>3 DEF IInv, Joined, watcherVars, history
<1>7. FencedGenerations'
  <2> SUFFICES ASSUME NEW i \in 1..n, NEW j \in 1..n, i <= j
               PROVE  frames'[i].generation <= frames'[j].generation
    BY <1>2 DEF FencedGenerations
  <2>1. CASE j = n
    BY <1>1, <1>2, <1>3, <1>5, <2>1 DEF FramesDated, producerVars
  <2>2. CASE j # n
    BY <1>2, <2>2 DEF IInv, FencedGenerations
  <2> QED BY <2>1, <2>2
<1>8. Keyframes(nextGeneration, Len(frames))' =
        Keyframes(nextGeneration, Len(frames)) \cup (IF key THEN {n} ELSE {})
  BY <1>1, <1>2, <1>3 DEF Keyframes, producerVars
<1>9. CacheIsNewestKeyframe'
  <2>1. keyframe' = IF key THEN n ELSE keyframe
    BY <1>2 DEF Accept
  <2>2. \A i \in Keyframes(nextGeneration, Len(frames)) : i \in 1..Len(frames)
    BY DEF Keyframes
  <2>3. CacheIsNewestKeyframe
    BY DEF IInv
  <2>4. CASE key
    <3>1. Keyframes(nextGeneration, Len(frames))' = Keyframes(nextGeneration, Len(frames)) \cup {n}
      BY <1>8, <2>4
    <3>2. \A i \in Keyframes(nextGeneration, Len(frames))' : i <= n
      BY <1>2, <2>2, <3>1
    <3> QED BY <1>2, <1>3, <2>1, <2>4, <3>1, <3>2 DEF CacheIsNewestKeyframe, producerVars
  <2>5. CASE ~key
    <3>1. Keyframes(nextGeneration, Len(frames))' = Keyframes(nextGeneration, Len(frames))
      BY <1>8, <2>5
    <3> QED BY <1>2, <1>3, <2>1, <2>3, <2>5, <3>1 DEF CacheIsNewestKeyframe, producerVars
  <2> QED BY <2>4, <2>5
<1>10. JoinMissesNoKeyframe'
  <2> SUFFICES ASSUME NEW w \in Watchers
               PROVE  \A i \in Keyframes(wGeneration[w], wJoin[w])' : i <= wCached[w]
    BY <1>3 DEF JoinMissesNoKeyframe, watcherVars, history
  <2>1. wJoin[w] \in 0..Len(frames)
    BY Positions
  <2>2. Keyframes(wGeneration[w], wJoin[w])' = Keyframes(wGeneration[w], wJoin[w])
    BY <1>2, <1>3, <2>1 DEF Keyframes, watcherVars, history
  <2> QED BY <2>2 DEF IInv, JoinMissesNoKeyframe
<1> QED BY <1>4, <1>5, <1>6, <1>7, <1>9, <1>10 DEF IInv

LEMMA OtherRoomStep ==
  ASSUME IInv, TypeOK', NEW c \in Connections, MarkProducerDisconnected(c) \/ Broadcast(c)
  PROVE  IInv'
<1>1. UNCHANGED <<nextGeneration, cGeneration, frames, keyframe, watcherVars>> /\ sent <= sent'
  BY DEF MarkProducerDisconnected, Broadcast, producerVars, streamVars, IInv, TypeOK
<1>2. Generations'
  BY <1>1 DEF MarkProducerDisconnected, Broadcast, producerVars, IInv, TypeOK, Generations
<1>3. Joined'
  BY <1>1, SMTT(30) DEF IInv, TypeOK, Joined, watcherVars, history
<1>4. FramesDated' /\ FencedGenerations'
  BY <1>1 DEF IInv, FramesDated, FencedGenerations
<1>5. CacheIsNewestKeyframe' /\ JoinMissesNoKeyframe'
  BY <1>1 DEF IInv, CacheIsNewestKeyframe, JoinMissesNoKeyframe, Keyframes, watcherVars, history
<1> QED BY <1>2, <1>3, <1>4, <1>5 DEF IInv

-----------------------------------------------------------------------------
(* The steps of a watcher *)

LEMMA WatcherStep ==
  ASSUME IInv, TypeOK', NEW w \in Watchers,
         \/ Subscribe(w) \/ LoadKeyframe(w) \/ Receive(w) \/ Lagged(w) \/ CountSkipped(w)
         \/ Enqueue(w) \/ Send(w) \/ Leave(w)
  PROVE  IInv'
<1>1. UNCHANGED <<producerVars, streamVars>>
  BY DEF Subscribe, LoadKeyframe, Receive, Lagged, CountSkipped, Enqueue, Send, Leave
<1>2. Generations' /\ FramesDated' /\ FencedGenerations'
  BY <1>1 DEF IInv, producerVars, streamVars, Generations, FramesDated, FencedGenerations
<1>3. CacheIsNewestKeyframe'
  BY <1>1 DEF IInv, producerVars, streamVars, CacheIsNewestKeyframe, Keyframes
<1>4. CASE Subscribe(w)
  <2>1. Joined'
    BY <1>1, <1>4 DEF Subscribe, IInv, TypeOK, Joined, streamVars
  <2>2. wGeneration[w] = 0
    BY <1>4 DEF Subscribe, IInv, Joined
  <2>3. Keyframes(wGeneration[w], wJoin'[w]) = {}
    BY <1>4, <2>2, Positions, NoneUndated DEF Subscribe, IInv, TypeOK
  <2>4. JoinMissesNoKeyframe'
    BY <1>1, <1>4, <2>3 DEF Subscribe, IInv, TypeOK, JoinMissesNoKeyframe, Keyframes, streamVars
  <2> QED BY <1>2, <1>3, <2>1, <2>4 DEF IInv
<1>5. CASE LoadKeyframe(w)
  <2>1. Joined'
    BY <1>1, <1>5 DEF LoadKeyframe, IInv, TypeOK, Joined, streamVars
  <2>2. \A i \in Keyframes(nextGeneration, Len(frames)) : i <= keyframe
    BY DEF IInv, CacheIsNewestKeyframe
  <2>3. Keyframes(nextGeneration, wJoin[w]) \subseteq Keyframes(nextGeneration, Len(frames))
    BY Positions DEF Keyframes
  <2>4. JoinMissesNoKeyframe'
    BY <1>1, <1>5, <2>2, <2>3 DEF LoadKeyframe, IInv, TypeOK, JoinMissesNoKeyframe, Keyframes,
       streamVars
  <2> QED BY <1>2, <1>3, <2>1, <2>4 DEF IInv
<1>6. CASE Leave(w)
  <2>1. Joined'
    BY <1>1, <1>6 DEF Leave, IInv, TypeOK, Joined, streamVars
  <2>2. Keyframes(0, 0) = {}
    BY NoneUndated
  <2>3. JoinMissesNoKeyframe'
    BY <1>1, <1>6, <2>2 DEF Leave, IInv, TypeOK, JoinMissesNoKeyframe, Keyframes, streamVars
  <2> QED BY <1>2, <1>3, <2>1, <2>3 DEF IInv
<1>7. CASE Receive(w) \/ Lagged(w) \/ CountSkipped(w) \/ Enqueue(w) \/ Send(w)
  <2>1. UNCHANGED <<wState, wJoin, wCached, wGeneration>>
    BY <1>7 DEF Receive, Lagged, CountSkipped, Enqueue, Send, history
  <2>2. Joined' /\ JoinMissesNoKeyframe'
    BY <1>1, <2>1 DEF IInv, Joined, JoinMissesNoKeyframe, Keyframes, streamVars
  <2> QED BY <1>2, <1>3, <2>2 DEF IInv
<1> QED BY <1>4, <1>5, <1>6, <1>7

LEMMA StepInv == IInv /\ [Next]_vars => IInv'
<1> SUFFICES ASSUME IInv, [Next]_vars PROVE IInv'
  OBVIOUS
<1>1. TypeOK'
  BY TypeStep
<1>2. CASE Next
  BY <1>1, <1>2, ConnectStep, AcceptStep, OtherRoomStep, WatcherStep DEF Next
<1>3. CASE UNCHANGED vars
  BY <1>1, <1>3 DEF vars, producerVars, streamVars, watcherVars, history, IInv, Generations,
     FramesDated, Joined, FencedGenerations, CacheIsNewestKeyframe, JoinMissesNoKeyframe, Keyframes
<1> QED BY <1>2, <1>3

LEMMA InductiveInvariant == Spec => []IInv
BY InitInv, StepInv, PTL DEF Spec

-----------------------------------------------------------------------------
(* Order *)

LEMMA ForwardedSame ==
  ASSUME NEW g \in Seq(Nat), NEW o \in Seq(Nat), NEW n \in Nat
  PROVE  g \o Append(o, n) \o << >> = g \o o \o <<n>>
  OBVIOUS

LEMMA SentSame ==
  ASSUME NEW g \in Seq(Nat), NEW o \in Seq(Nat), NEW t \in Seq(Nat), o # << >>
  PROVE  Append(g, Head(o)) \o Tail(o) \o t = g \o o \o t
<1> DEFINE h == Head(o)
           r == Tail(o)
<1>1. h \in Nat /\ r \in Seq(Nat) /\ Len(r) = Len(o) - 1 /\ Len(o) \in Nat \ {0} /\ h = o[1]
  BY HeadTailProperties, EmptySeq, SMT
<1>2. \A i \in 1..Len(r) : r[i] = o[i + 1]
  BY HeadTailProperties, SMT
<1> HIDE DEF h, r
<1>3. Append(g, h) \o r \in Seq(Nat) /\ g \o o \in Seq(Nat)
  BY <1>1, SMT
<1>4. /\ Len(Append(g, h) \o r) = Len(g \o o)
      /\ Len(g) \in Nat /\ Len(g \o o) = Len(g) + Len(o)
  <2>1. Len(g) \in Nat /\ Len(g \o o) = Len(g) + Len(o)
    BY SMT
  <2>2. Append(g, h) \in Seq(Nat) /\ Len(Append(g, h)) = Len(g) + 1
    BY <1>1, SMT
  <2>3. Len(Append(g, h) \o r) = Len(Append(g, h)) + Len(r)
    BY <1>1, <2>2, ConcatProperties, Zenon
  <2> QED
    BY <1>1, <2>1, <2>2, <2>3, SMT
<1>5. ASSUME NEW i \in 1..Len(g \o o) PROVE (Append(g, h) \o r)[i] = (g \o o)[i]
  <2>1. CASE i <= Len(g)
    BY <1>1, <2>1, SMT
  <2>2. CASE i = Len(g) + 1
    BY <1>1, <2>2, SMT
  <2>3. CASE i > Len(g) + 1
    <3>1. i - Len(g) - 1 \in 1..Len(r)
      BY <1>1, <2>3, SMT
    <3>2. (Append(g, h) \o r)[i] = r[i - Len(g) - 1]
      BY <1>1, <2>3, <3>1, SMT
    <3>3. (g \o o)[i] = o[i - Len(g)]
      BY <2>3, SMT
    <3>4. r[i - Len(g) - 1] = o[i - Len(g) - 1 + 1]
      BY <1>2, <3>1, Zenon
    <3> QED
      BY <3>2, <3>3, <3>4, SMT
  <2>4. i \in Int /\ Len(g) \in Int
    BY <1>1, <1>4, SMT
  <2>5. i <= Len(g) \/ i = Len(g) + 1 \/ i > Len(g) + 1
    BY <2>4, SMTT(20)
  <2> QED
    BY <2>1, <2>2, <2>3, <2>5, Zenon
<1>6. Append(g, h) \o r = g \o o
  BY <1>3, <1>4, <1>5, SeqEqual, Zenon
<1> QED
  BY <1>6 DEF h, r

LEMMA TakenOne ==
  ASSUME NEW g \in Seq(Nat), NEW o \in Seq(Nat), NEW n \in Nat
  PROVE  g \o o \o <<n>> = Append(g \o o \o << >>, n)
  OBVIOUS

LEMMA TailAppended ==
  ASSUME NEW t \in Seq(Nat), NEW n \in Nat, t # << >>
  PROVE  /\ Tail(Append(t, n)) = Append(Tail(t), n)
         /\ Head(Append(t, n)) = Head(t) /\ Append(t, n) # << >>
  OBVIOUS

(* What SentInOrder says of one watcher, s without the cached keyframe. *)
Ordered(s, join, cursor, lost) ==
  /\ \A i \in 1..Len(s) : s[i] \in join + 1 .. cursor
  /\ \A i, j \in 1..Len(s) : i < j => s[i] < s[j]
  /\ Len(s) + lost = cursor - join

LEMMA OrderedReceive ==
  ASSUME NEW s \in Seq(Nat), NEW join \in Nat, NEW cursor \in Nat, NEW lost \in Nat,
         Ordered(s, join, cursor, lost)
  PROVE  Ordered(Append(s, cursor + 1), join, cursor + 1, lost)
<1> DEFINE a == Append(s, cursor + 1)
<1>1. /\ Len(s) \in Nat /\ Len(a) = Len(s) + 1 /\ a[Len(s) + 1] = cursor + 1
      /\ \A i \in 1..Len(s) : a[i] = s[i]
  OBVIOUS
<1> HIDE DEF a
<1>2. \A i \in 1..Len(s) : s[i] \in Nat /\ s[i] >= join + 1 /\ s[i] <= cursor
  BY ElementOfSeq, SMT DEF Ordered
<1>3. cursor >= join /\ Len(a) + lost = (cursor + 1) - join
  BY <1>1, SMT DEF Ordered
<1>4. \A i \in 1..Len(a) : a[i] \in join + 1 .. cursor + 1
  BY <1>1, <1>2, <1>3, SMTT(30)
<1>5. \A i, j \in 1..Len(s) : i < j => s[i] < s[j]
  BY DEF Ordered
<1>6. ASSUME NEW i \in 1..Len(a), NEW j \in 1..Len(a), i < j
      PROVE  a[i] < a[j]
  <2>1. CASE j = Len(s) + 1
    <3>1. i \in 1..Len(s) /\ a[j] = cursor + 1
      BY <1>1, <1>6, <2>1, SMT
    <3> QED
      BY <1>1, <1>2, <3>1, SMT
  <2>2. CASE j # Len(s) + 1
    <3>1. i \in 1..Len(s) /\ j \in 1..Len(s)
      BY <1>1, <1>6, <2>2, SMT
    <3> QED
      BY <1>1, <1>5, <1>6, <3>1, Zenon
  <2> QED
    BY <2>1, <2>2
<1> QED
  BY <1>3, <1>4, <1>6 DEF Ordered, a

LEMMA OrderedLagged ==
  ASSUME NEW s \in Seq(Nat), NEW join \in Nat, NEW cursor \in Nat, NEW lost \in Nat,
         NEW n \in Nat, Ordered(s, join, cursor, lost)
  PROVE  Ordered(s, join, cursor + n, lost + n)
<1>1. \A i \in 1..Len(s) : s[i] \in Nat
  BY ElementOfSeq
<1> QED
  BY <1>1, SMT DEF Ordered

LEMMA OrderedNone ==
  ASSUME NEW join \in Nat
  PROVE  Ordered(<< >>, join, join, 0)
  BY SMT DEF Ordered

(* What left the channel, if the frame in hand is p. *)
OnItsWay(got, out, p) == got \o out \o (IF p = 0 THEN << >> ELSE <<p>>)

(* SentInOrder of one watcher that forwards; and that a cached keyframe is
   not lost. *)
ForwardedInOrder(cached, taken, join, cursor, lost) ==
  /\ cached # 0 => taken # << >> /\ Head(taken) = cached
  /\ Ordered(IF cached = 0 THEN taken ELSE Tail(taken), join, cursor, lost)

(* A watcher that has not looked into the cache has nothing yet. *)
InOrder(w) ==
  /\ wState[w] \in {"off", "subscribed"} =>
       /\ wOut[w] = << >> /\ wGot[w] = << >> /\ wPending[w] = 0
       /\ wLost[w] = 0 /\ wCursor[w] = wJoin[w]
  /\ wState[w] = "forwarding" =>
       ForwardedInOrder(wCached[w], OnItsWay(wGot[w], wOut[w], wPending[w]),
                        wJoin[w], wCursor[w], wLost[w])

OrderInv == \A w \in Watchers : InOrder(w)

LEMMA OrderSuffices == OrderInv => SentInOrder
  BY Zenon DEF OrderInv, InOrder, ForwardedInOrder, OnItsWay, Ordered, SentInOrder, Received, Taken

LEMMA OrderInit == Init => OrderInv
  BY Zenon DEF Init, OrderInv, InOrder

(* What a step that leaves v alone leaves unchanged. *)
Alone(v) ==
  /\ wState'[v] = wState[v] /\ wCursor'[v] = wCursor[v] /\ wPending'[v] = wPending[v]
  /\ wOut'[v] = wOut[v] /\ wGot'[v] = wGot[v] /\ wLost'[v] = wLost[v]
  /\ wJoin'[v] = wJoin[v] /\ wCached'[v] = wCached[v]

LEMMA AloneKeeps ==
  ASSUME NEW v, InOrder(v), Alone(v)
  PROVE  InOrder(v)'
  BY Zenon DEF Alone, InOrder

(* Counting does not concern what a watcher is sent. *)
LEMMA CountingAlone ==
  ASSUME NEW w \in Watchers, NEW v, CountSkipped(w)
  PROVE  Alone(v)
  BY Zenon DEF Alone, CountSkipped, history

LEMMA OthersAlone ==
  ASSUME TypeOK, NEW w \in Watchers, NEW v \in Watchers, v # w,
         \/ Subscribe(w) \/ LoadKeyframe(w) \/ Receive(w) \/ Lagged(w) \/ CountSkipped(w)
         \/ Enqueue(w) \/ Send(w) \/ Leave(w)
  PROVE  Alone(v)
<1>1. CASE Subscribe(w)
  BY <1>1, Zenon DEF Alone, Subscribe, TypeOK
<1>2. CASE LoadKeyframe(w)
  BY <1>2, Zenon DEF Alone, LoadKeyframe, TypeOK
<1>3. CASE Receive(w)
  BY <1>3, Zenon DEF Alone, Receive, TypeOK, history
<1>4. CASE Lagged(w)
  BY <1>4, Zenon DEF Alone, Lagged, TypeOK
<1>5. CASE Enqueue(w)
  BY <1>5, Zenon DEF Alone, Enqueue, TypeOK, history
<1>6. CASE Send(w)
  BY <1>6, Zenon DEF Alone, Send, TypeOK
<1>7. CASE Leave(w)
  BY <1>7, Zenon DEF Alone, Leave, TypeOK
<1>8. CASE CountSkipped(w)
  BY <1>8, CountingAlone
<1> QED
  BY <1>1, <1>2, <1>3, <1>4, <1>5, <1>6, <1>7, <1>8

LEMMA RoomAlone ==
  ASSUME NEW c \in Connections, NEW v \in Watchers,
         \/ ConnectProducer(c) \/ MarkProducerDisconnected(c) \/ Broadcast(c)
         \/ \E key \in BOOLEAN : Accept(c, key)
  PROVE  Alone(v)
<1>1. UNCHANGED watcherVars
  BY DEF ConnectProducer, MarkProducerDisconnected, Broadcast, Accept
<1> QED
  BY <1>1 DEF watcherVars, history, Alone

(* The types of the frames on their way. *)
LEMMA OnItsWayTyped ==
  ASSUME NEW got \in Seq(Nat), NEW out \in Seq(Nat), NEW p \in Nat
  PROVE  OnItsWay(got, out, p) \in Seq(Nat)
<1>1. << >> \in Seq(Nat) /\ <<p>> \in Seq(Nat)
  OBVIOUS
<1> QED
  BY <1>1 DEF OnItsWay

LEMMA ReceivedOne ==
  ASSUME NEW got \in Seq(Nat), NEW out \in Seq(Nat), NEW n \in Nat \ {0}
  PROVE  OnItsWay(got, out, n) = Append(OnItsWay(got, out, 0), n)
<1>1. OnItsWay(got, out, 0) = got \o out \o << >> /\ OnItsWay(got, out, n) = got \o out \o <<n>>
  BY Zenon DEF OnItsWay
<1>2. got \o out \o <<n>> = Append(got \o out \o << >>, n)
  BY TakenOne
<1> QED
  BY <1>1, <1>2, Zenon

LEMMA ReceiveOrder ==
  ASSUME TypeOK, NEW w \in Watchers, InOrder(w), Receive(w)
  PROVE  InOrder(w)'
<1> DEFINE got == wGot[w]
           out == wOut[w]
           cursor == wCursor[w]
           cached == wCached[w]
           t == OnItsWay(got, out, 0)
           s == IF cached = 0 THEN t ELSE Tail(t)
           t2 == OnItsWay(got, out, cursor + 1)
           s2 == IF cached = 0 THEN t2 ELSE Tail(t2)
<1>1. /\ got \in Seq(Nat) /\ out \in Seq(Nat) /\ cursor \in Nat
      /\ wJoin[w] \in Nat /\ wLost[w] \in Nat
  BY DEF TypeOK
<1>2. wState[w] = "forwarding" /\ wPending[w] = 0
  BY DEF Receive, Receiving
<1>3. ForwardedInOrder(cached, t, wJoin[w], cursor, wLost[w])
  BY <1>2, Zenon DEF InOrder
<1>4. t \in Seq(Nat)
  <2>1. 0 \in Nat
    OBVIOUS
  <2> QED
    BY <1>1, <2>1, OnItsWayTyped, Zenon
<1>5. t2 = Append(t, cursor + 1)
  <2>1. cursor + 1 \in Nat \ {0}
    BY <1>1, SMT
  <2> QED
    BY <1>1, <2>1, ReceivedOne, Zenon
<1>6. /\ wState'[w] = "forwarding" /\ wCursor'[w] = cursor + 1 /\ wPending'[w] = cursor + 1
      /\ wOut'[w] = out /\ wGot'[w] = got /\ wLost'[w] = wLost[w]
      /\ wJoin'[w] = wJoin[w] /\ wCached'[w] = cached
  BY <1>2 DEF Receive, TypeOK, history
<1> HIDE DEF got, out, cursor, cached, t, t2
<1>7. /\ cached # 0 => t # << >> /\ Head(t) = cached
      /\ Ordered(s, wJoin[w], cursor, wLost[w])
  BY <1>3, Zenon DEF ForwardedInOrder
<1>8. s \in Seq(Nat) /\ s2 = Append(s, cursor + 1) /\ (cached # 0 => t2 # << >> /\ Head(t2) = cached)
  <2>1. cursor + 1 \in Nat
    BY <1>1, SMT
  <2>2. CASE cached = 0
    BY <1>4, <1>5, <2>2, Zenon
  <2>3. CASE cached # 0
    <3>1. t # << >> /\ Tail(t) \in Seq(Nat)
      BY <1>4, <1>7, <2>3, HeadTailProperties, Zenon
    <3>2. Tail(t2) = Append(Tail(t), cursor + 1) /\ Head(t2) = Head(t) /\ t2 # << >>
      BY <1>4, <1>5, <2>1, <3>1, TailAppended, Zenon
    <3>3. s = Tail(t) /\ s2 = Tail(t2)
      BY <2>3, Zenon
    <3> QED
      BY <1>7, <2>3, <3>1, <3>2, <3>3, Zenon
  <2> QED
    BY <2>2, <2>3
<1> HIDE DEF s
<1>9. Ordered(s2, wJoin[w], cursor + 1, wLost[w])
  BY <1>1, <1>7, <1>8, OrderedReceive, Zenon
<1>10. ForwardedInOrder(cached, t2, wJoin[w], cursor + 1, wLost[w])
  BY <1>8, <1>9, Zenon DEF ForwardedInOrder
<1>11. OnItsWay(wGot'[w], wOut'[w], wPending'[w]) = t2
  BY <1>6, Zenon DEF t2
<1> QED
  BY <1>6, <1>10, <1>11, Zenon DEF InOrder

LEMMA LaggedOrder ==
  ASSUME TypeOK, NEW w \in Watchers, InOrder(w), Lagged(w)
  PROVE  InOrder(w)'
<1> DEFINE n == Oldest - wCursor[w]
           t == OnItsWay(wGot[w], wOut[w], wPending[w])
           s == IF wCached[w] = 0 THEN t ELSE Tail(t)
<1>1. /\ wGot[w] \in Seq(Nat) /\ wOut[w] \in Seq(Nat) /\ wCursor[w] \in Nat
      /\ wJoin[w] \in Nat /\ wLost[w] \in Nat /\ wPending[w] \in Nat
      /\ Len(frames) \in Nat /\ sent \in 0..Len(frames)
  BY DEF TypeOK
<1>2. n \in Nat /\ Oldest = wCursor[w] + n
  BY <1>1, SMT DEF Lagged, Overwritten, Oldest
<1>3. wState[w] = "forwarding"
  BY DEF Lagged, Receiving
<1>4. ForwardedInOrder(wCached[w], t, wJoin[w], wCursor[w], wLost[w])
  BY <1>3, Zenon DEF InOrder
<1>5. /\ wState'[w] = wState[w] /\ wCursor'[w] = Oldest /\ wPending'[w] = wPending[w]
      /\ wOut'[w] = wOut[w] /\ wGot'[w] = wGot[w] /\ wLost'[w] = wLost[w] + n
      /\ wJoin'[w] = wJoin[w] /\ wCached'[w] = wCached[w]
  BY DEF Lagged, TypeOK
<1>6. t \in Seq(Nat)
  BY <1>1, OnItsWayTyped, Zenon
<1> HIDE DEF n, t
<1>7. /\ wCached[w] # 0 => t # << >> /\ Head(t) = wCached[w]
      /\ Ordered(s, wJoin[w], wCursor[w], wLost[w])
  BY <1>4, Zenon DEF ForwardedInOrder
<1>8. s \in Seq(Nat)
  BY <1>6, <1>7, HeadTailProperties, Zenon
<1> HIDE DEF s
<1>9. Ordered(s, wJoin[w], Oldest, wLost[w] + n)
  <2>1. Ordered(s, wJoin[w], wCursor[w] + n, wLost[w] + n)
    BY <1>1, <1>2, <1>7, <1>8, OrderedLagged, Zenon
  <2> QED
    BY <1>2, <2>1, Zenon
<1>10. ForwardedInOrder(wCached[w], t, wJoin[w], Oldest, wLost[w] + n)
  BY <1>7, <1>9, Zenon DEF ForwardedInOrder, s
<1>11. OnItsWay(wGot'[w], wOut'[w], wPending'[w]) = t
  BY <1>5, Zenon DEF t
<1> QED
  BY <1>3, <1>5, <1>10, <1>11, Zenon DEF InOrder

(* The queue and the socket only pass on. *)
LEMMA PassedOn ==
  ASSUME TypeOK, NEW w \in Watchers, Enqueue(w) \/ Send(w)
  PROVE  OnItsWay(wGot'[w], wOut'[w], wPending'[w]) = OnItsWay(wGot[w], wOut[w], wPending[w])
<1>1. wGot[w] \in Seq(Nat) /\ wOut[w] \in Seq(Nat) /\ wPending[w] \in Nat
  BY DEF TypeOK
<1>2. CASE Enqueue(w)
  <2>1. /\ wPending[w] # 0 /\ wPending'[w] = 0 /\ wGot'[w] = wGot[w]
        /\ wOut'[w] = Append(wOut[w], wPending[w])
    BY <1>2 DEF Enqueue, TypeOK, history
  <2>2. OnItsWay(wGot[w], wOut[w], wPending[w]) = wGot[w] \o wOut[w] \o <<wPending[w]>>
    BY <2>1, Zenon DEF OnItsWay
  <2>3. OnItsWay(wGot'[w], wOut'[w], wPending'[w])
          = wGot[w] \o Append(wOut[w], wPending[w]) \o << >>
    BY <2>1, Zenon DEF OnItsWay
  <2> QED
    BY <1>1, <2>2, <2>3, ForwardedSame, Zenon
<1>3. CASE Send(w)
  <2> DEFINE r == IF wPending[w] = 0 THEN << >> ELSE <<wPending[w]>>
  <2>1. /\ wPending'[w] = wPending[w] /\ wOut[w] # << >>
        /\ wGot'[w] = Append(wGot[w], Head(wOut[w])) /\ wOut'[w] = Tail(wOut[w])
    BY <1>3 DEF Send, TypeOK
  <2>2. r \in Seq(Nat)
    BY <1>1
  <2>3. OnItsWay(wGot[w], wOut[w], wPending[w]) = wGot[w] \o wOut[w] \o r
    BY Zenon DEF OnItsWay
  <2>4. OnItsWay(wGot'[w], wOut'[w], wPending'[w])
          = Append(wGot[w], Head(wOut[w])) \o Tail(wOut[w]) \o r
    BY <2>1, Zenon DEF OnItsWay
  <2> HIDE DEF r
  <2> QED
    BY <1>1, <2>1, <2>2, <2>3, <2>4, SentSame, Zenon
<1> QED
  BY <1>2, <1>3

LEMMA PassedOnOrder ==
  ASSUME TypeOK, NEW w \in Watchers, InOrder(w), Enqueue(w) \/ Send(w)
  PROVE  InOrder(w)'
<1>2. /\ wState'[w] = wState[w] /\ wCursor'[w] = wCursor[w] /\ wLost'[w] = wLost[w]
      /\ wJoin'[w] = wJoin[w] /\ wCached'[w] = wCached[w]
  BY DEF Enqueue, Send, TypeOK, history
<1>3. wState[w] # "off" /\ (wState[w] = "subscribed" => wOut[w] = << >> /\ wPending[w] = 0)
  BY Zenon DEF Enqueue, Send, InOrder
<1>4. wState[w] = "forwarding"
  BY <1>3, Zenon DEF Enqueue, Send
<1>5. OnItsWay(wGot'[w], wOut'[w], wPending'[w]) = OnItsWay(wGot[w], wOut[w], wPending[w])
  BY PassedOn
<1>6. ForwardedInOrder(wCached[w], OnItsWay(wGot[w], wOut[w], wPending[w]),
                       wJoin[w], wCursor[w], wLost[w])
  BY <1>4, Zenon DEF InOrder
<1> QED
  BY <1>2, <1>4, <1>5, <1>6, Zenon DEF InOrder

LEMMA LoadOrder ==
  ASSUME TypeOK, NEW w \in Watchers, InOrder(w), LoadKeyframe(w)
  PROVE  InOrder(w)'
<1> DEFINE k == keyframe
           t == OnItsWay(<< >>, << >>, k)
<1>1. k \in Nat /\ wJoin[w] \in Nat
  BY DEF TypeOK
<1>2. /\ wState'[w] = "forwarding" /\ wCursor'[w] = wJoin[w] /\ wPending'[w] = k
      /\ wOut'[w] = << >> /\ wGot'[w] = << >> /\ wLost'[w] = 0
      /\ wJoin'[w] = wJoin[w] /\ wCached'[w] = k
  BY DEF LoadKeyframe, InOrder, TypeOK
<1> HIDE DEF k
<1>3. /\ k = 0 => t = << >>
      /\ k # 0 => t = <<k>> /\ Head(t) = k /\ t # << >> /\ Tail(t) = << >>
  BY <1>1, SMT DEF OnItsWay
<1> HIDE DEF t
<1>4. (IF k = 0 THEN t ELSE Tail(t)) = << >>
  BY <1>3, Zenon
<1>5. Ordered(<< >>, wJoin[w], wJoin[w], 0)
  BY <1>1, OrderedNone, Zenon
<1>6. ForwardedInOrder(k, t, wJoin[w], wJoin[w], 0)
  BY <1>3, <1>4, <1>5, Zenon DEF ForwardedInOrder
<1>7. OnItsWay(wGot'[w], wOut'[w], wPending'[w]) = t
  BY <1>2, Zenon DEF t
<1> QED
  BY <1>2, <1>6, <1>7, Zenon DEF InOrder

LEMMA ComeAndGoOrder ==
  ASSUME TypeOK, NEW w \in Watchers, InOrder(w), Subscribe(w) \/ Leave(w)
  PROVE  InOrder(w)'
<1>1. CASE Subscribe(w)
  <2>1. /\ wState[w] = "off" /\ wState'[w] = "subscribed" /\ wCursor'[w] = sent /\ wJoin'[w] = sent
        /\ wOut'[w] = wOut[w] /\ wGot'[w] = wGot[w] /\ wPending'[w] = wPending[w]
        /\ wLost'[w] = wLost[w]
    BY <1>1 DEF Subscribe, TypeOK
  <2> QED
    BY <2>1, Zenon DEF InOrder
<1>2. CASE Leave(w)
  <2>1. wState'[w] = "gone"
    BY <1>2 DEF Leave, TypeOK
  <2> QED
    BY <2>1, Zenon DEF InOrder
<1> QED
  BY <1>1, <1>2

LEMMA OrderStep == IInv /\ OrderInv /\ [Next]_vars => OrderInv'
<1> SUFFICES ASSUME TypeOK, OrderInv, [Next]_vars, NEW v \in Watchers
             PROVE  InOrder(v)'
  BY Zenon DEF IInv, OrderInv
<1>1. InOrder(v)
  BY Zenon DEF OrderInv
<1>2. CASE UNCHANGED vars
  <2>1. Alone(v)
    BY <1>2 DEF vars, watcherVars, history, Alone
  <2> QED
    BY <1>1, <2>1, AloneKeeps, Zenon
<1>3. ASSUME NEW c \in Connections,
             \/ ConnectProducer(c) \/ MarkProducerDisconnected(c) \/ Broadcast(c)
             \/ \E key \in BOOLEAN : Accept(c, key)
      PROVE  InOrder(v)'
  BY <1>1, <1>3, RoomAlone, AloneKeeps, Zenon
<1>4. ASSUME NEW w \in Watchers,
             \/ Subscribe(w) \/ LoadKeyframe(w) \/ Receive(w) \/ Lagged(w) \/ CountSkipped(w)
             \/ Enqueue(w) \/ Send(w) \/ Leave(w)
      PROVE  InOrder(v)'
  <2>1. CASE v # w
    BY <1>1, <1>4, <2>1, OthersAlone, AloneKeeps, Zenon
  <2>2. CASE CountSkipped(w)
    BY <1>1, <2>2, CountingAlone, AloneKeeps, Zenon
  <2>3. CASE v = w
    BY <1>1, <1>4, <2>2, <2>3, ComeAndGoOrder, LoadOrder, ReceiveOrder, LaggedOrder,
       PassedOnOrder, Zenon
  <2> QED
    BY <2>1, <2>3
<1> QED
  BY <1>2, <1>3, <1>4, Zenon DEF Next

-----------------------------------------------------------------------------
(* What ReadersKeepUp rests on: skipping never passes over the newest frame. *)

EndsWith(s, n) == s # << >> /\ s[Len(s)] = n

(* A receiver that has been passed on all that the channel holds was passed
   on the newest frame. *)
Newest(w) ==
  wState[w] = "forwarding" =>
    \/ wCursor[w] = wJoin[w]
    \/ wCursor[w] < sent
    \/ EndsWith(OnItsWay(wGot[w], wOut[w], wPending[w]), wCursor[w])

(* Between two calls of publish_frame the channel has passed on all frames. *)
Published == publishing = NoConnection => sent = Len(frames)

NewestInv == Published /\ \A w \in Watchers : Newest(w)

(* A watcher with nothing on its way to it has been sent the newest frame,
   however often it lagged, once a frame was accepted after it joined. *)
Idle(w) ==
  /\ wState[w] = "forwarding"
  /\ wPending[w] = 0 /\ wOut[w] = << >> /\ wCursor[w] = sent
  /\ publishing = NoConnection

IdleIsUpToDate ==
  \A w \in Watchers : Idle(w) /\ Len(frames) > wJoin[w] => EndsWith(wGot[w], Len(frames))

LEMMA NewestInit == Init => NewestInv
  BY DEF Init, NewestInv, Published, Newest

LEMMA NewestSuffices == TypeOK /\ NewestInv => IdleIsUpToDate
<1> SUFFICES ASSUME TypeOK, NewestInv, NEW w \in Watchers, Idle(w), Len(frames) > wJoin[w]
             PROVE  EndsWith(wGot[w], Len(frames))
  BY DEF IdleIsUpToDate
<1>1. sent = Len(frames) /\ wCursor[w] = sent /\ wCursor[w] # wJoin[w] /\ ~(wCursor[w] < sent)
  BY DEF Idle, NewestInv, Published, TypeOK
<1>2. EndsWith(OnItsWay(wGot[w], wOut[w], wPending[w]), wCursor[w])
  BY <1>1, Zenon DEF Idle, NewestInv, Newest
<1>3. OnItsWay(wGot[w], wOut[w], wPending[w]) = wGot[w]
  BY DEF Idle, OnItsWay, TypeOK
<1> QED
  BY <1>1, <1>2, <1>3, Zenon

LEMMA PublishedStep ==
  ASSUME TypeOK, Published, [Next]_vars
  PROVE  Published'
<1>1. CASE UNCHANGED <<publishing, sent, frames>>
  BY <1>1 DEF Published
<1>2. ASSUME NEW c \in Connections,
             \/ ConnectProducer(c) \/ MarkProducerDisconnected(c) \/ Broadcast(c)
             \/ \E key \in BOOLEAN : Accept(c, key)
      PROVE  Published'
  BY <1>1, <1>2, RelayAssumption
     DEF Published, ConnectProducer, MarkProducerDisconnected, Broadcast, Accept, streamVars
<1>3. ASSUME NEW w \in Watchers,
             \/ Subscribe(w) \/ LoadKeyframe(w) \/ Receive(w) \/ Lagged(w) \/ CountSkipped(w)
             \/ Enqueue(w) \/ Send(w) \/ Leave(w)
      PROVE  Published'
  <2>1. UNCHANGED streamVars
    BY <1>3 DEF Subscribe, LoadKeyframe, Receive, Lagged, CountSkipped, Enqueue, Send, Leave
  <2> QED
    BY <1>1, <2>1 DEF streamVars
<1> QED
  BY <1>1, <1>2, <1>3 DEF Next, vars, streamVars

(* The channel only grows. *)
LEMMA SentGrows ==
  ASSUME TypeOK, [Next]_vars
  PROVE  sent \in Nat /\ sent' \in Nat /\ sent <= sent'
<1>1. sent \in Nat /\ Len(frames) \in Nat /\ sent <= Len(frames)
  BY DEF TypeOK
<1>2. sent' = sent \/ sent' = Len(frames)
  BY DEF Next, vars, streamVars, ConnectProducer, MarkProducerDisconnected, Accept, Broadcast,
     Subscribe, LoadKeyframe, Receive, Lagged, CountSkipped, Enqueue, Send, Leave
<1> QED
  BY <1>1, <1>2

LEMMA AloneNewest ==
  ASSUME NEW v \in Watchers, TypeOK, Newest(v), Alone(v), sent \in Nat, sent' \in Nat, sent <= sent'
  PROVE  Newest(v)'
<1>1. wCursor[v] \in Nat
  BY DEF TypeOK
<1>2. wCursor[v] < sent => wCursor'[v] < sent'
  BY <1>1 DEF Alone
<1> QED
  BY <1>2, Zenon DEF Alone, Newest

LEMMA WatcherNewest ==
  ASSUME TypeOK, NEW w \in Watchers, InOrder(w), Newest(w),
         \/ Subscribe(w) \/ LoadKeyframe(w) \/ Receive(w) \/ Lagged(w)
         \/ Enqueue(w) \/ Send(w) \/ Leave(w)
  PROVE  Newest(w)'
<1>1. /\ wGot[w] \in Seq(Nat) /\ wOut[w] \in Seq(Nat) /\ wPending[w] \in Nat
      /\ wCursor[w] \in Nat /\ sent \in Nat
  BY DEF TypeOK
<1>2. CASE Subscribe(w) \/ Leave(w)
  <2>1. wState'[w] # "forwarding"
    BY <1>2 DEF Subscribe, Leave, TypeOK
  <2> QED
    BY <2>1, Zenon DEF Newest
<1>3. CASE LoadKeyframe(w)
  <2>1. wCursor'[w] = wJoin'[w]
    BY <1>3 DEF LoadKeyframe, InOrder, TypeOK
  <2> QED
    BY <2>1, Zenon DEF Newest
<1>4. CASE Receive(w)
  <2>1. /\ wGot'[w] = wGot[w] /\ wOut'[w] = wOut[w]
        /\ wPending'[w] = wCursor[w] + 1 /\ wCursor'[w] = wCursor[w] + 1
    BY <1>4 DEF Receive, TypeOK, history
  <2> DEFINE t == OnItsWay(wGot[w], wOut[w], 0)
             n == wCursor[w] + 1
  <2>2. t \in Seq(Nat) /\ n \in Nat \ {0}
    <3>1. 0 \in Nat /\ n \in Nat \ {0}
      BY <1>1, SMT
    <3> QED
      BY <1>1, <3>1, OnItsWayTyped, Zenon
  <2>3. OnItsWay(wGot[w], wOut[w], n) = Append(t, n)
    BY <1>1, <2>2, ReceivedOne, Zenon
  <2> HIDE DEF t, n
  <2>4. EndsWith(Append(t, n), n)
    BY <2>2 DEF EndsWith
  <2>5. EndsWith(OnItsWay(wGot'[w], wOut'[w], wPending'[w]), wCursor'[w])
    BY <2>1, <2>3, <2>4, Zenon DEF n
  <2> QED
    BY <2>5, Zenon DEF Newest
<1>5. CASE Lagged(w)
  <2>1. wCursor'[w] = sent - BroadcastSize /\ sent' = sent
    BY <1>5 DEF Lagged, Oldest, TypeOK, streamVars
  <2>2. wCursor'[w] < sent'
    BY <1>1, <2>1, RelayAssumption
  <2> QED
    BY <2>2, Zenon DEF Newest
<1>6. CASE Enqueue(w) \/ Send(w)
  <2>1. /\ wState'[w] = wState[w] /\ wCursor'[w] = wCursor[w] /\ wJoin'[w] = wJoin[w]
        /\ sent' = sent
    BY <1>6 DEF Enqueue, Send, history, streamVars
  <2>2. OnItsWay(wGot'[w], wOut'[w], wPending'[w]) = OnItsWay(wGot[w], wOut[w], wPending[w])
    BY <1>6, PassedOn
  <2> QED
    BY <2>1, <2>2, Zenon DEF Newest
<1> QED
  BY <1>2, <1>3, <1>4, <1>5, <1>6, Zenon

LEMMA NewestStep == IInv /\ OrderInv /\ NewestInv /\ [Next]_vars => NewestInv'
<1> SUFFICES ASSUME TypeOK, OrderInv, NewestInv, [Next]_vars
             PROVE  NewestInv'
  BY Zenon DEF IInv
<1>1. Published'
  BY PublishedStep, Zenon DEF NewestInv
<1> SUFFICES ASSUME NEW v \in Watchers
             PROVE  Newest(v)'
  BY <1>1, Zenon DEF NewestInv
<1>2. Newest(v) /\ InOrder(v)
  BY Zenon DEF NewestInv, OrderInv
<1>3. sent \in Nat /\ sent' \in Nat /\ sent <= sent'
  BY SentGrows
<1>4. ASSUME Alone(v) PROVE Newest(v)'
  BY <1>2, <1>3, <1>4, AloneNewest, Zenon
<1>5. CASE UNCHANGED vars
  <2>1. Alone(v)
    BY <1>5 DEF vars, watcherVars, history, Alone
  <2> QED
    BY <1>4, <2>1
<1>6. ASSUME NEW c \in Connections,
             \/ ConnectProducer(c) \/ MarkProducerDisconnected(c) \/ Broadcast(c)
             \/ \E key \in BOOLEAN : Accept(c, key)
      PROVE  Newest(v)'
  BY <1>4, <1>6, RoomAlone, Zenon
<1>7. ASSUME NEW w \in Watchers,
             \/ Subscribe(w) \/ LoadKeyframe(w) \/ Receive(w) \/ Lagged(w) \/ CountSkipped(w)
             \/ Enqueue(w) \/ Send(w) \/ Leave(w)
      PROVE  Newest(v)'
  <2>1. CASE v # w
    BY <1>4, <1>7, <2>1, OthersAlone, Zenon
  <2>2. CASE CountSkipped(w)
    BY <1>4, <2>2, CountingAlone
  <2>3. CASE v = w
    BY <1>2, <1>7, <2>2, <2>3, WatcherNewest, Zenon
  <2> QED
    BY <2>1, <2>3
<1> QED
  BY <1>5, <1>6, <1>7, Zenon DEF Next

-----------------------------------------------------------------------------
(* The lag counters *)

(* LagCounted in parts: the frames, and how far the events may be ahead. *)
FramesCounted == laggedFrames + SumFunction(wUncounted) = SumFunction(wLost)
EventsAhead == lagEvents <= laggedFrames + Cardinality(Counting)

LEMMA LagParts == LagCounted <=> FramesCounted /\ EventsAhead
BY DEF LagCounted, FramesCounted, EventsAhead

LEMMA LagPartsNext == LagCounted' <=> FramesCounted' /\ EventsAhead'
BY DEF LagCounted, FramesCounted, EventsAhead

LEMMA LagInit == Init => LagCounted
<1> SUFFICES ASSUME Init PROVE LagCounted
  OBVIOUS
<1>1. /\ wLost = [w \in Watchers |-> 0] /\ wUncounted = [w \in Watchers |-> 0]
      /\ laggedFrames = 0 /\ lagEvents = 0
  BY DEF Init
<1>2. SumFunction(wLost) = 0 /\ SumFunction(wUncounted) = 0
  BY <1>1, WatchersAssumption, SumOfNone
<1>3. Cardinality(Counting) = 0
  <2>1. Counting = {}
    BY <1>1 DEF Counting
  <2> QED
    BY <2>1, FS_EmptySet
<1> QED
  BY <1>1, <1>2, <1>3 DEF LagCounted

LEMMA LagKept ==
  ASSUME LagCounted, UNCHANGED <<wLost, laggedFrames, lagEvents, wUncounted>>
  PROVE  LagCounted'
BY DEF LagCounted, Counting

(* The watchers whose task is counting are finitely many. *)
LEMMA CountingFinite == IsFiniteSet(Counting) /\ Cardinality(Counting) \in Nat
<1>1. Counting \in SUBSET Watchers
  BY DEF Counting
<1>2. IsFiniteSet(Counting)
  BY <1>1, WatchersAssumption, FS_Subset
<1> QED
  BY <1>2, FS_CardinalityType

(* A receiver is lagged by at least one frame, which is still to be counted;
   its task was not counting before. *)
LEMMA LagOnLagged ==
  ASSUME IInv, LagCounted, NEW w \in Watchers, Lagged(w)
  PROVE  LagCounted'
<1> DEFINE n == Oldest - wCursor[w]
<1>1. /\ wCursor[w] \in Nat /\ sent \in Nat /\ wLost \in [Watchers -> Nat]
      /\ wUncounted \in [Watchers -> Nat] /\ laggedFrames \in Nat /\ lagEvents \in Nat
  BY Positions DEF IInv, TypeOK
<1>2. n \in Nat \ {0}
  BY <1>1 DEF Lagged, Overwritten, Oldest
<1>3. /\ wLost' = [wLost EXCEPT ![w] = wLost[w] + n]
      /\ wUncounted' = [wUncounted EXCEPT ![w] = n] /\ wUncounted[w] = 0
      /\ laggedFrames' = laggedFrames /\ lagEvents' = lagEvents + 1
  BY DEF Lagged, Receiving
<1> HIDE DEF n
<1>4. PICK k \in Nat \ {0} : k = n
  BY <1>2
<1>5. FramesCounted'
  <2>1. IsFiniteSet(Watchers) /\ k \in Nat
    BY <1>4, WatchersAssumption
  <2>2. Raised(wLost, wLost', w, k)
    BY <1>3, <1>4 DEF Raised
  <2>3. Raised(wUncounted, wUncounted', w, k)
    BY <1>3, <1>4 DEF Raised
  <2>4. SumFunction(wLost') = SumFunction(wLost) + k
    BY <1>1, <2>1, <2>2, SumRaised, Zenon
  <2>5. SumFunction(wUncounted') = SumFunction(wUncounted) + k
    BY <1>1, <2>1, <2>3, SumRaised, Zenon
  <2>6. SumFunction(wUncounted) \in Nat
    BY <1>1, <2>1, SumNatural, Zenon
  <2> QED
    BY <1>1, <1>3, <1>4, <2>4, <2>5, <2>6, LagParts DEF FramesCounted
<1>6. EventsAhead'
  <2>1. Counting' = Counting \cup {w} /\ w \notin Counting
    BY <1>1, <1>3, <1>4 DEF Counting
  <2>2. Cardinality(Counting \cup {w}) = Cardinality(Counting) + 1
    BY <2>1, CountingFinite, FS_AddElement, Zenon
  <2> QED
    BY <1>1, <1>3, <2>1, <2>2, CountingFinite, LagParts DEF EventsAhead
<1> QED
  BY <1>5, <1>6, LagPartsNext

(* What is added to the counter is no longer to be counted. *)
LEMMA LagOnCount ==
  ASSUME IInv, LagCounted, NEW w \in Watchers, CountSkipped(w)
  PROVE  LagCounted'
<1>1. /\ wUncounted \in [Watchers -> Nat] /\ laggedFrames \in Nat /\ lagEvents \in Nat
  BY DEF IInv, TypeOK
<1>2. PICK k \in Nat \ {0} : k = wUncounted[w]
  BY <1>1 DEF CountSkipped
<1>3. /\ wUncounted' = [wUncounted EXCEPT ![w] = 0]
      /\ laggedFrames' = laggedFrames + k /\ lagEvents' = lagEvents /\ wLost' = wLost
  BY <1>2 DEF CountSkipped, history
<1>4. FramesCounted'
  <2>1. /\ IsFiniteSet(Watchers) /\ k \in Nat /\ wUncounted' \in [Watchers -> Nat]
    BY <1>1, <1>2, <1>3, WatchersAssumption
  <2>2. Raised(wUncounted', wUncounted, w, k)
    <3>1. wUncounted'[w] + k = wUncounted[w]
      BY <1>1, <1>2, <1>3
    <3>2. wUncounted = [wUncounted' EXCEPT ![w] = wUncounted[w]]
      BY <1>1, <1>3
    <3> QED BY <3>1, <3>2, Zenon DEF Raised
  <2>3. SumFunction(wUncounted) = SumFunction(wUncounted') + k
    BY <2>1, <2>2, SumRaised, Zenon
  <2>4. SumFunction(wUncounted') \in Nat
    BY <2>1, SumNatural, Zenon
  <2> QED
    BY <1>1, <1>2, <1>3, <2>3, <2>4, LagParts DEF FramesCounted
<1>5. EventsAhead'
  <2>1. Counting' = Counting \ {w} /\ w \in Counting
    BY <1>1, <1>2, <1>3 DEF Counting
  <2>2. Cardinality(Counting \ {w}) = Cardinality(Counting) - 1
    BY <2>1, CountingFinite, FS_RemoveElement, Zenon
  <2> QED
    BY <1>1, <1>2, <1>3, <2>1, <2>2, CountingFinite, LagParts DEF EventsAhead
<1> QED
  BY <1>4, <1>5, LagPartsNext

LEMMA LagStep == IInv /\ LagCounted /\ [Next]_vars => LagCounted'
<1> SUFFICES ASSUME IInv, LagCounted, [Next]_vars PROVE LagCounted'
  OBVIOUS
<1>1. CASE UNCHANGED vars
  BY <1>1, LagKept DEF vars, watcherVars, lagVars, history
<1>2. ASSUME NEW c \in Connections,
             \/ ConnectProducer(c) \/ MarkProducerDisconnected(c) \/ Broadcast(c)
             \/ \E key \in BOOLEAN : Accept(c, key)
      PROVE  LagCounted'
  <2>1. UNCHANGED watcherVars
    BY <1>2 DEF ConnectProducer, MarkProducerDisconnected, Accept, Broadcast
  <2> QED
    BY <2>1, LagKept DEF watcherVars, lagVars, history
<1>3. ASSUME NEW w \in Watchers,
             \/ Subscribe(w) \/ LoadKeyframe(w) \/ Receive(w)
             \/ Enqueue(w) \/ Send(w) \/ Leave(w)
      PROVE  LagCounted'
  <2>1. UNCHANGED <<wLost, laggedFrames, lagEvents, wUncounted>>
    BY <1>3 DEF Subscribe, LoadKeyframe, Receive, Enqueue, Send, Leave, lagVars, history
  <2> QED
    BY <2>1, LagKept
<1> QED
  BY <1>1, <1>2, <1>3, LagOnLagged, LagOnCount DEF Next

-----------------------------------------------------------------------------

(* Every variable keeps its type: cursors never pass the channel's end, and
   outbound queues keep to their capacity. *)
THEOREM TypeCorrect == Spec => []TypeOK
BY InductiveInvariant, PTL DEF IInv

(* No frame of a replaced producer is accepted after one of its successor. *)
THEOREM FencedCorrect == Spec => []FencedGenerations
BY InductiveInvariant, PTL DEF IInv

(* The cache holds the newest keyframe of the newest connection, or nothing. *)
THEOREM CacheCorrect == Spec => []CacheIsNewestKeyframe
BY InductiveInvariant, PTL DEF IInv

(* No keyframe falls between the cache and the channel when a watcher joins. *)
THEOREM JoinCorrect == Spec => []JoinMissesNoKeyframe
BY InductiveInvariant, PTL DEF IInv

(* Queues, sockets and skipped frames: what a watcher is sent is in order,
   and what it is not sent its receiver skipped. *)
THEOREM OrderCorrect == Spec => []SentInOrder
BY InductiveInvariant, OrderInit, OrderStep, OrderSuffices, PTL DEF Spec

(* A watcher that is idle is up to date: what lagging skips is always followed
   by a newer frame, so the picture shown last is the newest one. *)
THEOREM UpToDateCorrect == Spec => []IdleIsUpToDate
<1>1. IInv => TypeOK
  BY DEF IInv
<1> QED
  BY InductiveInvariant, OrderInit, OrderStep, NewestInit, NewestStep, NewestSuffices, <1>1, PTL
     DEF Spec

(* What record_watcher_lag promises whoever reads the counters, at any moment:
   they are short only of the frames that tasks inside it are about to add,
   and ahead by at most one event per such task, departed watchers included. *)
THEOREM LagCorrect == Spec => []LagCounted
BY InductiveInvariant, LagInit, LagStep, PTL DEF Spec
=============================================================================
