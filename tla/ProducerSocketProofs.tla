------------------------ MODULE ProducerSocketProofs ------------------------
(***************************************************************************)
(* The safety properties of ProducerSocket for any connections, capacities *)
(* and number of requests.                                                 *)
(***************************************************************************)
EXTENDS ProducerSocket, TLAPS

(* A connection that was not made yet has left no trace, and one that was has
   a forwarder. *)
Untouched ==
  \A c \in Connections :
    /\ sState[c] = "idle" <=> fState[c] = "idle"
    /\ sState[c] = "idle" =>
         /\ commandTx # c
         /\ commands[c] = 0 /\ outbound[c] = 0 /\ accepted[c] = 0 /\ delivered[c] = 0

(* A forwarder ends before its socket only when its channel is drained and
   nobody can put a command into it any more. *)
EndedIsDrained ==
  \A c \in Connections : Alive(c) /\ fState[c] = "ended" => commands[c] = 0 /\ commandTx # c

(* The inductive invariant. *)
IInv ==
  /\ TypeOK
  /\ Untouched
  /\ RequestsReachCurrent
  /\ EndedIsDrained
  /\ CommandsConserved

USE SocketAssumption DEF SocketState, ForwarderState, Alive

-----------------------------------------------------------------------------

LEMMA InitInv == Init => IInv
BY DEF Init, IInv, TypeOK, Untouched, RequestsReachCurrent, EndedIsDrained, CommandsConserved


LEMMA RequestStep ==
  ASSUME IInv, RequestForceKeyframe
  PROVE  IInv'
<1> USE DEF IInv, RequestForceKeyframe, TypeOK
<1>1. commandTx \in Connections
  BY DEF RequestsReachCurrent
<1>2. TypeOK'
  BY <1>1 DEF TryForward
<1>3. Untouched'
  BY <1>1 DEF Untouched
<1>4. RequestsReachCurrent'
  BY DEF RequestsReachCurrent
<1>5. EndedIsDrained'
  BY <1>1 DEF EndedIsDrained, TryForward
<1>6. CommandsConserved'
  <2> SUFFICES ASSUME NEW c \in Connections, Alive(c)'
               PROVE  accepted'[c] = delivered'[c] + InFlight(c)'
    BY DEF CommandsConserved
  <2>1. accepted[c] = delivered[c] + InFlight(c)
    BY DEF CommandsConserved
  <2>2. CASE c = commandTx
    <3>1. commands'[c] = commands[c] + 1 /\ accepted'[c] = accepted[c] + 1
      BY <1>1, <2>2
    <3> QED BY <2>1, <3>1 DEF InFlight
  <2>3. CASE c # commandTx
    <3>1. commands'[c] = commands[c] /\ accepted'[c] = accepted[c]
      BY <1>1, <2>3
    <3> QED BY <2>1, <3>1 DEF InFlight
  <2> QED BY <2>2, <2>3
<1> QED BY <1>2, <1>3, <1>4, <1>5, <1>6

LEMMA ConnectStep ==
  ASSUME IInv, NEW c \in Connections, ConnectProducer(c)
  PROVE  IInv'
<1> USE DEF IInv, ConnectProducer, NewCommandTx, TypeOK
<1>1. TypeOK'
  OBVIOUS
<1>2. Untouched'
  BY DEF Untouched
<1>3. RequestsReachCurrent'
  BY DEF RequestsReachCurrent
<1>4. EndedIsDrained'
  BY DEF EndedIsDrained
<1>5. CommandsConserved'
  BY DEF CommandsConserved, InFlight, Untouched
<1> QED BY <1>1, <1>2, <1>3, <1>4, <1>5

LEMMA ForwarderStep ==
  ASSUME IInv, NEW c \in Connections, TakeCommand(c) \/ QueueMessage(c) \/ EndForwarder(c)
  PROVE  IInv'
<1> USE DEF IInv, TypeOK, roomVars
<1>1. CASE TakeCommand(c)
  <2> USE <1>1 DEF TakeCommand
  <2>1. TypeOK'
    OBVIOUS
  <2>2. Untouched' /\ EndedIsDrained' /\ RequestsReachCurrent'
    BY DEF Untouched, EndedIsDrained, RequestsReachCurrent
  <2>3. CommandsConserved'
    BY DEF CommandsConserved, InFlight
  <2> QED BY <2>1, <2>2, <2>3
<1>2. CASE QueueMessage(c)
  <2> USE <1>2 DEF QueueMessage
  <2>1. TypeOK'
    OBVIOUS
  <2>2. Untouched' /\ EndedIsDrained' /\ RequestsReachCurrent'
    BY DEF Untouched, EndedIsDrained, RequestsReachCurrent
  <2>3. CommandsConserved'
    BY DEF CommandsConserved, InFlight
  <2> QED BY <2>1, <2>2, <2>3
<1>3. CASE EndForwarder(c)
  <2> USE <1>3 DEF EndForwarder, Drained
  <2>1. TypeOK'
    OBVIOUS
  <2>2. Untouched' /\ EndedIsDrained' /\ RequestsReachCurrent'
    BY DEF Untouched, EndedIsDrained, RequestsReachCurrent
  <2>3. CommandsConserved'
    BY DEF CommandsConserved, InFlight
  <2> QED BY <2>1, <2>2, <2>3
<1> QED BY <1>1, <1>2, <1>3

LEMMA SocketStep ==
  ASSUME IInv, NEW c \in Connections,
         StartSend(c) \/ FinishSend(c) \/ PeerCloses(c) \/ CloseReplaced(c)
           \/ MarkProducerDisconnected(c)
  PROVE  IInv'
<1> USE DEF IInv, TypeOK, roomVars
<1>1. CASE StartSend(c)
  <2> USE <1>1 DEF StartSend
  <2>1. TypeOK'
    OBVIOUS
  <2>2. Untouched' /\ EndedIsDrained' /\ RequestsReachCurrent'
    BY DEF Untouched, EndedIsDrained, RequestsReachCurrent
  <2>3. CommandsConserved'
    BY DEF CommandsConserved, InFlight
  <2> QED BY <2>1, <2>2, <2>3
<1>2. CASE FinishSend(c)
  <2> USE <1>2 DEF FinishSend
  <2>1. TypeOK'
    OBVIOUS
  <2>2. Untouched' /\ EndedIsDrained' /\ RequestsReachCurrent'
    BY DEF Untouched, EndedIsDrained, RequestsReachCurrent
  <2>3. CommandsConserved'
    BY DEF CommandsConserved, InFlight
  <2> QED BY <2>1, <2>2, <2>3
<1>3. CASE PeerCloses(c) \/ CloseReplaced(c)
  <2>1. Alive(c) /\ Close(c)
    BY <1>3 DEF PeerCloses, CloseReplaced, OutboundEnds
  <2> USE <2>1 DEF Close
  <2>2. TypeOK'
    OBVIOUS
  <2>3. Untouched' /\ EndedIsDrained' /\ RequestsReachCurrent'
    BY DEF Untouched, EndedIsDrained, RequestsReachCurrent
  <2>4. CommandsConserved'
    BY DEF CommandsConserved, InFlight
  <2> QED BY <2>2, <2>3, <2>4
<1>4. CASE MarkProducerDisconnected(c)
  <2> USE <1>4 DEF MarkProducerDisconnected
  <2>1. TypeOK'
    OBVIOUS
  <2>2. Untouched' /\ EndedIsDrained' /\ RequestsReachCurrent'
    BY DEF Untouched, EndedIsDrained, RequestsReachCurrent
  <2>3. CommandsConserved'
    BY DEF CommandsConserved, InFlight
  <2> QED BY <2>1, <2>2, <2>3
<1> QED BY <1>1, <1>2, <1>3, <1>4

LEMMA StepInv == IInv /\ [Next]_vars => IInv'
<1> SUFFICES ASSUME IInv, [Next]_vars PROVE IInv'
  OBVIOUS
<1>1. CASE Next
  BY <1>1, RequestStep, ConnectStep, ForwarderStep, SocketStep DEF Next
<1>2. CASE UNCHANGED vars
  BY <1>2 DEF vars, roomVars, IInv, TypeOK, Untouched, RequestsReachCurrent, EndedIsDrained,
     CommandsConserved, InFlight
<1> QED BY <1>1, <1>2

LEMMA InductiveInvariant == Spec => []IInv
BY InitInv, StepInv, PTL DEF Spec

-----------------------------------------------------------------------------

(* Every variable keeps its type; in particular the queues keep to their
   capacities. *)
THEOREM TypeCorrect == Spec => []TypeOK
BY InductiveInvariant, PTL DEF IInv

(* A request is never queued to a connection that was replaced. *)
THEOREM RequestsCorrect == Spec => []RequestsReachCurrent
BY InductiveInvariant, PTL DEF IInv

(* No accepted command is lost while its socket lives. *)
THEOREM CommandsCorrect == Spec => []CommandsConserved
BY InductiveInvariant, PTL DEF IInv

(* The gateway closes a connection only when it was replaced and drained. *)
THEOREM ReplacedClosesCorrect == Spec => ReplacedClosesDrained
<1>1. ASSUME IInv, NEW c \in Connections, CloseReplaced(c)
      PROVE  commandTx # c /\ connected # c /\ delivered[c] = accepted[c]
  <2>1. /\ sState[c] = "open" /\ fState[c] = "ended"
        /\ outbound[c] = 0 /\ commands[c] = 0 /\ commandTx # c
    BY <1>1 DEF CloseReplaced, OutboundEnds, IInv, EndedIsDrained
  <2>2. connected # c
    BY <1>1, <2>1 DEF IInv, RequestsReachCurrent
  <2>3. accepted[c] = delivered[c] + 0
    BY <1>1, <2>1 DEF IInv, CommandsConserved, InFlight
  <2> QED BY <1>1, <2>1, <2>2, <2>3 DEF IInv, TypeOK
<1>2. IInv => [\A c \in Connections : CloseReplaced(c) =>
                 /\ commandTx # c /\ connected # c
                 /\ delivered[c] = accepted[c]]_vars
  BY <1>1
<1> QED BY InductiveInvariant, <1>2, PTL DEF ReplacedClosesDrained

-----------------------------------------------------------------------------
(* The refinement.  Made, Open and Owes are what CommandPath sees. *)

Made == {c \in Connections : sState[c] # "idle"}
Open == {c \in Connections : Alive(c)}
Owes == [c \in Connections |-> Owed(c)]

(* A step that changes what one connection owes, and one that changes
   nothing of it. *)
LEMMA OwesOf ==
  ASSUME NEW c \in Connections,
         \A d \in Connections : d # c => Owed(d)' = Owed(d)
  PROVE  Owes' = [Owes EXCEPT ![c] = Owed(c)']
BY DEF Owes

LEMMA OwesKept ==
  ASSUME \A d \in Connections : Owed(d)' = Owed(d)
  PROVE  Owes' = Owes
BY DEF Owes

LEMMA PathInit == Init => Path!Init
<1> SUFFICES ASSUME Init PROVE Path!Init
  OBVIOUS
<1>1. Made = {} /\ Open = {}
  BY DEF Init, Made, Open
<1>2. Owes = [c \in Connections |-> 0]
  BY DEF Init, Owes, Owed
<1> QED BY <1>1, <1>2 DEF Init, Path!Init, Made, Open, Owes

(* An accepted request is one of CommandPath, unless the socket has ended. *)
LEMMA PathRequest ==
  ASSUME IInv, RequestForceKeyframe
  PROVE  [Path!Next]_<<Made, Open, connected, Owes, delivered>>
<1>1. commandTx \in Connections /\ commandTx = connected
  BY DEF IInv, RequestForceKeyframe, RequestsReachCurrent, TypeOK
<1>2. UNCHANGED <<Made, Open, connected, delivered>>
  BY DEF RequestForceKeyframe, Made, Open
<1>3. \A d \in Connections : d # connected => Owed(d)' = Owed(d)
  BY <1>1 DEF IInv, TypeOK, RequestForceKeyframe, Owed, InFlight
<1>4. CASE Alive(connected)
  <2>1. /\ commands[connected] \in Nat /\ commands[connected] < CommandSize
        /\ outbound[connected] \in 0..OutboundSize
        /\ commands'[connected] = commands[connected] + 1
    BY <1>1 DEF RequestForceKeyframe, TryForward, IInv, TypeOK
  <2>2. Owed(connected)' = Owed(connected) + 1
    BY <1>4, <2>1 DEF RequestForceKeyframe, Owed, InFlight
  <2>3. Owed(connected) < CommandSize + OutboundSize + 2
    BY <1>4, <2>1 DEF Owed, InFlight
  <2>4. Owes' = [Owes EXCEPT ![connected] = @ + 1] /\ Owes[connected] = Owed(connected)
    <3>1. PICK c \in Connections : c = connected
      BY <1>1
    <3>2. Owes[c] = Owed(c)
      BY DEF Owes
    <3>3. Owes' = [Owes EXCEPT ![c] = Owed(connected)']
      BY <1>1, <1>2, <1>3, <2>2, <3>1 DEF Owes
    <3> QED BY <2>2, <3>1, <3>2, <3>3
  <2>5. connected \in Open
    BY <1>1, <1>4 DEF Open
  <2>6. Path!Request
    BY <1>2, <2>3, <2>4, <2>5 DEF Path!Request, Made, Open, Owes
  <2> QED BY <2>6 DEF Path!Next
<1>5. CASE ~Alive(connected)
  <2>1. Owed(connected)' = Owed(connected)
    BY <1>5 DEF RequestForceKeyframe, Owed
  <2> QED BY <1>2, <1>3, <2>1, OwesKept
<1> QED BY <1>4, <1>5

(* A producer that connects is one of CommandPath. *)
LEMMA PathConnect ==
  ASSUME IInv, NEW c \in Connections, ConnectProducer(c)
  PROVE  Path!Connect(c)
<1>1. c \notin Made /\ Made' = Made \cup {c} /\ Open' = Open \cup {c}
  BY DEF ConnectProducer, IInv, TypeOK, Made, Open
<1>2. connected' = c /\ delivered' = delivered
  BY DEF ConnectProducer
<1>3. ASSUME NEW d \in Connections PROVE Owed(d)' = Owed(d)
  BY DEF ConnectProducer, IInv, TypeOK, Untouched, Owed, InFlight
<1>4. Owes' = Owes
  BY <1>3, OwesKept
<1> QED BY <1>1, <1>2, <1>4 DEF Path!Connect, Made, Open, Owes

(* What moves a command along the chain, and the end of a forwarder, change
   nothing of what is owed. *)
LEMMA PathForward ==
  ASSUME IInv, NEW c \in Connections,
         TakeCommand(c) \/ QueueMessage(c) \/ EndForwarder(c) \/ StartSend(c)
  PROVE  UNCHANGED <<Made, Open, connected, Owes, delivered>>
<1>1. UNCHANGED <<Made, Open, connected, delivered>>
  BY DEF TakeCommand, QueueMessage, EndForwarder, StartSend, roomVars, IInv, TypeOK, Made, Open
<1>2. ASSUME NEW d \in Connections PROVE Owed(d)' = Owed(d)
  <2>1. CASE TakeCommand(c)
    BY <2>1 DEF TakeCommand, IInv, TypeOK, Owed, InFlight
  <2>2. CASE QueueMessage(c)
    BY <2>2 DEF QueueMessage, IInv, TypeOK, Owed, InFlight
  <2>3. CASE EndForwarder(c)
    BY <2>3 DEF EndForwarder, Drained, IInv, TypeOK, Owed, InFlight
  <2>4. CASE StartSend(c)
    BY <2>4 DEF StartSend, IInv, TypeOK, Owed, InFlight
  <2> QED BY <2>1, <2>2, <2>3, <2>4
<1> QED BY <1>1, <1>2, OwesKept

LEMMA PathDeliver ==
  ASSUME IInv, NEW c \in Connections, FinishSend(c)
  PROVE  Path!Deliver(c)
<1>1. UNCHANGED <<Made, Open, connected>> /\ delivered' = [delivered EXCEPT ![c] = @ + 1]
  BY DEF FinishSend, roomVars, IInv, TypeOK, Made, Open
<1>2. \A d \in Connections : d # c => Owed(d)' = Owed(d)
  BY DEF FinishSend, IInv, TypeOK, Owed, InFlight
<1>3. Owed(c) > 0 /\ Owed(c)' = Owed(c) - 1
  BY DEF FinishSend, IInv, TypeOK, Owed, InFlight
<1>4. Owes' = [Owes EXCEPT ![c] = @ - 1] /\ Owes[c] = Owed(c)
  BY <1>2, <1>3, OwesOf DEF Owes
<1> QED BY <1>1, <1>3, <1>4 DEF Path!Deliver, Made, Open, Owes

(* However a socket ends, and when the room learns of it. *)
LEMMA PathEnd ==
  ASSUME IInv, NEW c \in Connections, PeerCloses(c) \/ CloseReplaced(c)
  PROVE  Path!End(c)
<1>1. Alive(c) /\ Close(c)
  BY DEF PeerCloses, CloseReplaced, OutboundEnds
<1>2. c \in Open /\ Open' = Open \ {c} /\ UNCHANGED <<Made, connected, delivered>>
  BY <1>1 DEF Close, roomVars, IInv, TypeOK, Made, Open
<1>3. \A d \in Connections : d # c => Owed(d)' = Owed(d)
  BY <1>1 DEF Close, IInv, TypeOK, Owed, InFlight
<1>4. Owed(c)' = 0
  BY <1>1 DEF Close, IInv, TypeOK, Owed
<1>5. Owes' = [Owes EXCEPT ![c] = 0]
  BY <1>3, <1>4, OwesOf
<1> QED BY <1>2, <1>5 DEF Path!End, Made, Open, Owes

LEMMA PathForget ==
  ASSUME IInv, NEW c \in Connections, MarkProducerDisconnected(c)
  PROVE  [Path!Next]_<<Made, Open, connected, Owes, delivered>>
<1>1. UNCHANGED <<Made, Open, delivered>>
  BY DEF MarkProducerDisconnected, IInv, TypeOK, Made, Open
<1>2. ASSUME NEW d \in Connections PROVE Owed(d)' = Owed(d)
  BY DEF MarkProducerDisconnected, IInv, TypeOK, Owed, InFlight
<1>3. Owes' = Owes
  BY <1>2, OwesKept
<1>4. CASE connected = c
  <2>1. connected \notin Open /\ connected' = NoConnection
    BY <1>4 DEF MarkProducerDisconnected, Open
  <2>2. Path!Forget
    BY <1>1, <1>3, <2>1 DEF Path!Forget, Made, Open, Owes
  <2> QED BY <2>2 DEF Path!Next
<1>5. CASE connected # c
  BY <1>1, <1>3, <1>5 DEF MarkProducerDisconnected
<1> QED BY <1>4, <1>5

LEMMA PathStep ==
  ASSUME IInv, [Next]_vars
  PROVE  [Path!Next]_<<Made, Open, connected, Owes, delivered>>
<1>1. CASE UNCHANGED vars
  BY <1>1 DEF vars, roomVars, Made, Open, Owes, Owed, InFlight
<1>2. CASE Next
  BY <1>2, PathRequest, PathConnect, PathForward, PathDeliver, PathEnd, PathForget
     DEF Next, Path!Next
<1> QED BY <1>1, <1>2

(* The channel, the two tasks and their queues keep the promise of            *)
(* CommandPath: whatever is going on when a connection is replaced, a request *)
(* goes to the newest one, and each owes what it took on until it is sent.    *)
THEOREM ImplementsPath == Spec => PathSpec
<1>1. IInv /\ [Next]_vars => [Path!Next]_<<Made, Open, connected, Owes, delivered>>
  BY PathStep
<1> QED BY PathInit, <1>1, InductiveInvariant, PTL
        DEF Spec, PathSpec, Path!Spec, Path!vars, Made, Open, Owes

-----------------------------------------------------------------------------
(* What liveness rests on: somebody can always go on, and gets nearer. *)

(* The next step of a command on its way: one of forward_commands, of the
   socket task, or of the peer that reads. *)
CommandMoves(c) ==
  \/ fState[c] = "receiving" /\ commands[c] > 0
  \/ fState[c] = "holding" /\ outbound[c] < OutboundSize
  \/ sState[c] = "open" /\ outbound[c] > 0
  \/ sState[c] = "sending"

(* The two tasks never wait for each other: while a living connection owes a
   command, one of them can take a step or its peer must read; and when a
   replaced one owes nothing, its forwarder finds the channel drained or its
   socket task the queue ended. *)
NeverStuck ==
  \A c \in Connections : Alive(c) =>
    /\ InFlight(c) > 0 => CommandMoves(c)
    /\ InFlight(c) = 0 /\ commandTx # c => Drained(c) \/ OutboundEnds(c)

(* The steps that a connection is from its close, if it takes on nothing. *)
Distance(c) ==
  4 * commands[c] + 2 * outbound[c]
    + (IF fState[c] = "holding" THEN 4 ELSE 0) + (IF fState[c] = "receiving" THEN 1 ELSE 0)
    + (IF sState[c] = "sending" THEN 1 ELSE 0)

OwnStep(c) ==
  TakeCommand(c) \/ QueueMessage(c) \/ EndForwarder(c) \/ StartSend(c) \/ FinishSend(c)

(* A replaced connection stays replaced and only gets nearer to its close:
   its own steps cannot go on for ever, and nobody else's leads away. *)
ReplacedShrinks ==
  [][\A c \in Connections : Alive(c) /\ commandTx # c =>
       /\ OwnStep(c) => Distance(c)' < Distance(c)
       /\ ~OwnStep(c) /\ Alive(c)' => Distance(c)' = Distance(c)
       /\ Alive(c)' => commandTx' # c]_vars

LEMMA StuckNot == IInv => NeverStuck
<1> SUFFICES ASSUME IInv, NEW c \in Connections, Alive(c)
             PROVE  /\ InFlight(c) > 0 => CommandMoves(c)
                    /\ InFlight(c) = 0 /\ commandTx # c => Drained(c) \/ OutboundEnds(c)
  BY DEF NeverStuck
<1>1. /\ commands[c] \in Nat /\ outbound[c] \in 0..OutboundSize
      /\ fState[c] \in {"receiving", "holding", "ended"}
      /\ fState[c] = "ended" => commands[c] = 0
  <2>1. fState[c] # "idle"
    BY DEF IInv, Untouched
  <2> QED BY <2>1 DEF IInv, TypeOK, EndedIsDrained
<1>2. ASSUME InFlight(c) > 0 PROVE CommandMoves(c)
  BY <1>1, <1>2 DEF InFlight, CommandMoves
<1>3. ASSUME InFlight(c) = 0, commandTx # c PROVE Drained(c) \/ OutboundEnds(c)
  BY <1>1, <1>3 DEF InFlight, Drained, OutboundEnds
<1> QED BY <1>2, <1>3

(* The forwarder and the socket task never wait for each other, at any fill of
   their queues and whatever was replaced. *)
THEOREM NeverStuckCorrect == Spec => []NeverStuck
BY InductiveInvariant, StuckNot, PTL

LEMMA ShrinkStep ==
  ASSUME IInv, [Next]_vars, NEW c \in Connections, Alive(c), commandTx # c
  PROVE  /\ OwnStep(c) => Distance(c)' < Distance(c)
         /\ ~OwnStep(c) /\ Alive(c)' => Distance(c)' = Distance(c)
         /\ Alive(c)' => commandTx' # c
<1>1. /\ commands[c] \in Nat /\ outbound[c] \in Nat /\ fState[c] \in ForwarderState
      /\ sState[c] # "idle" /\ sState[c] \in SocketState
  BY DEF IInv, TypeOK
<1>2. ASSUME TakeCommand(c) PROVE Distance(c)' < Distance(c)
  BY <1>1, <1>2 DEF TakeCommand, Distance, IInv, TypeOK
<1>3. ASSUME QueueMessage(c) PROVE Distance(c)' < Distance(c)
  BY <1>1, <1>3 DEF QueueMessage, Distance, IInv, TypeOK
<1>4. ASSUME EndForwarder(c) PROVE Distance(c)' < Distance(c)
  BY <1>1, <1>4 DEF EndForwarder, Drained, Distance, IInv, TypeOK
<1>5. ASSUME StartSend(c) PROVE Distance(c)' < Distance(c)
  BY <1>1, <1>5 DEF StartSend, Distance, IInv, TypeOK
<1>6. ASSUME FinishSend(c) PROVE Distance(c)' < Distance(c)
  BY <1>1, <1>6 DEF FinishSend, Distance, IInv, TypeOK
<1>7. ASSUME ~OwnStep(c), Alive(c)'
      PROVE  /\ commands'[c] = commands[c] /\ outbound'[c] = outbound[c]
             /\ fState'[c] = fState[c] /\ sState'[c] = sState[c]
  <2>1. CASE UNCHANGED vars
    BY <2>1 DEF vars
  <2>2. CASE RequestForceKeyframe
    BY <2>2 DEF RequestForceKeyframe, IInv, TypeOK
  <2>3. ASSUME NEW d \in Connections, ConnectProducer(d)
        PROVE  /\ commands'[c] = commands[c] /\ outbound'[c] = outbound[c]
               /\ fState'[c] = fState[c] /\ sState'[c] = sState[c]
    BY <1>1, <2>3 DEF ConnectProducer, IInv, TypeOK
  <2>4. ASSUME NEW d \in Connections, d # c, OwnStep(d)
        PROVE  /\ commands'[c] = commands[c] /\ outbound'[c] = outbound[c]
               /\ fState'[c] = fState[c] /\ sState'[c] = sState[c]
    BY <2>4 DEF OwnStep, TakeCommand, QueueMessage, EndForwarder, StartSend, FinishSend, IInv,
       TypeOK
  <2>5. ASSUME NEW d \in Connections, PeerCloses(d) \/ CloseReplaced(d)
        PROVE  /\ commands'[c] = commands[c] /\ outbound'[c] = outbound[c]
               /\ fState'[c] = fState[c] /\ sState'[c] = sState[c]
    BY <1>7, <2>5 DEF PeerCloses, CloseReplaced, Close, IInv, TypeOK
  <2>6. ASSUME NEW d \in Connections, MarkProducerDisconnected(d)
        PROVE  /\ commands'[c] = commands[c] /\ outbound'[c] = outbound[c]
               /\ fState'[c] = fState[c] /\ sState'[c] = sState[c]
    BY <1>7, <2>6 DEF MarkProducerDisconnected, IInv, TypeOK
  <2> QED BY <1>7, <2>1, <2>2, <2>3, <2>4, <2>5, <2>6 DEF Next, OwnStep
<1>8. commandTx' # c
  BY <1>1 DEF Next, vars, roomVars, RequestForceKeyframe, ConnectProducer, NewCommandTx, TakeCommand,
     QueueMessage, EndForwarder, StartSend, FinishSend, PeerCloses, CloseReplaced, Close,
     MarkProducerDisconnected
<1>9. OwnStep(c) => Distance(c)' < Distance(c)
  BY <1>2, <1>3, <1>4, <1>5, <1>6 DEF OwnStep
<1>10. ~OwnStep(c) /\ Alive(c)' => Distance(c)' = Distance(c)
  BY <1>7 DEF Distance
<1> QED BY <1>8, <1>9, <1>10

(* A connection that was replaced is a bounded number of its own steps away
   from its close, however many commands it had taken on. *)
THEOREM ReplacedShrinksCorrect == Spec => ReplacedShrinks
<1>1. IInv /\ [Next]_vars =>
        [\A c \in Connections : Alive(c) /\ commandTx # c =>
           /\ OwnStep(c) => Distance(c)' < Distance(c)
           /\ ~OwnStep(c) /\ Alive(c)' => Distance(c)' = Distance(c)
           /\ Alive(c)' => commandTx' # c]_vars
  BY ShrinkStep
<1> QED BY InductiveInvariant, <1>1, PTL DEF Spec, ReplacedShrinks
=============================================================================
