--------------------------- MODULE ProducerSocket ---------------------------
(***************************************************************************)
(* The way of a force-keyframe request through the gateway:                *)
(* request_force_keyframe puts a command into the channel of the current   *)
(* producer connection (crates/gateway/src/room.rs), forward_commands      *)
(* turns it into a message for the connection's outbound queue, and        *)
(* run_producer_socket sends it to the producer (ingest.rs).  The same     *)
(* chain closes a replaced connection: connect_producer drops the only     *)
(* sender of its channel.                                                  *)
(*                                                                         *)
(* All commands are the same, so the queues are counters.  Inbound frames  *)
(* leave this state alone (RoomRelay has them); when one is handled first  *)
(* the step is a stutter.                                                  *)
(***************************************************************************)
EXTENDS Naturals

CONSTANTS
  Connections,    \* producer connections to this room
  Reading,        \* those whose peer keeps reading its socket
  NoConnection,
  CommandSize,    \* capacity of a command channel: 16
  OutboundSize,   \* capacity of an outbound queue: 16
  MaxRequests     \* bound: requests accepted

ASSUME SocketAssumption ==
  /\ Reading \subseteq Connections
  /\ NoConnection \notin Connections
  /\ CommandSize \in Nat \ {0}
  /\ OutboundSize \in Nat \ {0}
  /\ MaxRequests \in Nat

VARIABLES
  connected,     \* the connection of connected_generation
  commandTx,     \* the connection command_tx leads to: the newest
  forceKeyframeRequests,  \* the room's counter
  sState,        \* connection: phase of its socket task
  fState,        \* phase of its forward_commands task
  commands,      \* its command channel
  outbound,      \* its outbound queue
  accepted, delivered     \* history: commands taken on, sent to the producer

roomVars == <<connected, commandTx, forceKeyframeRequests>>
vars == <<roomVars, sState, fState, commands, outbound, accepted, delivered>>

(***************************************************************************)
(* "open": in select!; "sending": in socket.send(..).await, where inbound  *)
(* messages wait; "closed": loop left, socket and outbound_rx dropped;     *)
(* "gone": handle_socket marked the producer disconnected.                 *)
(***************************************************************************)
SocketState == {"idle", "open", "sending", "closed", "gone"}

(* "receiving": in cmd_rx.recv(); "holding": in outbound_tx.send(..).await. *)
ForwarderState == {"idle", "receiving", "holding", "ended"}

Alive(c) == sState[c] \in {"open", "sending"}

TypeOK ==
  /\ connected \in Connections \cup {NoConnection}
  /\ commandTx \in Connections \cup {NoConnection}
  /\ forceKeyframeRequests \in Nat
  /\ sState \in [Connections -> SocketState]
  /\ fState \in [Connections -> ForwarderState]
  /\ commands \in [Connections -> 0..CommandSize]
  /\ outbound \in [Connections -> 0..OutboundSize]
  /\ accepted \in [Connections -> Nat]
  /\ delivered \in [Connections -> Nat]

Init ==
  /\ connected = NoConnection
  /\ commandTx = NoConnection
  /\ forceKeyframeRequests = 0
  /\ sState = [c \in Connections |-> "idle"]
  /\ fState = [c \in Connections |-> "idle"]
  /\ commands = [c \in Connections |-> 0]
  /\ outbound = [c \in Connections |-> 0]
  /\ accepted = [c \in Connections |-> 0]
  /\ delivered = [c \in Connections |-> 0]

-----------------------------------------------------------------------------
(* The room *)

(* Mutant of NewCommandTx: the reconnect keeps the old channel. *)
KeepCommandTx(c) == IF commandTx = NoConnection THEN c ELSE commandTx

(* connect_producer: state.command_tx = command_tx. *)
NewCommandTx(c) == c

ConnectProducer(c) ==
  /\ sState[c] = "idle"
  /\ connected' = c
  /\ commandTx' = NewCommandTx(c)
  /\ sState' = [sState EXCEPT ![c] = "open"]
  /\ fState' = [fState EXCEPT ![c] = "receiving"]
  /\ UNCHANGED <<forceKeyframeRequests, commands, outbound, accepted, delivered>>

(* command_tx.try_send succeeds. *)
TryForward(c) == fState[c] # "ended" /\ commands[c] < CommandSize

(* A watcher's `keyframe' command, taken on; one that is refused for want of
   a producer or of room only logs a warning. *)
RequestForceKeyframe ==
  /\ connected # NoConnection
  /\ TryForward(commandTx)
  /\ forceKeyframeRequests < MaxRequests
  /\ commands' = [commands EXCEPT ![commandTx] = @ + 1]
  /\ accepted' = [accepted EXCEPT ![commandTx] = @ + 1]
  /\ forceKeyframeRequests' = forceKeyframeRequests + 1
  /\ UNCHANGED <<connected, commandTx, sState, fState, outbound, delivered>>

-----------------------------------------------------------------------------
(* forward_commands *)

TakeCommand(c) ==
  /\ fState[c] = "receiving"
  /\ commands[c] > 0
  /\ commands' = [commands EXCEPT ![c] = @ - 1]
  /\ fState' = [fState EXCEPT ![c] = "holding"]
  /\ UNCHANGED <<roomVars, sState, outbound, accepted, delivered>>

(* Mutant of QueueMessage: try_send instead of send. *)
QueueMessageOrDrop(c) ==
  /\ fState[c] = "holding"
  /\ Alive(c)
  /\ outbound' = [outbound EXCEPT ![c] = IF @ < OutboundSize THEN @ + 1 ELSE @]
  /\ fState' = [fState EXCEPT ![c] = "receiving"]
  /\ UNCHANGED <<roomVars, sState, commands, accepted, delivered>>

(* Mutant of QueueMessage: an unbounded queue. *)
QueueMessageUnbounded(c) ==
  /\ fState[c] = "holding"
  /\ Alive(c)
  /\ outbound' = [outbound EXCEPT ![c] = @ + 1]
  /\ fState' = [fState EXCEPT ![c] = "receiving"]
  /\ UNCHANGED <<roomVars, sState, commands, accepted, delivered>>

QueueMessage(c) ==
  /\ fState[c] = "holding"
  /\ Alive(c)
  /\ outbound[c] < OutboundSize
  /\ outbound' = [outbound EXCEPT ![c] = @ + 1]
  /\ fState' = [fState EXCEPT ![c] = "receiving"]
  /\ UNCHANGED <<roomVars, sState, commands, accepted, delivered>>

(* The channel's sender is gone and the channel is empty. *)
Drained(c) == fState[c] = "receiving" /\ commands[c] = 0 /\ commandTx # c

(* The task ends: drained, failed by the closed outbound queue, or aborted by
   handle_socket after the socket task's end.  The channel is dropped. *)
EndForwarder(c) ==
  /\ \/ Drained(c)
     \/ fState[c] = "holding" /\ ~Alive(c)
     \/ fState[c] \in {"receiving", "holding"} /\ sState[c] \in {"closed", "gone"}
  /\ fState' = [fState EXCEPT ![c] = "ended"]
  /\ commands' = [commands EXCEPT ![c] = 0]
  /\ UNCHANGED <<roomVars, sState, outbound, accepted, delivered>>

-----------------------------------------------------------------------------
(* run_producer_socket and the rest of handle_socket *)

StartSend(c) ==
  /\ sState[c] = "open"
  /\ outbound[c] > 0
  /\ outbound' = [outbound EXCEPT ![c] = @ - 1]
  /\ sState' = [sState EXCEPT ![c] = "sending"]
  /\ UNCHANGED <<roomVars, fState, commands, accepted, delivered>>

FinishSend(c) ==
  /\ sState[c] = "sending"
  /\ sState' = [sState EXCEPT ![c] = "open"]
  /\ delivered' = [delivered EXCEPT ![c] = @ + 1]
  /\ UNCHANGED <<roomVars, fState, commands, outbound, accepted>>

Close(c) ==
  /\ sState' = [sState EXCEPT ![c] = "closed"]
  /\ outbound' = [outbound EXCEPT ![c] = 0]
  /\ UNCHANGED <<roomVars, fState, commands, accepted, delivered>>

(* The producer closes, or receiving or sending fails. *)
PeerCloses(c) == Alive(c) /\ Close(c)

(* Mutant of OutboundEnds: the end of the outbound queue is not noticed. *)
OutboundNeverEnds(c) == FALSE

(* Mutant of OutboundEnds: queued messages are given up. *)
OutboundEndsEarly(c) == sState[c] = "open" /\ fState[c] = "ended"

(* outbound_rx.recv() returned None: the forwarder has ended. *)
OutboundEnds(c) == sState[c] = "open" /\ outbound[c] = 0 /\ fState[c] = "ended"

CloseReplaced(c) == OutboundEnds(c) /\ Close(c)

MarkProducerDisconnected(c) ==
  /\ sState[c] = "closed"
  /\ sState' = [sState EXCEPT ![c] = "gone"]
  /\ connected' = IF connected = c THEN NoConnection ELSE connected
  /\ UNCHANGED <<commandTx, forceKeyframeRequests, fState, commands, outbound,
                 accepted, delivered>>

-----------------------------------------------------------------------------
Next ==
  \/ RequestForceKeyframe
  \/ \E c \in Connections :
       \/ ConnectProducer(c)
       \/ TakeCommand(c) \/ QueueMessage(c) \/ EndForwarder(c)
       \/ StartSend(c) \/ FinishSend(c) \/ PeerCloses(c) \/ CloseReplaced(c)
       \/ MarkProducerDisconnected(c)

(***************************************************************************)
(* The gateway's tasks run on; select! picks among its ready branches at   *)
(* random, so a busy socket does not starve the outbound branch.  A send   *)
(* completes only if the peer reads.                                       *)
(***************************************************************************)
Fairness ==
  /\ \A c \in Connections :
       /\ WF_vars(TakeCommand(c) \/ QueueMessage(c) \/ EndForwarder(c))
       /\ WF_vars(StartSend(c) \/ CloseReplaced(c) \/ MarkProducerDisconnected(c))
  /\ \A c \in Reading : WF_vars(FinishSend(c))

Spec == Init /\ [][Next]_vars
FairSpec == Spec /\ Fairness

-----------------------------------------------------------------------------
(* Safety *)

(***************************************************************************)
(* A request is never queued to a connection that was replaced: while the  *)
(* room has a producer, command_tx leads to it and to a connection that    *)
(* handle_socket has not finished yet.                                     *)
(***************************************************************************)
RequestsReachCurrent ==
  connected # NoConnection => commandTx = connected /\ sState[connected] \notin {"idle", "gone"}

(* Commands between the channel and the wire. *)
InFlight(c) ==
  commands[c] + outbound[c]
    + (IF fState[c] = "holding" THEN 1 ELSE 0)
    + (IF sState[c] = "sending" THEN 1 ELSE 0)

(***************************************************************************)
(* As long as a connection's socket lives, every command it took on was    *)
(* sent or is in flight: being replaced, or full queues anywhere in the    *)
(* chain, lose none.                                                       *)
(***************************************************************************)
CommandsConserved ==
  \A c \in Connections : Alive(c) => accepted[c] = delivered[c] + InFlight(c)

(***************************************************************************)
(* The gateway ends a connection itself only when it was replaced, and     *)
(* only after everything it took on was sent: the one way out besides the  *)
(* peer's is the drained chain.                                            *)
(***************************************************************************)
ReplacedClosesDrained ==
  [][\A c \in Connections : CloseReplaced(c) =>
       /\ commandTx # c /\ connected # c
       /\ delivered[c] = accepted[c]]_vars

(***************************************************************************)
(* Every interleaving of watchers, reconnects, the forwarder and socket    *)
(* tasks, at any fill of both queues, is one of CommandPath: forwarding a  *)
(* command, queueing it and starting to send it change nothing there.      *)
(***************************************************************************)
Owed(c) == IF Alive(c) THEN InFlight(c) ELSE 0

Path == INSTANCE CommandPath WITH
  Capacity <- CommandSize + OutboundSize + 2,
  made <- {c \in Connections : sState[c] # "idle"},
  open <- {c \in Connections : Alive(c)},
  receiver <- connected,
  owed <- [c \in Connections |-> Owed(c)],
  sent <- delivered

PathSpec == Path!Spec

-----------------------------------------------------------------------------
(* Liveness *)

(* A command taken on reaches a producer that reads, or its socket ends. *)
CommandsArrive ==
  \A c \in Reading : \A n \in 1..MaxRequests :
    accepted[c] >= n ~> delivered[c] >= n \/ ~Alive(c)

(***************************************************************************)
(* A replaced connection is closed by the gateway, although nothing tells  *)
(* its socket task: dropping command_tx ends forward_commands, which drops *)
(* the outbound queue, which ends the socket task.                         *)
(***************************************************************************)
ReplacedEnds ==
  \A c \in Reading : Alive(c) /\ commandTx # c ~> sState[c] = "gone"
=============================================================================
