----------------------------- MODULE CommandPath -----------------------------
(***************************************************************************)
(* What the gateway promises about keyframe requests on their way to a     *)
(* room's producer, without channels, tasks and queues: a request goes to  *)
(* the newest connection and to no other, being replaced takes nothing     *)
(* from a connection, and an open connection owes its producer all that it *)
(* took on and did not send, never more than Capacity.  How a connection   *)
(* ends is left open here.  ProducerSocket implements this specification.  *)
(***************************************************************************)
EXTENDS Naturals

CONSTANTS
  Connections, NoConnection,
  Capacity    \* requests that a connection can owe

VARIABLES
  made,      \* the connections that were ever opened
  open,      \* those whose socket lives
  receiver,  \* the connection that requests go to
  owed,      \* connection: requests taken on and not sent
  sent       \* connection: requests sent to its producer

vars == <<made, open, receiver, owed, sent>>

Init ==
  /\ made = {}
  /\ open = {}
  /\ receiver = NoConnection
  /\ owed = [c \in Connections |-> 0]
  /\ sent = [c \in Connections |-> 0]

(* A connection takes the place of the last one, which stays open. *)
Connect(c) ==
  /\ c \notin made
  /\ made' = made \cup {c}
  /\ open' = open \cup {c}
  /\ receiver' = c
  /\ UNCHANGED <<owed, sent>>

Request ==
  /\ receiver \in open
  /\ owed[receiver] < Capacity
  /\ owed' = [owed EXCEPT ![receiver] = @ + 1]
  /\ UNCHANGED <<made, open, receiver, sent>>

Deliver(c) ==
  /\ owed[c] > 0
  /\ owed' = [owed EXCEPT ![c] = @ - 1]
  /\ sent' = [sent EXCEPT ![c] = @ + 1]
  /\ UNCHANGED <<made, open, receiver>>

(* The socket ends, and what it owed is void. *)
End(c) ==
  /\ c \in open
  /\ open' = open \ {c}
  /\ owed' = [owed EXCEPT ![c] = 0]
  /\ UNCHANGED <<made, receiver, sent>>

(* The room notices that its producer is gone. *)
Forget ==
  /\ receiver \notin open
  /\ receiver' = NoConnection
  /\ UNCHANGED <<made, open, owed, sent>>

Next ==
  \/ Request \/ Forget
  \/ \E c \in Connections : Connect(c) \/ Deliver(c) \/ End(c)

Spec == Init /\ [][Next]_vars
=============================================================================
