------------------------------- MODULE Viewer -------------------------------
(***************************************************************************)
(* The viewer's stream worker (web/js/stream-worker.js): one WebSocket to  *)
(* the gateway, its reconnects, one VideoDecoder, and the flags that       *)
(* decide whether a packet may be decoded.  Every handler of the worker is *)
(* one action, since nothing in it awaits.                                 *)
(*                                                                         *)
(* The worker's decoding state is the record `worker'; a function of the   *)
(* source that changes it is an operator from record to record, so that a  *)
(* handler is the composition of what it calls.  A width and height are    *)
(* one size.  VideoDecoder and WebSocket are the browser's: configure and  *)
(* reset succeed on a decoder that is not closed, and decode throws for a  *)
(* delta when the decoder requires a keyframe.                             *)
(***************************************************************************)
EXTENDS Naturals, Sequences, FiniteSets

CONSTANTS
  Sizes,           \* frame sizes
  NoSize,          \* a width or height of 0; no currentConfig
  MaxDecodeQueue,  \* MAX_DECODE_QUEUE: 5
  MaxStarts,       \* bound: start messages
  MaxDrops,        \* bound: connections that fail
  MaxFailures      \* bound: failures of the decoder

ASSUME ViewerAssumption ==
  /\ NoSize \notin Sizes
  /\ MaxDecodeQueue \in Nat /\ MaxStarts \in Nat /\ MaxDrops \in Nat /\ MaxFailures \in Nat

VARIABLES
  stopped,
  ws,           \* the current socket's place in `sockets', 0 for null
  sockets,      \* readyState of every socket made
  attached,     \* the sockets whose handlers are set
  timer,        \* reconnectTimer is set
  worker,       \* the decoding state
  errorDue,     \* a decoder failed and its error callback has not run yet
  starts, drops, failures   \* counted for the bounds

connectionVars == <<stopped, ws, sockets, attached, timer>>
boundVars == <<starts, drops, failures>>
vars == <<connectionVars, worker, errorDue, boundVars>>

Worker == [
  decoder : {"null", "unconfigured", "configured", "closed"},
  queue : 0..MaxDecodeQueue + 1,       \* decodeQueueSize
  keyRequired : BOOLEAN,               \* the decoder's [[key chunk required]]
  config : Sizes \cup {NoSize},        \* currentConfig
  size : Sizes \cup {NoSize},          \* currentWidth, currentHeight
  seenKeyframe : BOOLEAN,
  needsKeyframe : BOOLEAN,
  recent : BOOLEAN,   \* lastKeyframeRequestTime is less than 500 ms ago
  asked : BOOLEAN,    \* a request is on its way and no keyframe came since
  intact : BOOLEAN]   \* history: each video packet since a keyframe was decoded

TypeOK ==
  /\ stopped \in BOOLEAN
  /\ sockets \in Seq({"connecting", "open", "closing", "closed"})
  /\ ws \in 0..Len(sockets)
  /\ attached \subseteq 1..Len(sockets)
  /\ timer \in BOOLEAN
  /\ worker \in Worker
  /\ errorDue \in BOOLEAN
  /\ starts \in Nat /\ drops \in Nat /\ failures \in Nat

(* The script's first values; a young worker's clock is below 500 ms. *)
Idle(recent) == [
  decoder |-> "null", queue |-> 0, keyRequired |-> TRUE, config |-> NoSize, size |-> NoSize,
  seenKeyframe |-> FALSE, needsKeyframe |-> TRUE, recent |-> recent,
  asked |-> FALSE, intact |-> FALSE]

Init ==
  /\ stopped = TRUE
  /\ ws = 0
  /\ sockets = << >>
  /\ attached = {}
  /\ timer = FALSE
  /\ worker = Idle(TRUE)
  /\ errorDue = FALSE
  /\ starts = 0 /\ drops = 0 /\ failures = 0

Ready(v) == v.seenKeyframe /\ ~v.needsKeyframe

(* What every loss of the decoder's state sets. *)
NeedKeyframe(v) == [v EXCEPT !.seenKeyframe = FALSE, !.needsKeyframe = TRUE]

-----------------------------------------------------------------------------
(* The functions of the worker *)

Open == ws # 0 /\ sockets[ws] = "open"

RequestKeyframe(v, force) ==
  IF Open /\ (force \/ ~v.recent)
  THEN [v EXCEPT !.asked = TRUE, !.recent = TRUE]
  ELSE v

(* decoder.configure; decoder.reset *)
Configure(v, size) ==
  [v EXCEPT !.decoder = "configured", !.keyRequired = TRUE, !.config = size]
Reset(v) == [v EXCEPT !.decoder = "unconfigured", !.queue = 0]

(* A decoder of another size is reset first, a missing or closed one made. *)
ConfigureDecoder(v, size) ==
  LET new == v.decoder \in {"null", "closed"}
      changed == v.config # NoSize /\ v.config # size
  IN IF size = NoSize THEN v
     ELSE Configure(IF new \/ (changed /\ v.decoder = "configured") THEN Reset(v) ELSE v, size)

CloseDecoder(v) == [v EXCEPT !.decoder = "null", !.config = NoSize, !.queue = 0]

(* resetDecodeQueue(true) *)
ResetDecodeQueue(v) ==
  IF v.decoder \in {"null", "closed"} THEN v
  ELSE IF v.config = NoSize THEN Reset(v) ELSE Configure(Reset(v), v.config)

(* Mutant of ResetDecoderForBackpressure: the flags outlive the reset. *)
ResetKeepingFlags(v) == RequestKeyframe(Configure(Reset(v), v.config), FALSE)

ResetDecoderForBackpressure(v) ==
  RequestKeyframe(NeedKeyframe(Configure(Reset(v), v.config)), FALSE)

HandleResolution(v, size) == IF size = NoSize THEN v ELSE [v EXCEPT !.size = size]

-----------------------------------------------------------------------------
(* handleBinaryMessage for a video packet, in the order of the source *)

(* The checks up to decoder.state: the packet's size, and a decoder for it.
   A size is never 0 (the producer's target_resolution), so there is one. *)
Prepare(v, size) ==
  LET sized == IF size = v.size THEN v
               ELSE NeedKeyframe(ConfigureDecoder(HandleResolution(v, size), size))
  IN IF sized.decoder = "null" \/ sized.config = NoSize
     THEN ConfigureDecoder(sized, size) ELSE sized

(* The state is 'closed': a new decoder, and this packet is lost. *)
ReplaceClosed(v) ==
  RequestKeyframe(NeedKeyframe(ConfigureDecoder(CloseDecoder(v), v.size)), TRUE)

(* Mutant of SkipDelta: the requests made elsewhere have to do. *)
SkipSilently(v) == v

(* A delta that cannot be decoded asks for a keyframe again. *)
SkipDelta(v) == RequestKeyframe(v, FALSE)

(* Mutant of Overfull: the decoder's queue has no limit. *)
NeverOverfull(v) == FALSE

Overfull(v) == v.queue > MaxDecodeQueue

Decode(v, isKey) ==
  LET w == IF isKey THEN [v EXCEPT !.seenKeyframe = TRUE, !.needsKeyframe = FALSE] ELSE v
  IN IF w.keyRequired /\ ~isKey
     THEN RequestKeyframe([w EXCEPT !.needsKeyframe = TRUE, !.intact = FALSE], FALSE)
     ELSE [w EXCEPT !.keyRequired = FALSE, !.queue = @ + 1, !.intact = isKey \/ @]

HandleVideo(v, isKey, size) ==
  LET p == Prepare(v, size)
      lost == [p EXCEPT !.intact = FALSE]
  IN CASE p.decoder = "closed" -> ReplaceClosed(lost)
       [] p.decoder # "closed" /\ ~isKey /\ ~Ready(p) -> SkipDelta(lost)
       [] p.decoder # "closed" /\ (isKey \/ Ready(p)) /\ Overfull(p) ->
            ResetDecoderForBackpressure(lost)
       [] OTHER -> Decode(p, isKey)

-----------------------------------------------------------------------------
(* start and stop messages *)

(* readyState after ws.close() *)
Closed(s) == [sockets EXCEPT ![s] = IF @ \in {"connecting", "open"} THEN "closing" ELSE @]

(* Mutant of StopSocket: the socket is forgotten, but neither closed nor
   detached. *)
ForgetSocket == ws' = 0 /\ UNCHANGED <<sockets, attached>>

StopSocket ==
  /\ ws' = 0
  /\ attached' = attached \ {ws}
  /\ sockets' = IF ws = 0 THEN sockets ELSE Closed(ws)

(* lastKeyframeRequestTime becomes 0: recent only if the worker is young. *)
Stop ==
  /\ ~stopped
  /\ stopped' = TRUE
  /\ timer' = FALSE
  /\ StopSocket
  /\ worker' = Idle(FALSE)
  /\ UNCHANGED <<errorDue, boundVars>>

(* connect, in a stopped worker with no socket or from the timer. *)
NewSocket ==
  /\ sockets' = Append(sockets, "connecting")
  /\ ws' = Len(sockets')
  /\ attached' = attached \cup {ws'}

(* A start message to a stopped worker; one to a running worker is Stop and
   then Start, with nothing in between.  app.js sends no size. *)
Start(size) ==
  /\ stopped
  /\ starts < MaxStarts
  /\ starts' = starts + 1
  /\ stopped' = FALSE
  /\ worker' = ConfigureDecoder([worker EXCEPT !.size = size], size)
  /\ NewSocket
  /\ UNCHANGED <<timer, errorDue, drops, failures>>

-----------------------------------------------------------------------------
(* The socket *)

(* ws.onopen; the forced request is sent, the socket being open. *)
OnOpen ==
  worker' = [NeedKeyframe(ResetDecodeQueue(worker)) EXCEPT
               !.asked = TRUE, !.recent = TRUE, !.intact = FALSE]

SocketOpens ==
  /\ \E s \in attached :
       /\ sockets[s] = "connecting"
       /\ sockets' = [sockets EXCEPT ![s] = "open"]
  /\ OnOpen
  /\ UNCHANGED <<stopped, ws, attached, timer, errorDue, boundVars>>

(* The connection fails, or the gateway closes it: first readyState. *)
SocketDrops ==
  /\ drops < MaxDrops
  /\ drops' = drops + 1
  /\ \E s \in attached :
       /\ sockets[s] \in {"connecting", "open"}
       /\ sockets' = [sockets EXCEPT ![s] = "closing"]
  /\ UNCHANGED <<stopped, ws, attached, timer, worker, errorDue, starts, failures>>

(* Then ws.onclose, with scheduleReconnect. *)
OnClose(s) ==
  /\ sockets[s] = "closing"
  /\ sockets' = [sockets EXCEPT ![s] = "closed"]
  /\ IF s \in attached
     THEN /\ ws' = 0
          /\ attached' = attached \ {s}
          /\ worker' = NeedKeyframe([worker EXCEPT !.asked = FALSE, !.intact = FALSE])
          /\ timer' = (timer \/ ~stopped)
     ELSE UNCHANGED <<ws, attached, worker, timer>>
  /\ UNCHANGED <<stopped, errorDue, boundVars>>

(* The timer's callback: connect.  The constructor may throw, and then the
   worker waits for the next timer. *)
Reconnect ==
  /\ timer
  /\ \/ timer' = FALSE /\ NewSocket /\ UNCHANGED drops
     \/ /\ drops < MaxDrops
        /\ drops' = drops + 1
        /\ UNCHANGED <<timer, sockets, ws, attached>>
  /\ UNCHANGED <<stopped, worker, errorDue, starts, failures>>

-----------------------------------------------------------------------------
(* Packets from the gateway, on the open socket *)

Receiving == \E s \in attached : sockets[s] = "open"

DeliverVideo(isKey, size) ==
  /\ Receiving
  /\ worker' = HandleVideo([worker EXCEPT !.asked = @ /\ ~isKey], isKey, size)
  /\ UNCHANGED <<connectionVars, errorDue, boundVars>>

(* TYPE_META and TYPE_FORCE_KEYFRAME *)
DeliverMeta(size) ==
  /\ Receiving
  /\ worker' = HandleResolution(worker, size)
  /\ UNCHANGED <<connectionVars, errorDue, boundVars>>

DeliverForceKeyframe ==
  /\ Receiving
  /\ worker' = RequestKeyframe([worker EXCEPT !.needsKeyframe = TRUE], TRUE)
  /\ UNCHANGED <<connectionVars, errorDue, boundVars>>

-----------------------------------------------------------------------------
(* The decoder and the clock *)

DecoderDequeues ==
  /\ worker.queue > 0
  /\ worker' = [worker EXCEPT !.queue = @ - 1]
  /\ UNCHANGED <<connectionVars, errorDue, boundVars>>

(* The decoder fails and is closed, with its queue; the error callback may
   come after other tasks. *)
DecoderFails ==
  /\ worker.decoder = "configured"
  /\ failures < MaxFailures
  /\ failures' = failures + 1
  /\ ~errorDue
  /\ errorDue' = TRUE
  /\ worker' = [worker EXCEPT !.decoder = "closed", !.queue = 0]
  /\ UNCHANGED <<connectionVars, starts, drops>>

(* It closes the current decoder, which may be the failed one's successor. *)
DecoderError ==
  /\ errorDue
  /\ errorDue' = FALSE
  /\ worker' = RequestKeyframe(CloseDecoder(NeedKeyframe(worker)), FALSE)
  /\ UNCHANGED <<connectionVars, boundVars>>

RequestIntervalPasses ==
  /\ worker.recent
  /\ worker' = [worker EXCEPT !.recent = FALSE]
  /\ UNCHANGED <<connectionVars, errorDue, boundVars>>

-----------------------------------------------------------------------------
Next ==
  \/ Stop
  \/ \E size \in Sizes \cup {NoSize} : Start(size)
  \/ SocketOpens \/ SocketDrops \/ Reconnect
  \/ \E s \in 1..Len(sockets) : OnClose(s)
  \/ \E size \in Sizes : \E isKey \in BOOLEAN : DeliverVideo(isKey, size)
  \/ \E size \in Sizes : DeliverMeta(size)
  \/ DeliverForceKeyframe
  \/ DecoderDequeues \/ DecoderFails \/ DecoderError
  \/ RequestIntervalPasses

(***************************************************************************)
(* The browser runs its tasks and the clock goes on.  The gateway sends    *)
(* frames on an open socket and answers a request with a keyframe: this    *)
(* assumes a producer whose display keeps changing.  Starts, drops and     *)
(* decoder failures are not obliged to happen and come to an end.          *)
(***************************************************************************)
Fairness ==
  /\ WF_vars(SocketOpens) /\ WF_vars(\E s \in 1..Len(sockets) : OnClose(s))
  /\ WF_vars(Reconnect)
  /\ WF_vars(\E size \in Sizes : DeliverVideo(FALSE, size))
  /\ WF_vars(worker.asked /\ \E size \in Sizes : DeliverVideo(TRUE, size))
  /\ WF_vars(DecoderDequeues) /\ WF_vars(DecoderError) /\ WF_vars(RequestIntervalPasses)

Spec == Init /\ [][Next]_vars
FairSpec == Spec /\ Fairness

-----------------------------------------------------------------------------
(* Safety *)

(***************************************************************************)
(* The flags tell the truth about the decoder: when they let a delta pass, *)
(* the decoder (unless it just failed) is configured, has taken a keyframe *)
(* since its last configure or reset, and has been given every packet of   *)
(* this connection since that keyframe.  So after a reconnect, a resize, a *)
(* reset for backpressure or an error of a past decoder no delta is        *)
(* decoded against missing references, and decode does not throw.          *)
(***************************************************************************)
ReadyIsDecodable ==
  Ready(worker) /\ worker.decoder # "closed" =>
    /\ worker.decoder = "configured" /\ worker.config # NoSize
    /\ ~worker.keyRequired
    /\ worker.intact

(***************************************************************************)
(* The worker never has two connections: only the current socket has       *)
(* handlers, every other one is closed or closing, a pending reconnect     *)
(* means there is none, and a stopped worker has nothing left that could   *)
(* wake it (the gateway counts each connection as a watcher).              *)
(***************************************************************************)
OneConnection ==
  /\ attached = {ws} \ {0}
  /\ \A s \in 1..Len(sockets) \ {ws} : sockets[s] \in {"closing", "closed"}
  /\ timer => ws = 0
  /\ stopped => ws = 0 /\ ~timer /\ worker.decoder = "null"
  /\ ~stopped => ws # 0 \/ timer

-----------------------------------------------------------------------------
(* Liveness *)

(***************************************************************************)
(* A viewer that cannot decode recovers: whatever keyframes were lost to   *)
(* resets, to failed decoders or connections, and whatever requests the    *)
(* rate limit suppressed, it decodes again or is stopped.                  *)
(***************************************************************************)
Recovers == ~stopped /\ ~Ready(worker) ~> Ready(worker) \/ stopped
=============================================================================
