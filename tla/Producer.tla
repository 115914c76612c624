------------------------------ MODULE Producer ------------------------------
(***************************************************************************)
(* The producer (crates/producer/src/lib.rs): the capture callback of      *)
(* run_producer, which runs on the display stream's dispatch queue, the    *)
(* thread of run_capture_loop, and the shutdown by ctrl-c or by the loop's *)
(* end (also capture/src/quartz/capturer.rs).  A captured frame is its     *)
(* number; a message from the gateway is "force", any other one it may     *)
(* send, or the close of the socket.                                       *)
(***************************************************************************)
EXTENDS Naturals, Sequences

CONSTANTS
  QueueDepth,        \* capture_queue_depth, clamped to 1..8
  KeyframeInterval,  \* keyframe_interval, at least 1
  Tls,               \* the stream is not MaybeTlsStream::Plain
  MaxFrames,         \* bound: frames captured
  MaxMessages        \* bound: messages from the gateway

ASSUME ProducerAssumption ==
  /\ QueueDepth \in 1..8
  /\ KeyframeInterval \in Nat \ {0}
  /\ Tls \in BOOLEAN
  /\ MaxFrames \in Nat
  /\ MaxMessages \in Nat

VARIABLES
  capture,      \* "running", "stopping" (Capturer::drop waits), "stopped"
  captured,     \* frames the display stream has delivered
  queue,        \* the bounded channel from the callback to the loop
  dropped,      \* dropped_capture_frames
  phase,        \* where run_capture_loop is
  current,      \* frame_data: the frame in hand, 0 before the first
  stale,        \* stale_frames_dropped, over all telemetry intervals
  frameCount,   \* frame_count
  forceFlag,    \* force_kf_flag
  packet,       \* what the encoder made of the frame in hand
  inbox, received,   \* gateway messages waiting, and how many were sent
  sinceKeyframe,     \* history: encoded frames since the last keyframe
  owed               \* history: a request was read and no keyframe was sent since

captureVars == <<capture, captured, dropped>>
loopVars == <<phase, current, stale, frameCount, packet>>
gatewayVars == <<inbox, received>>
history == <<sinceKeyframe, owed>>
vars == <<captureVars, queue, loopVars, forceFlag, gatewayVars, history>>

Message == {"force", "other", "close"}
Packet == {"none", "key", "delta"}
Phase == {"receiving", "draining", "polling", "encoding", "sending", "ended"}

TypeOK ==
  /\ capture \in {"running", "stopping", "stopped"}
  /\ captured \in Nat
  /\ queue \in Seq(1..captured) /\ Len(queue) <= QueueDepth
  /\ dropped \in Nat
  /\ phase \in Phase
  /\ current \in 0..captured
  /\ stale \in Nat
  /\ frameCount \in Nat
  /\ forceFlag \in BOOLEAN
  /\ packet \in Packet
  /\ inbox \in Seq(Message)
  /\ received \in Nat
  /\ sinceKeyframe \in Nat
  /\ owed \in BOOLEAN

Init ==
  /\ capture = "running"
  /\ captured = 0
  /\ queue = << >>
  /\ dropped = 0
  /\ phase = "receiving"
  /\ current = 0
  /\ stale = 0
  /\ frameCount = 0
  /\ forceFlag = FALSE
  /\ packet = "none"
  /\ inbox = << >>
  /\ received = 0
  /\ sinceKeyframe = 0
  /\ owed = FALSE

-----------------------------------------------------------------------------
(* The capture callback and the shutdown *)

(* Mutant of HasRoom: the channel is one deeper than configured. *)
HasRoomForOneMore == Len(queue) <= QueueDepth

(* frame_tx.try_send succeeds: room in the channel, and the loop, which owns
   the receiver, still runs. *)
HasRoom == Len(queue) < QueueDepth

CaptureFrame ==
  /\ capture # "stopped"
  /\ captured < MaxFrames
  /\ captured' = captured + 1
  /\ IF HasRoom /\ phase # "ended"
     THEN queue' = Append(queue, captured') /\ UNCHANGED dropped
     ELSE dropped' = dropped + 1 /\ UNCHANGED queue
  /\ UNCHANGED <<capture, loopVars, forceFlag, gatewayVars, history>>

(* ctrl-c, or the end of the loop: run_producer drops the capturer, which
   stops the stream and waits. *)
StopCapture ==
  /\ capture = "running"
  /\ capture' = "stopping"
  /\ UNCHANGED <<captured, dropped, queue, loopVars, forceFlag, gatewayVars, history>>

(* The stream reports Stopped and is released, the callback and frame_tx
   with it. *)
CaptureStopped ==
  /\ capture = "stopping"
  /\ capture' = "stopped"
  /\ UNCHANGED <<captured, dropped, queue, loopVars, forceFlag, gatewayVars, history>>

-----------------------------------------------------------------------------
(* The gateway's side of the socket *)

GatewaySends(msg) ==
  /\ received < MaxMessages
  /\ ~\E i \in 1..Len(inbox) : inbox[i] = "close"
  /\ phase # "ended"
  /\ inbox' = Append(inbox, msg)
  /\ received' = received + 1
  /\ UNCHANGED <<captureVars, queue, loopVars, forceFlag, history>>

-----------------------------------------------------------------------------
(* run_capture_loop.  A recv_timeout that expires changes nothing. *)

ReceiveFrame ==
  /\ phase = "receiving"
  /\ queue # << >>
  /\ current' = Head(queue)
  /\ queue' = Tail(queue)
  /\ phase' = "draining"
  /\ UNCHANGED <<captureVars, stale, frameCount, packet, forceFlag, gatewayVars, history>>

(* Mutant of EndOfFrames: a disconnect is taken for one more timeout. *)
NeverEndOfFrames == FALSE

(* RecvTimeoutError::Disconnected: the channel is empty and frame_tx gone. *)
EndOfFrames == queue = << >> /\ capture = "stopped"

LoopBreaks ==
  /\ phase = "receiving"
  /\ EndOfFrames
  /\ phase' = "ended"
  /\ UNCHANGED <<captureVars, queue, current, stale, frameCount, packet, forceFlag,
                 gatewayVars, history>>

(* Mutant of DrainStale: the frame replaced is not counted. *)
DrainUncounted ==
  /\ phase = "draining"
  /\ queue # << >>
  /\ current' = Head(queue)
  /\ queue' = Tail(queue)
  /\ UNCHANGED <<captureVars, phase, stale, frameCount, packet, forceFlag, gatewayVars, history>>

DrainStale ==
  /\ phase = "draining"
  /\ queue # << >>
  /\ current' = Head(queue)
  /\ queue' = Tail(queue)
  /\ stale' = stale + 1
  /\ UNCHANGED <<captureVars, phase, frameCount, packet, forceFlag, gatewayVars, history>>

DrainDone ==
  /\ phase = "draining"
  /\ queue = << >>
  /\ phase' = "polling"
  /\ UNCHANGED <<captureVars, queue, current, stale, frameCount, packet, forceFlag,
                 gatewayVars, history>>

(* One round of poll_force_keyframe's loop. *)
PollMessage ==
  /\ phase = "polling"
  /\ inbox # << >>
  /\ inbox' = Tail(inbox)
  /\ phase' = IF Head(inbox) = "close" THEN "ended" ELSE phase
  /\ forceFlag' = (forceFlag \/ Head(inbox) = "force")
  /\ owed' = (owed \/ Head(inbox) = "force")
  /\ UNCHANGED <<captureVars, queue, current, stale, frameCount, packet, received, sinceKeyframe>>

(* The read times out; configure_socket_timeouts sets the timeout only on a
   plain stream. *)
PollTimesOut ==
  /\ phase = "polling"
  /\ inbox = << >>
  /\ ~Tls
  /\ phase' = "encoding"
  /\ UNCHANGED <<captureVars, queue, current, stale, frameCount, packet, forceFlag,
                 gatewayVars, history>>

(* Mutants of ForceKeyframe: the flag has no effect; the interval has none. *)
ForceByInterval == frameCount % KeyframeInterval = 0
ForceByFlag == forceFlag

Due == frameCount % KeyframeInterval = 0

(* force_kf *)
ForceKeyframe == Due \/ forceFlag

(* The encoder makes a keyframe when forced; else it makes a packet of either
   kind or, to keep the bitrate, none.  `||' leaves the flag alone when the
   interval forces the keyframe. *)
EncoderMakes(force) == IF force THEN {"key"} ELSE Packet

Encode ==
  /\ phase = "encoding"
  /\ packet' \in EncoderMakes(ForceKeyframe)
  /\ forceFlag' = (forceFlag /\ Due)
  /\ phase' = "sending"
  /\ sinceKeyframe' = IF packet' = "key" THEN 0 ELSE sinceKeyframe + 1
  /\ UNCHANGED <<captureVars, queue, current, stale, frameCount, gatewayVars, owed>>

SendPackets ==
  /\ phase = "sending"
  /\ phase' = "receiving"
  /\ frameCount' = frameCount + 1
  /\ packet' = "none"
  /\ owed' = (owed /\ packet # "key")
  /\ UNCHANGED <<captureVars, queue, current, stale, forceFlag, gatewayVars, sinceKeyframe>>

(* An I/O error or write timeout, or a conversion or encoder error. *)
LoopFails ==
  /\ phase \in {"polling", "encoding", "sending"}
  /\ phase' = "ended"
  /\ UNCHANGED <<captureVars, queue, current, stale, frameCount, packet, forceFlag,
                 gatewayVars, history>>

-----------------------------------------------------------------------------
Loop ==
  \/ ReceiveFrame \/ LoopBreaks \/ DrainStale \/ DrainDone
  \/ PollMessage \/ PollTimesOut \/ Encode \/ SendPackets

Next ==
  \/ CaptureFrame \/ StopCapture \/ CaptureStopped
  \/ \E msg \in Message : GatewaySends(msg)
  \/ Loop
  \/ LoopFails

(***************************************************************************)
(* The loop's thread runs on: reading and writing time out on a plain      *)
(* stream.  The end of the loop makes run_producer drop the capturer, and  *)
(* the stream answers a stop.  ctrl-c and gateway messages are not         *)
(* obliged to come; neither are frames (an unchanged display gives none).  *)
(***************************************************************************)
Fairness ==
  /\ WF_vars(Loop)
  /\ WF_vars(phase = "ended" /\ StopCapture)
  /\ WF_vars(CaptureStopped)

Spec == Init /\ [][Next]_vars
FairSpec == Spec /\ Fairness

-----------------------------------------------------------------------------
(* Safety *)

(***************************************************************************)
(* The telemetry accounts for every captured frame: it was encoded (or     *)
(* given up with the loop's error), counted as stale or dropped, or is     *)
(* still queued or in hand.                                                *)
(***************************************************************************)
InHand == IF phase \in {"draining", "polling", "encoding", "sending"} THEN 1 ELSE 0
FramesAccounted ==
  phase # "ended" => captured = frameCount + InHand + stale + dropped + Len(queue)

(***************************************************************************)
(* A request read from the socket is answered with the frame it was polled *)
(* for: until that is sent the flag is up or the keyframe in hand, and the *)
(* loop takes no other frame before.  A request that meets the interval's  *)
(* keyframe, an encoder that skips frames, and frames replaced by newer    *)
(* ones leave it standing.                                                 *)
(***************************************************************************)
RequestNotForgotten ==
  owed => \/ phase \in {"polling", "encoding"} /\ forceFlag
          \/ phase = "sending" /\ packet = "key"
          \/ phase = "ended"

(***************************************************************************)
(* README.md:88, --keyframe-interval N: at most N frames are encoded       *)
(* between keyframes, whatever the queue drops, the encoder skips and the  *)
(* requests force in between.                                              *)
(***************************************************************************)
IntervalRespected == sinceKeyframe < KeyframeInterval

-----------------------------------------------------------------------------
(* Liveness *)

(* However the producer stops, the loop and the capture both end: an error
   of the loop stops the stream, and a stopped stream ends the loop. *)
StopsCompletely ==
  capture # "running" \/ phase = "ended" ~> capture = "stopped" /\ phase = "ended"

(***************************************************************************)
(* README.md:91, --write-timeout-ms: socket stalls do not block capture    *)
(* and encode indefinitely.  So a frame in hand is encoded or the loop     *)
(* ends.                                                                   *)
(***************************************************************************)
FrameProcessed == phase = "polling" ~> phase \in {"encoding", "ended"}

(***************************************************************************)
(* A keyframe request that waits at the socket when a frame is taken for   *)
(* encoding is read and answered with that frame, whether the interval     *)
(* forces a keyframe as well or more requests follow, unless the loop      *)
(* ends.  Requests are told apart by their place among the messages.       *)
(***************************************************************************)
Read == received - Len(inbox)
WaitsWithFrame(n) == n <= received /\ Read < n /\ phase = "draining"
RequestsAnswered ==
  \A n \in 1..MaxMessages : WaitsWithFrame(n) ~> (n <= Read /\ ~owed) \/ phase = "ended"
=============================================================================
