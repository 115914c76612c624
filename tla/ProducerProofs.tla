---------------------------- MODULE ProducerProofs ----------------------------
(***************************************************************************)
(* Theorems about Producer, for every queue depth and keyframe interval,   *)
(* plain or TLS, and any number of frames and messages.                    *)
(***************************************************************************)
EXTENDS Producer, SequenceTheorems, TLAPS

(* The first number of the group of frames, each KeyframeInterval long, that
   n falls into. *)
GroupStart(n) == KeyframeInterval * (n \div KeyframeInterval)

LEMMA Grouped ==
  ASSUME NEW n \in Nat
  PROVE  /\ GroupStart(n) \in Nat /\ GroupStart(n) <= n /\ n < GroupStart(n) + KeyframeInterval
         /\ n % KeyframeInterval = n - GroupStart(n)
  BY ProducerAssumption, SMT DEF GroupStart

LEMMA SameGroup ==
  ASSUME NEW k \in Nat \ {0}, NEW a \in Nat, NEW b \in Nat, NEW n \in Nat,
         k * a <= n, n < k * a + k, k * b <= n, n < k * b + k
  PROVE  a = b
<1>1. \A i, j \in Nat : i + 1 <= j => k * i + k <= k * j
  <2>1. ASSUME NEW i \in Nat, NEW j \in Nat, i + 1 <= j PROVE k * i + k <= k * j
    <3>1. PICK d \in Nat : j = i + 1 + d
      <4>1. j - (i + 1) \in Nat /\ j = i + 1 + (j - (i + 1))
        BY <2>1, SMT
      <4> QED
        BY <4>1
    <3>2. k * j = k * i + k + k * d /\ k * d \in Nat /\ k * i \in Nat
      BY <3>1, SMT
    <3> QED
      BY <3>2, SMT
  <2> QED
    BY <2>1
<1>2. k * a \in Nat /\ k * b \in Nat
  BY SMT
<1>3. ~ (a + 1 <= b) /\ ~ (b + 1 <= a)
  BY <1>1, <1>2, SMT
<1> QED
  BY <1>3, SMT

LEMMA NextInGroup ==
  ASSUME NEW n \in Nat, (n + 1) % KeyframeInterval # 0
  PROVE  (n + 1) % KeyframeInterval = (n % KeyframeInterval) + 1
<1> DEFINE k == KeyframeInterval
           a == n \div k
           b == (n + 1) \div k
<1>1. k \in Nat \ {0} /\ n + 1 \in Nat /\ a \in Nat /\ b \in Nat
  BY ProducerAssumption, SMT
<1>2. /\ k * a \in Nat /\ k * a <= n /\ n < k * a + k /\ n % k = n - k * a
      /\ k * b \in Nat /\ k * b <= n + 1 /\ n + 1 < k * b + k /\ (n + 1) % k = (n + 1) - k * b
  BY <1>1, Grouped, Zenon DEF GroupStart
<1> HIDE DEF a, b
<1>3. k * b <= n /\ n < k * b + k
  BY <1>1, <1>2, SMT
<1>4. a = b
  BY <1>1, <1>2, <1>3, SameGroup, Zenon
<1> QED
  BY <1>1, <1>2, <1>4, SMT

-----------------------------------------------------------------------------
(* The inductive invariant *)

(* The last keyframe is not older than the last frame that was due to be one. *)
NotBehind ==
  /\ IntervalRespected
  /\ phase \in {"receiving", "draining", "polling", "encoding"} =>
       /\ frameCount = 0 => sinceKeyframe = 0
       /\ \A n \in Nat : frameCount = n + 1 => sinceKeyframe <= n % KeyframeInterval
  /\ phase = "sending" => sinceKeyframe <= frameCount % KeyframeInterval

IInv == TypeOK /\ FramesAccounted /\ RequestNotForgotten /\ NotBehind

LEMMA InitIInv == Init => IInv
<1> SUFFICES ASSUME Init PROVE IInv
  OBVIOUS
<1> USE DEF Init
<1>1. TypeOK
  <2>1. queue \in Seq(1..captured) /\ inbox \in Seq(Message) /\ Len(queue) <= QueueDepth
    BY ProducerAssumption, SMT
  <2>2. /\ capture \in {"running", "stopping", "stopped"} /\ phase \in Phase /\ packet \in Packet
        /\ forceFlag \in BOOLEAN /\ owed \in BOOLEAN
    BY DEF Phase, Packet
  <2>3. /\ captured \in Nat /\ dropped \in Nat /\ current \in 0..captured /\ stale \in Nat
        /\ frameCount \in Nat /\ received \in Nat /\ sinceKeyframe \in Nat
    BY SMT
  <2> QED
    BY <2>1, <2>2, <2>3 DEF TypeOK
<1>2. FramesAccounted /\ RequestNotForgotten
  BY SMT DEF FramesAccounted, InHand, RequestNotForgotten
<1>3. NotBehind
  BY ProducerAssumption, SMT DEF NotBehind, IntervalRespected
<1> QED
  BY <1>1, <1>2, <1>3 DEF IInv

-----------------------------------------------------------------------------
(* The steps *)

LEMMA AppendTo ==
  ASSUME NEW S, NEW s \in Seq(S), NEW e \in S
  PROVE  Append(s, e) \in Seq(S) /\ Len(Append(s, e)) = Len(s) + 1
  BY SMT

LEMMA TailOf ==
  ASSUME NEW S, NEW s \in Seq(S), s # << >>
  PROVE  Head(s) \in S /\ Tail(s) \in Seq(S) /\ Len(Tail(s)) = Len(s) - 1
  BY SMT

LEMMA CaptureFrameKeeps ==
  ASSUME IInv, CaptureFrame
  PROVE  IInv'
<1>1. /\ captured' = captured + 1
      /\ \/ Len(queue) < QueueDepth /\ queue' = Append(queue, captured') /\ dropped' = dropped
         \/ queue' = queue /\ dropped' = dropped + 1
      /\ UNCHANGED <<capture, loopVars, forceFlag, gatewayVars, history>>
  BY DEF CaptureFrame, HasRoom
<1>2. TypeOK'
  <2>1. captured \in Nat /\ queue \in Seq(1..captured) /\ Len(queue) \in Nat /\ dropped \in Nat
    BY SMT DEF IInv, TypeOK
  <2>2. 1..captured \subseteq 1..captured' /\ captured' \in 1..captured'
    BY <1>1, <2>1, SMT
  <2>3. queue \in Seq(1..captured')
    BY <2>1, <2>2, SeqMonotonic, Zenon
  <2>4. queue' \in Seq(1..captured') /\ Len(queue') <= QueueDepth
    <3>1. Append(queue, captured') \in Seq(1..captured')
      BY <2>2, <2>3, AppendTo, Zenon
    <3>2. Len(Append(queue, captured')) = Len(queue) + 1
      BY <2>2, <2>3, AppendTo, Zenon
    <3>3. CASE queue' = queue
      BY <2>3, <3>3, Zenon DEF IInv, TypeOK
    <3>4. CASE Len(queue) < QueueDepth /\ queue' = Append(queue, captured')
      <4>1. Len(queue) + 1 <= QueueDepth
        BY <2>1, <3>4, ProducerAssumption, SMT
      <4> QED
        BY <3>1, <3>2, <3>4, <4>1, Zenon
    <3> QED
      BY <1>1, <3>3, <3>4, Zenon
  <2>5. captured' \in Nat /\ dropped' \in Nat /\ current' \in 0..captured'
    BY <1>1, <2>1, SMT DEF IInv, TypeOK, loopVars
  <2> QED
    BY <1>1, <2>4, <2>5, Zenon DEF IInv, TypeOK, loopVars, gatewayVars, history
<1>3. FramesAccounted'
  <2>1. /\ captured \in Nat /\ queue \in Seq(1..captured) /\ Len(queue) \in Nat
        /\ dropped \in Nat /\ stale \in Nat /\ frameCount \in Nat
    BY SMT DEF IInv, TypeOK
  <2>2. UNCHANGED <<phase, stale, frameCount, InHand>> /\ InHand \in Nat
    BY <1>1 DEF loopVars, InHand
  <2>3. \/ Len(queue') = Len(queue) + 1 /\ dropped' = dropped
        \/ Len(queue') = Len(queue) /\ dropped' = dropped + 1
    BY <1>1, <2>1, SMT
  <2> HIDE DEF InHand
  <2> QED
    BY <1>1, <2>1, <2>2, <2>3, SMT DEF IInv, FramesAccounted
<1>4. RequestNotForgotten' /\ NotBehind'
  BY <1>1
  DEF IInv, RequestNotForgotten, NotBehind, IntervalRespected, loopVars, history
<1> QED
  BY <1>2, <1>3, <1>4 DEF IInv

LEMMA OthersKeep ==
  ASSUME IInv,
         \/ StopCapture \/ CaptureStopped
         \/ \E msg \in Message : GatewaySends(msg)
         \/ UNCHANGED vars
  PROVE  IInv'
<1>1. /\ UNCHANGED <<captured, dropped, queue, loopVars, forceFlag, history>>
      /\ capture' \in {"running", "stopping", "stopped"}
      /\ inbox' \in Seq(Message) /\ received' \in Nat
  <2>1. CASE StopCapture \/ CaptureStopped
    BY <2>1 DEF StopCapture, CaptureStopped, IInv, TypeOK, gatewayVars
  <2>2. ASSUME NEW msg \in Message, GatewaySends(msg)
        PROVE  /\ UNCHANGED <<captureVars, queue, loopVars, forceFlag, history>>
               /\ inbox' \in Seq(Message) /\ received' \in Nat
    BY <2>2, SMT DEF GatewaySends, IInv, TypeOK
  <2>3. CASE UNCHANGED vars
    BY <2>3 DEF vars, captureVars, gatewayVars, IInv, TypeOK
  <2> QED
    BY <2>1, <2>2, <2>3, Zenon DEF captureVars, IInv, TypeOK
<1>2. TypeOK'
  BY <1>1, Zenon DEF IInv, TypeOK, loopVars, history
<1>3. FramesAccounted' /\ RequestNotForgotten' /\ NotBehind'
  BY <1>1
  DEF IInv, FramesAccounted, InHand, RequestNotForgotten, NotBehind,
      IntervalRespected, loopVars, history
<1> QED
  BY <1>2, <1>3 DEF IInv

(* ReceiveFrame and DrainStale take the next frame in hand. *)
LEMMA TakeFrameKeeps ==
  ASSUME IInv, ReceiveFrame \/ DrainStale
  PROVE  IInv'
<1>1. /\ queue # << >> /\ current' = Head(queue) /\ queue' = Tail(queue) /\ phase' = "draining"
      /\ \/ phase = "receiving" /\ stale' = stale
         \/ phase = "draining" /\ stale' = stale + 1
      /\ UNCHANGED <<captureVars, frameCount, packet, forceFlag, gatewayVars, history>>
  BY DEF ReceiveFrame, DrainStale
<1>2. Head(queue) \in 1..captured /\ queue' \in Seq(1..captured) /\ Len(queue') = Len(queue) - 1
  BY <1>1, TailOf, Zenon DEF IInv, TypeOK
<1>3. captured \in Nat /\ Len(queue) \in Nat /\ stale \in Nat /\ QueueDepth \in Nat
  BY ProducerAssumption, SMT DEF IInv, TypeOK
<1>4. TypeOK'
  <2>1. current' \in 0..captured /\ Len(queue') <= QueueDepth /\ stale' \in Nat
    BY <1>1, <1>2, <1>3, SMT DEF IInv, TypeOK
  <2>2. phase' \in Phase
    BY <1>1 DEF Phase
  <2> QED
    BY <1>1, <1>2, <2>1, <2>2, Zenon DEF IInv, TypeOK, captureVars, gatewayVars, history
<1>5. FramesAccounted'
  <2>1. /\ captured \in Nat /\ dropped \in Nat /\ frameCount \in Nat
        /\ captured' = captured /\ dropped' = dropped /\ frameCount' = frameCount
    BY <1>1 DEF IInv, TypeOK, captureVars
  <2>2. /\ phase # "ended" /\ InHand' = 1 /\ stale' \in Nat
        /\ InHand + stale + 1 = 1 + stale'
    BY <1>1, <1>3, SMT DEF InHand
  <2>3. InHand \in Nat
    BY DEF InHand
  <2>4. Len(queue') = Len(queue) - 1
    BY <1>2
  <2>5. captured = frameCount + InHand + stale + dropped + Len(queue)
    BY <2>2, Zenon DEF IInv, FramesAccounted
  <2> HIDE DEF InHand
  <2>6. captured = frameCount + 1 + stale' + dropped + (Len(queue) - 1)
    <3> DEFINE i == InHand
               k == stale'
               l == Len(queue)
    <3>1. /\ captured \in Nat /\ frameCount \in Nat /\ dropped \in Nat /\ i \in Nat /\ k \in Nat
          /\ l \in Nat /\ stale \in Nat
      BY <1>3, <2>1, <2>2, <2>3
    <3>2. captured = frameCount + i + stale + dropped + l /\ i + stale + 1 = 1 + k
      BY <2>2, <2>5
    <3> HIDE DEF i, k, l
    <3>3. captured = frameCount + 1 + k + dropped + (l - 1)
      BY <3>1, <3>2, SMT
    <3> QED
      BY <3>3 DEF k, l
  <2> QED
    BY <2>1, <2>2, <2>4, <2>6, Zenon DEF FramesAccounted
<1>6. RequestNotForgotten' /\ NotBehind'
  BY <1>1, SMT
  DEF IInv, RequestNotForgotten, NotBehind, IntervalRespected, history
<1> QED
  BY <1>4, <1>5, <1>6 DEF IInv

LEMMA PollMessageKeeps ==
  ASSUME IInv, PollMessage
  PROVE  IInv'
<1>1. /\ phase = "polling" /\ inbox # << >> /\ inbox' = Tail(inbox)
      /\ phase' \in {"polling", "ended"}
      /\ forceFlag' = (forceFlag \/ Head(inbox) = "force")
      /\ owed' = (owed \/ Head(inbox) = "force")
      /\ UNCHANGED <<captureVars, queue, current, stale, frameCount, packet, received,
                     sinceKeyframe>>
  BY DEF PollMessage
<1>2. TypeOK'
  <2>1. inbox' \in Seq(Message)
    BY <1>1, TailOf, Zenon DEF IInv, TypeOK
  <2>2. phase' \in Phase
    BY <1>1 DEF Phase
  <2>3. forceFlag' \in BOOLEAN /\ owed' \in BOOLEAN
    BY <1>1, Zenon
  <2> QED
    BY <1>1, <2>1, <2>2, <2>3, Zenon DEF IInv, TypeOK, captureVars
<1>3. FramesAccounted'
  BY <1>1, SMT DEF IInv, FramesAccounted, InHand, captureVars
<1>4. NotBehind'
  BY <1>1, SMT DEF IInv, NotBehind, IntervalRespected
<1>5. RequestNotForgotten'
  BY <1>1, Zenon DEF IInv, RequestNotForgotten
<1> QED
  BY <1>2, <1>3, <1>4, <1>5 DEF IInv

(* DrainDone, PollTimesOut, LoopBreaks and LoopFails only go on or end. *)
LEMMA GoOnKeeps ==
  ASSUME IInv, DrainDone \/ PollTimesOut \/ LoopBreaks \/ LoopFails
  PROVE  IInv'
<1>1. /\ \/ phase = "draining" /\ phase' = "polling"
         \/ phase = "polling" /\ phase' = "encoding"
         \/ phase' = "ended"
      /\ UNCHANGED <<captureVars, queue, current, stale, frameCount, packet, forceFlag,
                     gatewayVars, history>>
  BY DEF DrainDone, PollTimesOut, LoopBreaks, LoopFails
<1>2. TypeOK'
  <2>1. phase' \in Phase
    BY <1>1 DEF Phase
  <2> QED
    BY <1>1, <2>1, Zenon DEF IInv, TypeOK, captureVars, gatewayVars, history
<1>3. FramesAccounted'
  BY <1>1, SMT DEF IInv, FramesAccounted, InHand, captureVars
<1>4. RequestNotForgotten' /\ NotBehind'
  BY <1>1, SMT
  DEF IInv, RequestNotForgotten, NotBehind, IntervalRespected, history
<1> QED
  BY <1>2, <1>3, <1>4 DEF IInv

LEMMA EncodeKeeps ==
  ASSUME IInv, Encode
  PROVE  IInv'
<1>1. /\ phase = "encoding" /\ phase' = "sending"
      /\ packet' \in EncoderMakes(ForceKeyframe)
      /\ forceFlag' = (forceFlag /\ Due)
      /\ sinceKeyframe' = IF packet' = "key" THEN 0 ELSE sinceKeyframe + 1
      /\ UNCHANGED <<captureVars, queue, current, stale, frameCount, gatewayVars, owed>>
  BY DEF Encode
<1>2. /\ packet' \in Packet
      /\ forceFlag \/ Due => packet' = "key"
  BY <1>1 DEF EncoderMakes, ForceKeyframe, Packet
<1>3. /\ frameCount \in Nat /\ sinceKeyframe \in Nat /\ sinceKeyframe' \in Nat
      /\ KeyframeInterval \in Nat \ {0}
      /\ frameCount % KeyframeInterval \in Nat
      /\ frameCount % KeyframeInterval < KeyframeInterval
  BY <1>1, ProducerAssumption, SMT DEF IInv, TypeOK
<1>4. TypeOK'
  <2>1. phase' \in Phase
    BY <1>1 DEF Phase
  <2>2. forceFlag' \in BOOLEAN
    BY <1>1, Zenon
  <2> QED
    BY <1>1, <1>2, <1>3, <2>1, <2>2, Zenon DEF IInv, TypeOK, captureVars, gatewayVars
<1>5. FramesAccounted'
  BY <1>1, SMT DEF IInv, FramesAccounted, InHand, captureVars
<1>6. RequestNotForgotten'
  <2>1. owed => forceFlag
    BY <1>1, SMT DEF IInv, RequestNotForgotten
  <2> QED
    BY <1>1, <1>2, <2>1, Zenon DEF RequestNotForgotten
<1>7. sinceKeyframe' <= frameCount % KeyframeInterval
  <2>1. CASE packet' = "key"
    BY <1>1, <1>3, <2>1, SMT
  <2>2. CASE packet' # "key"
    <3>1. frameCount % KeyframeInterval # 0
      BY <1>2, <2>2, Zenon DEF Due
    <3>2. frameCount # 0
      BY <1>3, <3>1, SMT
    <3>3. PICK n \in Nat : frameCount = n + 1
      <4>1. frameCount - 1 \in Nat /\ frameCount = (frameCount - 1) + 1
        BY <1>3, <3>2, SMT
      <4> QED
        BY <4>1
    <3>4. sinceKeyframe <= n % KeyframeInterval
      BY <1>1, <3>3, SMT DEF IInv, NotBehind
    <3>5. frameCount % KeyframeInterval = (n % KeyframeInterval) + 1
      BY <3>1, <3>3, NextInGroup, Zenon
    <3>6. n % KeyframeInterval \in Nat
      BY <1>3, SMT
    <3> QED
      BY <1>1, <1>3, <2>2, <3>4, <3>5, <3>6, SMT
  <2> QED
    BY <2>1, <2>2
<1>8. NotBehind'
  BY <1>1, <1>3, <1>7, SMT DEF NotBehind, IntervalRespected
<1> QED
  BY <1>4, <1>5, <1>6, <1>8 DEF IInv

LEMMA SendPacketsKeeps ==
  ASSUME IInv, SendPackets
  PROVE  IInv'
<1>1. /\ phase = "sending" /\ phase' = "receiving" /\ frameCount' = frameCount + 1
      /\ packet' = "none" /\ owed' = (owed /\ packet # "key")
      /\ UNCHANGED <<captureVars, queue, current, stale, forceFlag, gatewayVars, sinceKeyframe>>
  BY DEF SendPackets
<1>2. frameCount \in Nat
  BY DEF IInv, TypeOK
<1>3. TypeOK'
  <2>1. phase' \in Phase /\ packet' \in Packet
    BY <1>1 DEF Phase, Packet
  <2>2. frameCount' \in Nat
    BY <1>1, <1>2, SMT
  <2>3. owed' \in BOOLEAN
    BY <1>1, Zenon
  <2> QED
    BY <1>1, <2>1, <2>2, <2>3, Zenon DEF IInv, TypeOK, captureVars, gatewayVars
<1>4. FramesAccounted'
  BY <1>1, SMT DEF IInv, TypeOK, FramesAccounted, InHand, captureVars
<1>5. RequestNotForgotten'
  <2>1. owed => packet = "key"
    BY <1>1 DEF IInv, RequestNotForgotten
  <2> QED
    BY <1>1, <2>1, Zenon DEF RequestNotForgotten
<1>6. NotBehind'
  <2>1. sinceKeyframe <= frameCount % KeyframeInterval /\ IntervalRespected
    BY <1>1, SMT DEF IInv, NotBehind
  <2>2. \A n \in Nat : frameCount' = n + 1 => n = frameCount
    BY <1>1, <1>2, SMT
  <2>3. frameCount' # 0
    BY <1>1, <1>2, SMT
  <2>4. \A n \in Nat : frameCount' = n + 1 => sinceKeyframe' <= n % KeyframeInterval
    BY <1>1, <2>1, <2>2, Zenon
  <2> QED
    BY <1>1, <2>1, <2>3, <2>4, SMT DEF NotBehind, IntervalRespected
<1> QED
  BY <1>3, <1>4, <1>5, <1>6 DEF IInv

LEMMA NextKeeps == IInv /\ [Next]_vars => IInv'
  BY CaptureFrameKeeps, OthersKeep, TakeFrameKeeps, PollMessageKeeps, GoOnKeeps, EncodeKeeps,
     SendPacketsKeeps, Zenon
  DEF Next, Loop

(* The inductive invariant holds in every reachable state. *)
THEOREM Invariant == Spec => []IInv
  BY InitIInv, NextKeeps, PTL DEF Spec

-----------------------------------------------------------------------------
(***************************************************************************)
(* The producer's variables stay within their types; above all, the        *)
(* channel between the capture callback and the loop keeps its depth.      *)
(***************************************************************************)
THEOREM ProducerTypeCorrect == Spec => []TypeOK
<1>1. IInv => TypeOK
  BY DEF IInv
<1> QED
  BY <1>1, Invariant, PTL

(***************************************************************************)
(* FramesAccounted: in every order of callback, loop and shutdown the      *)
(* counters of the telemetry add up to the frames captured.                *)
(***************************************************************************)
THEOREM AccountingCorrect == Spec => []FramesAccounted
<1>1. IInv => FramesAccounted
  BY DEF IInv
<1> QED
  BY <1>1, Invariant, PTL

(***************************************************************************)
(* RequestNotForgotten: poll_force_keyframe's flag and `force_kf' lose no  *)
(* request between them, and answer it with the frame it was polled for.   *)
(***************************************************************************)
THEOREM RequestsKept == Spec => []RequestNotForgotten
<1>1. IInv => RequestNotForgotten
  BY DEF IInv
<1> QED
  BY <1>1, Invariant, PTL

(***************************************************************************)
(* IntervalRespected: a keyframe comes at the latest with every            *)
(* KeyframeInterval-th encoded frame.                                      *)
(***************************************************************************)
THEOREM IntervalCorrect == Spec => []IntervalRespected
<1>1. IInv => IntervalRespected
  BY DEF IInv, NotBehind
<1> QED
  BY <1>1, Invariant, PTL

-----------------------------------------------------------------------------
(* What StopsCompletely rests on: once the stream has stopped, the loop runs out. *)

(* The steps left to the loop's thread: six for a frame still queued, one for a
   message, and what is left of the round. *)
StepsLeft ==
  6 * Len(queue) + Len(inbox)
    + (CASE phase = "draining" -> 5 [] phase = "polling" -> 4 [] phase = "encoding" -> 3
         [] phase = "sending" -> 2 [] phase = "receiving" -> 1 [] OTHER -> 0)

(* Each step of the loop's thread shortens the way to its end, and nothing
   lengthens it but a message from the gateway, by the step that reads it. *)
WindsDown ==
  [][capture = "stopped" =>
       /\ capture' = "stopped"
       /\ Loop \/ LoopFails => StepsLeft' < StepsLeft
       /\ ~(Loop \/ LoopFails) => /\ \E msg \in Message : GatewaySends(msg)
                                  /\ StepsLeft' = StepsLeft + 1]_vars

LEMMA LoopShortens ==
  ASSUME IInv, Loop \/ LoopFails
  PROVE  StepsLeft' < StepsLeft /\ UNCHANGED capture
<1>1. /\ queue \in Seq(1..captured) /\ Len(queue) \in Nat
      /\ inbox \in Seq(Message) /\ Len(inbox) \in Nat
      /\ phase \in Phase
  BY DEF IInv, TypeOK
<1>2. queue # << >> => Len(Tail(queue)) = Len(queue) - 1 /\ Len(queue) > 0
  BY <1>1
<1>3. inbox # << >> => Len(Tail(inbox)) = Len(inbox) - 1
  BY <1>1
<1>4. CASE ReceiveFrame
  <2>1. Len(queue') = Len(queue) - 1 /\ inbox' = inbox /\ phase' = "draining"
    BY <1>2, <1>4 DEF ReceiveFrame, gatewayVars
  <2> QED BY <1>1, <1>4, <2>1 DEF StepsLeft, ReceiveFrame, captureVars
<1>5. CASE DrainStale
  <2>1. Len(queue') = Len(queue) - 1 /\ inbox' = inbox /\ phase' = phase
    BY <1>2, <1>5 DEF DrainStale, gatewayVars
  <2> QED BY <1>1, <1>5, <2>1 DEF StepsLeft, DrainStale, captureVars
<1>6. CASE PollMessage
  <2>1. /\ Len(inbox') = Len(inbox) - 1 /\ queue' = queue
        /\ phase = "polling" /\ phase' \in {"polling", "ended"}
    BY <1>3, <1>6 DEF PollMessage
  <2> QED BY <1>1, <1>6, <2>1 DEF StepsLeft, PollMessage, captureVars
<1>7. CASE LoopBreaks \/ DrainDone \/ PollTimesOut \/ Encode \/ SendPackets \/ LoopFails
  <2>1. UNCHANGED <<queue, inbox, capture>>
    BY <1>7 DEF LoopBreaks, DrainDone, PollTimesOut, Encode, SendPackets, LoopFails, gatewayVars,
                captureVars
  <2>2. \/ phase = "receiving" /\ phase' = "ended"
        \/ phase = "draining" /\ phase' = "polling"
        \/ phase = "polling" /\ phase' = "encoding"
        \/ phase = "encoding" /\ phase' = "sending"
        \/ phase = "sending" /\ phase' = "receiving"
        \/ phase \in {"polling", "encoding", "sending"} /\ phase' = "ended"
    BY <1>7 DEF LoopBreaks, DrainDone, PollTimesOut, Encode, SendPackets, LoopFails
  <2> QED BY <1>1, <2>1, <2>2 DEF StepsLeft
<1> QED
  BY <1>4, <1>5, <1>6, <1>7 DEF Loop

(***************************************************************************)
(* WindsDown: after Capturer::drop the loop's thread has a bounded number  *)
(* of steps to go, whatever is still queued; no callback adds a frame.     *)
(***************************************************************************)
THEOREM WindsDownCorrect == Spec => WindsDown
<1> DEFINE Shorter ==
      capture = "stopped" =>
        /\ capture' = "stopped"
        /\ Loop \/ LoopFails => StepsLeft' < StepsLeft
        /\ ~(Loop \/ LoopFails) => /\ \E msg \in Message : GatewaySends(msg)
                                   /\ StepsLeft' = StepsLeft + 1
<1>1. ASSUME IInv, Next PROVE Shorter
  <2> SUFFICES ASSUME capture = "stopped"
               PROVE  /\ capture' = "stopped"
                      /\ Loop \/ LoopFails => StepsLeft' < StepsLeft
                      /\ ~(Loop \/ LoopFails) =>
                           /\ \E msg \in Message : GatewaySends(msg)
                           /\ StepsLeft' = StepsLeft + 1
    OBVIOUS
  <2>1. CASE Loop \/ LoopFails
    BY <1>1, <2>1, LoopShortens
  <2>2. CASE ~(Loop \/ LoopFails)
    <3>1. PICK msg \in Message : GatewaySends(msg)
      BY <1>1, <2>2 DEF Next, CaptureFrame, StopCapture, CaptureStopped
    <3>2. /\ inbox' = Append(inbox, msg)
          /\ UNCHANGED <<capture, queue, phase>>
      BY <3>1 DEF GatewaySends, captureVars, loopVars
    <3>3. inbox \in Seq(Message) /\ Len(queue) \in Nat
      BY <1>1 DEF IInv, TypeOK
    <3>4. Len(inbox') = Len(inbox) + 1 /\ Len(inbox) \in Nat
      BY <3>2, <3>3
    <3>5. StepsLeft' = StepsLeft + 1
      BY <3>2, <3>3, <3>4 DEF StepsLeft
    <3> QED BY <2>2, <3>1, <3>2, <3>5
  <2> QED BY <2>1, <2>2
<1>2. IInv /\ [Next]_vars => [Shorter]_vars
  BY <1>1
<1> QED
  BY Invariant, <1>2, PTL DEF Spec, WindsDown
=============================================================================
