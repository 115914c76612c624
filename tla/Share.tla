--------------------------------- MODULE Share --------------------------------
(***************************************************************************)
(* `castkit share' from its arguments to the room, more than once: each    *)
(* producer process checks its configuration, makes an encoder of it,      *)
(* connects to the gateway, starts the capture and sends frames into one   *)
(* room, of which clients ask through the HTTP API (RoomInfo).  What goes  *)
(* on inside a process while it shares is the module Producer.             *)
(***************************************************************************)
EXTENDS RoomInfo, ProducerPolicy, Vp8Encoder

CONSTANTS
  Producers,    \* producer processes, each of which runs once
  Configs,      \* the configurations they may be given
  Display,      \* the size of the primary display
  Secret,       \* the gateway's secret
  MaxFrames,    \* bound: packets sent
  MaxElapsed    \* bound: the room's clock

ASSUME ShareAssumption ==
  /\ Configs \subseteq ProducerConfig
  /\ Display.width \in Nat /\ Display.height \in Nat
  /\ MaxFrames \in Nat /\ MaxElapsed \in Nat

VARIABLES
  phase,        \* where run_producer is
  encoder,      \* the settings of the encoder of a process that got a connection
  generation,   \* the gateway's producer_generation for it, 0 without one
  sent          \* packets sent by all processes

shareVars == <<phase, encoder, generation, sent>>
vars == <<roomVars, shareVars>>

Phase == {"off", "connected", "sharing", "ended"}

Size(p) == [width |-> encoder[p].g_w, height |-> encoder[p].g_h]

(* The encoder that run_producer asks for. *)
EncoderFor(c) ==
  LET policy == Policy(c)
      size == TargetResolution(c, Display)
  IN EncoderSettings(size.width, size.height, policy.quality,
                     policy.keyframe_interval, policy.cpu_used)

Settings == [
  g_w : Nat \ {0}, g_h : Nat \ {0}, rc_target_bitrate : Nat,
  rc_min_quantizer : 0..36, rc_max_quantizer : 37..56,
  kf_max_dist : Nat \ {0}, cpu_used : 0..16]

ShareTypeOK ==
  /\ RoomTypeOK
  /\ phase \in [Producers -> Phase]
  /\ encoder \in [Producers -> Settings \cup {None}]
  /\ generation \in [Producers -> 0..nextGeneration]
  /\ sent \in 0..MaxFrames

Init ==
  /\ RoomInit
  /\ phase = [p \in Producers |-> "off"]
  /\ encoder = [p \in Producers |-> None]
  /\ generation = [p \in Producers |-> 0]
  /\ sent = 0

-----------------------------------------------------------------------------
(* run_producer *)

(* vpx_codec_enc_init_ver accepts the settings. *)
Vp8MaxSize == 16383
EncoderAccepts(settings) ==
  /\ settings.g_w \in 1..Vp8MaxSize /\ settings.g_h \in 1..Vp8MaxSize
  /\ settings.rc_min_quantizer <= settings.rc_max_quantizer

Accepted(c) ==
  /\ PolicyAccepted(c)
  /\ ResolutionAccepted(TargetResolution(c, Display))
  /\ EncoderAccepts(EncoderFor(c))

(* handle_ingest: the token of the URL, which run_producer leaves out when it
   is missing or empty, is the secret, be that empty itself. *)
Authorised(c) == c.token \notin {None, ""} /\ c.token = Secret

Usable == { c \in Configs : Accepted(c) /\ Authorised(c) }

GoTo(p, to) == phase' = [phase EXCEPT ![p] = to]

(* Up to the connection, which comes last of what run_producer tries before
   the capture. *)
Connect(p, c) ==
  /\ phase[p] = "off"
  /\ CreateRoom \/ ConnectProducer
  /\ encoder' = [encoder EXCEPT ![p] = EncoderFor(c)]
  /\ generation' = [generation EXCEPT ![p] = nextGeneration']
  /\ GoTo(p, "connected")
  /\ UNCHANGED sent

(* Refused by from_config, target_resolution, the encoder or the gateway. *)
Refuse(p) ==
  /\ phase[p] = "off"
  /\ GoTo(p, "ended")
  /\ UNCHANGED <<roomVars, encoder, generation, sent>>

(* Capturer::new answers Ok. *)
StartCapture(p) ==
  /\ phase[p] = "connected"
  /\ GoTo(p, "sharing")
  /\ UNCHANGED <<roomVars, encoder, generation, sent>>

FrameHeaderOf(p, kind) == [
  frame_type |-> kind, timestamp_ms |-> elapsed,
  width |-> Size(p).width, height |-> Size(p).height]

(* A packet of the capture loop arrives at handle_frame; of its payload
   nothing is told. *)
SendFrame(p, kind) ==
  /\ phase[p] = "sharing"
  /\ sent < MaxFrames
  /\ sent' = sent + 1
  /\ HandleFrame(generation[p], EncodeFrame(FrameHeaderOf(p, kind), << >>))
  /\ UNCHANGED <<phase, encoder, generation>>

(* The capture does not start, ctrl-c, or an error on either side: the
   gateway's socket task ends. *)
Leave(p) ==
  /\ phase[p] \in {"connected", "sharing"}
  /\ MarkDisconnected(generation[p])
  /\ GoTo(p, "ended")
  /\ UNCHANGED <<encoder, generation, sent>>

-----------------------------------------------------------------------------
Room ==
  /\ StoreNext \/ (elapsed < MaxElapsed /\ Tick) \/ Info
  /\ UNCHANGED shareVars

Next ==
  \/ \E p \in Producers :
       \/ \E c \in Usable : Connect(p, c)
       \/ \E c \in Configs \ Usable : Refuse(p)
       \/ StartCapture(p)
       \/ \E kind \in {FRAME_KEYFRAME, FRAME_DELTA} : SendFrame(p, kind)
       \/ Leave(p)
  \/ Room

Spec == Init /\ [][Next]_vars

-----------------------------------------------------------------------------
(* Safety *)

(***************************************************************************)
(* README.md:143, frame_fresh: an answer that calls a connected producer's *)
(* frames stale is right at the moment it looks: that producer, and not    *)
(* the one before, has sent a frame, and its last one is older than the    *)
(* window.  A frame that arrives between the reading of the clock and the  *)
(* look, and a reconnect, make no stream stale.                            *)
(***************************************************************************)
StaleMeansSilent == [][
  ReadProducerState /\ seen'.connected /\ ~seen'.fresh =>
    /\ lastFrame # NoFrame /\ lastFrame + ActiveFrameWindow < elapsed
    /\ publisher = connectedGeneration ]_vars

Loaded(field) ==
  { loaded[i] : i \in {j \in 1..Len(loaded) : LoadOrder[j] = field} }

(***************************************************************************)
(* An answer's size is not older than its look at the producer: width and  *)
(* height are 0 or those a producer configured that was the newest then or *)
(* came later, whatever the wire does to them.  And its counters are       *)
(* cumulative (README.md:148): they include all that had been counted when *)
(* the call began, over every reconnect, and nothing that has not.         *)
(***************************************************************************)
AnswerIsCurrent ==
  /\ \A w \in Loaded("width") :
       w = 0 \/ \E p \in Producers : generation[p] >= since /\ generation[p] > 0 /\ Size(p).width = w
  /\ \A h \in Loaded("height") :
       h = 0 \/ \E p \in Producers : generation[p] >= since /\ generation[p] > 0 /\ Size(p).height = h
  /\ \A f \in Counters : \A n \in Loaded(f) : n \in before[f]..room[f]

(***************************************************************************)
(* A room in the answer of GET /api/rooms has no size that nobody sends:   *)
(* width and height are of one producer unless one of them is still 0,     *)
(* since no producer connects during the call.  GET /api/rooms/{id} can    *)
(* mix two.                                                                *)
(***************************************************************************)
ListedSizeIsSent ==
  caller = "list" =>
    \A w \in Loaded("width") \ {0}, h \in Loaded("height") \ {0} :
      \E p \in Producers : generation[p] > 0 /\ Size(p) = [width |-> w, height |-> h]

(***************************************************************************)
(* The unsafe calls of the capture loop stay inside their buffers at every *)
(* size that an encoder was made for: libyuv reads the frame and writes    *)
(* the planes, and libvpx reads them, within the vector that               *)
(* convert_to_yuv sizes; and no frame fails for its size.                  *)
(***************************************************************************)
BuffersCover ==
  \A p \in Producers : encoder[p] # None =>
    LET w == encoder[p].g_w
        h == encoder[p].g_h
    IN \A image \in ImageLayouts(w, h), stride \in FrameStrides(w) :
         LET fmt == YuvFormat(image) IN
         /\ Convertible(w, h, stride, fmt)
         /\ PlaneEnd(0, stride, w * 4, h) <= BgraLength(stride, h)
         /\ \A end \in YuvExtent(w, h, fmt) : end <= YuvLength(fmt)
         /\ LongEnough(YuvLength(fmt), w, h)
=============================================================================
