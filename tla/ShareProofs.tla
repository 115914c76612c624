------------------------------ MODULE ShareProofs ------------------------------
(***************************************************************************)
(* Theorems about Share: what the HTTP API reports of a room, and that the *)
(* buffers cover every size an encoder was made for, for any processes,    *)
(* configurations and display, and any number of frames.                   *)
(***************************************************************************)
EXTENDS Share, SettingsProofs

LEMMA SettingsTyped ==
  ASSUME NEW w \in Nat \ {0}, NEW h \in Nat \ {0}, NEW k \in Nat \ {0},
         NEW s \in SettingsOf(w, h, k)
  PROVE  s \in Settings /\ s.g_w = w /\ s.g_h = h
  BY SMT DEF SettingsOf, Settings

LEMMA MaxSizeFits == \A n : n \in 1..Vp8MaxSize => FitsU16(n)
  BY SMT DEF Vp8MaxSize, FitsU16

LEMMA EncoderForTyped ==
  ASSUME NEW c \in Usable
  PROVE  /\ EncoderFor(c) \in Settings
         /\ FitsU16(EncoderFor(c).g_w) /\ FitsU16(EncoderFor(c).g_h)
<1> DEFINE policy == Policy(c)
           size == TargetResolution(c, Display)
<1>1. c \in ProducerConfig /\ Accepted(c)
  BY ShareAssumption DEF Usable
<1>2. /\ policy.quality \in Int /\ policy.keyframe_interval \in Nat \ {0}
      /\ policy.cpu_used \in Int
  BY <1>1, PolicyWithin, SMT DEF Accepted
<1>3. size.width \in Nat \ {0} /\ size.height \in Nat \ {0}
  BY <1>1, TargetSize, ShareAssumption, SMT
<1>4. EncoderFor(c) = EncoderSettings(size.width, size.height, policy.quality,
                                      policy.keyframe_interval, policy.cpu_used)
  BY Zenon DEF EncoderFor
<1> HIDE DEF policy, size
<1>5. EncoderFor(c) \in SettingsOf(size.width, size.height, policy.keyframe_interval)
  <2>1. size.width \in Nat /\ size.height \in Nat
    BY <1>3
  <2> QED
    BY <1>2, <1>4, <2>1, SettingsWithin, ZenonT(60)
<1>6. EncoderFor(c) \in Settings
  BY <1>2, <1>3, <1>5, SettingsTyped, Zenon
<1>7. FitsU16(EncoderFor(c).g_w) /\ FitsU16(EncoderFor(c).g_h)
  BY <1>1, MaxSizeFits, Zenon DEF Accepted, EncoderAccepts
<1> QED
  BY <1>6, <1>7

-----------------------------------------------------------------------------
(* The inductive invariant *)

Dims == {"width", "height"}

Dim(p, f) == IF f = "width" THEN encoder[p].g_w ELSE encoder[p].g_h

(* Nobody's value, or that of a producer of the generation g or a later one. *)
SizeSince(f, v, g) ==
  v = 0 \/ \E p \in Producers : generation[p] > 0 /\ generation[p] >= g /\ Dim(p, f) = v

(* A generation has one producer, whose encoder fits the wire. *)
Processes ==
  /\ \A p \in Producers : phase[p] = "off" => generation[p] = 0
  /\ \A p \in Producers : phase[p] \in {"connected", "sharing"} => generation[p] > 0
  /\ \A p \in Producers :
       generation[p] > 0 =>
         encoder[p] \in Settings /\ FitsU16(encoder[p].g_w) /\ FitsU16(encoder[p].g_h)
  /\ \A p, q \in Producers : generation[p] > 0 /\ generation[p] = generation[q] => p = q

(* The frame whose time is kept is the connected producer's. *)
Generations ==
  /\ connectedGeneration \in {0, nextGeneration}
  /\ nextGeneration = 0 => held = << >> /\ lastFrame = NoFrame
  /\ lastFrame # NoFrame /\ connectedGeneration # 0 => publisher = connectedGeneration

(* What the mutex's holder has still to store. *)
Holder ==
  /\ \A i \in 1..Len(held) :
       /\ held[i].field \in Dims => SizeSince(held[i].field, held[i].value, nextGeneration)
       /\ held[i].field \in Counters => held[i].value >= room[held[i].field]
  /\ \A i, j \in 1..Len(held) :
       held[i].field = held[j].field => held[i].value = held[j].value
  /\ shard = "connect" => held # << >>

(* A size in the room is the newest producer's, or will be when its connect is done. *)
Sizes == \A f \in Dims :
  /\ SizeSince(f, room[f], since)
  /\ \/ SizeSince(f, room[f], nextGeneration)
     \/ shard = "connect" /\ \E i \in 1..Len(held) : held[i].field = f

(* The call in progress. *)
Call ==
  /\ since \in Nat /\ (since = 0 => loaded = << >>)
  /\ caller = "none" => since = 0
  /\ caller # "none" => nextGeneration > 0
  /\ caller = "list" <=> shard = "list"
  /\ caller = "list" /\ since > 0 => since = nextGeneration
  /\ \A f \in Counters : before[f] <= room[f]

LoadedOK == \A i \in 1..Len(loaded) :
  /\ LoadOrder[i] \in Dims => SizeSince(LoadOrder[i], loaded[i], since)
  /\ LoadOrder[i] \in Counters =>
       before[LoadOrder[i]] <= loaded[i] /\ loaded[i] <= room[LoadOrder[i]]

IInv == ShareTypeOK /\ Processes /\ Generations /\ Holder /\ Sizes /\ Call /\ LoadedOK

LEMMA InitIInv == Init => IInv
<1> SUFFICES ASSUME Init PROVE IInv
  OBVIOUS
<1> USE DEF Init, RoomInit
<1>1. ShareTypeOK
  BY ShareAssumption, RoomInfoAssumption, SMT
  DEF ShareTypeOK, RoomTypeOK, Phase, Seen, NotSeen, NoCounters, Counters, Fields, LoadOrder
<1>2. Processes /\ Generations /\ Holder
  BY SMT DEF Processes, Generations, Holder
<1>3. Sizes
  BY SMT DEF Sizes, SizeSince, Dims, Fields
<1>4. Call /\ LoadedOK
  BY SMT DEF Call, LoadedOK, NoCounters, Counters, Fields
<1> QED
  BY <1>1, <1>2, <1>3, <1>4 DEF IInv

-----------------------------------------------------------------------------
(* The steps: first what they have in common. *)

LEMMA TailFacts ==
  ASSUME NEW S, NEW s \in Seq(S), s # << >>
  PROVE  /\ Tail(s) \in Seq(S) /\ Len(Tail(s)) = Len(s) - 1
         /\ 1 \in 1..Len(s) /\ s[1] \in S /\ Head(s) = s[1]
         /\ \A i \in 1..Len(Tail(s)) : i + 1 \in 1..Len(s) /\ Tail(s)[i] = s[i + 1]
<1>1. Len(s) \in Nat /\ Len(s) > 0
  BY SMT
<1>2. 1 \in 1..Len(s)
  BY <1>1, SMT
<1>3. s[1] \in S
  BY <1>2, ElementOfSeq, Zenon
<1> QED
  BY <1>1, <1>2, <1>3, SMT

(* A process that was not counted yet takes no size away. *)
LEMMA SizesRemain ==
  ASSUME ShareTypeOK, Processes, NEW p \in Producers, phase[p] = "off", NEW e, NEW n,
         encoder' = [encoder EXCEPT ![p] = e], generation' = [generation EXCEPT ![p] = n],
         NEW f, NEW v, NEW g, SizeSince(f, v, g)
  PROVE  SizeSince(f, v, g)'
<1>1. CASE v = 0
  BY <1>1 DEF SizeSince
<1>2. CASE v # 0
  <2>1. PICK q \in Producers : generation[q] > 0 /\ generation[q] >= g /\ Dim(q, f) = v
    BY <1>2 DEF SizeSince
  <2>2. q # p
    BY <2>1, SMT DEF Processes
  <2>3. generation'[q] = generation[q] /\ encoder'[q] = encoder[q]
    BY <2>2 DEF ShareTypeOK
  <2>4. Dim(q, f)' = Dim(q, f)
    BY <2>3 DEF Dim
  <2> QED
    BY <2>1, <2>3, <2>4 DEF SizeSince
<1> QED
  BY <1>1, <1>2

LEMMA SizesSame ==
  ASSUME UNCHANGED <<encoder, generation>>
  PROVE  \A f, v, g : SizeSince(f, v, g)' <=> SizeSince(f, v, g)
  BY DEF SizeSince, Dim

(* What the newest producer sends is current whenever the look was. *)
LEMMA NewestIsSince ==
  ASSUME ShareTypeOK, NEW f, NEW v, NEW g \in Nat, g <= nextGeneration,
         SizeSince(f, v, nextGeneration)
  PROVE  SizeSince(f, v, g)
  BY SMT DEF SizeSince, ShareTypeOK, RoomTypeOK

LEMMA ConnectKeeps ==
  ASSUME IInv, NEW p \in Producers, NEW c \in Usable, Connect(p, c)
  PROVE  IInv'
<1> DEFINE n == nextGeneration + 1
           e == EncoderFor(c)
<1>1. /\ e \in Settings /\ FitsU16(e.g_w) /\ FitsU16(e.g_h)
      /\ phase[p] = "off" /\ generation[p] = 0
      /\ encoder' = [encoder EXCEPT ![p] = e]
      /\ generation' = [generation EXCEPT ![p] = n]
      /\ phase' = [phase EXCEPT ![p] = "connected"]
      /\ nextGeneration' = n /\ connectedGeneration' = n
      /\ UNCHANGED <<sent, room, elapsed, callVars>>
  <2>1. /\ nextGeneration' = n /\ connectedGeneration' = n
        /\ UNCHANGED <<room, elapsed, callVars>>
    BY SMT DEF Connect, CreateRoom, ConnectProducer
  <2>2. /\ phase[p] = "off" /\ encoder' = [encoder EXCEPT ![p] = e]
        /\ generation' = [generation EXCEPT ![p] = n]
        /\ phase' = [phase EXCEPT ![p] = "connected"] /\ UNCHANGED sent
    BY <2>1, Zenon DEF Connect, GoTo
  <2>3. generation[p] = 0
    BY <2>2, Zenon DEF IInv, Processes
  <2>4. e \in Settings /\ FitsU16(e.g_w) /\ FitsU16(e.g_h)
    BY EncoderForTyped, Zenon
  <2> QED
    BY <2>1, <2>2, <2>3, <2>4, Zenon
<1>2. nextGeneration \in Nat /\ n \in Nat /\ n > 0 /\ n > nextGeneration
  BY SMT DEF IInv, ShareTypeOK, RoomTypeOK
<1>3. \/ /\ nextGeneration = 0
         /\ UNCHANGED <<lastFrame, publisher, held, shard>>
      \/ /\ nextGeneration > 0 /\ shard = "none" /\ held = << >> /\ lastFrame' = NoFrame
         /\ publisher' = 0 /\ held' = ConnectStores /\ shard' = "connect"
  BY SMT DEF Connect, CreateRoom, ConnectProducer, Unlocked
<1> HIDE DEF n, e
<1>4. /\ ConnectStores \in Seq([field : Fields \cup {"last_frame_elapsed_ms"}, value : Nat])
      /\ Len(ConnectStores) = 2
      /\ ConnectStores[1] = [field |-> "width", value |-> 0]
      /\ ConnectStores[2] = [field |-> "height", value |-> 0]
  BY SMT DEF ConnectStores, Store, Fields
<1>5. ShareTypeOK'
  <2>1. RoomTypeOK'
    BY <1>1, <1>2, <1>3, <1>4, SMTT(30) DEF IInv, ShareTypeOK, RoomTypeOK, callVars
  <2>2. /\ (phase \in [Producers -> Phase])'
        /\ (encoder \in [Producers -> Settings \cup {None}])'
        /\ (generation \in [Producers -> 0..nextGeneration])' /\ (sent \in 0..MaxFrames)'
    BY <1>1, <1>2, SMT DEF IInv, ShareTypeOK, Phase
  <2> QED
    BY <2>1, <2>2 DEF ShareTypeOK
<1>6. Processes'
  <2>1. /\ phase \in [Producers -> Phase] /\ encoder \in [Producers -> Settings \cup {None}]
        /\ generation \in [Producers -> 0..nextGeneration]
    BY DEF IInv, ShareTypeOK
  <2>2. phase'[p] = "connected" /\ encoder'[p] = e /\ generation'[p] = n
    BY <1>1, <2>1, Zenon
  <2>3. \A q \in Producers : q # p =>
          phase'[q] = phase[q] /\ encoder'[q] = encoder[q] /\ generation'[q] = generation[q]
    BY <1>1, <2>1, Zenon
  <2>4. \A q \in Producers : generation[q] # n
    BY <1>2, <2>1, SMT
  <2>5. \A q \in Producers : phase'[q] = "off" => generation'[q] = 0
    BY <2>2, <2>3, Zenon DEF IInv, Processes
  <2>6. \A q \in Producers : phase'[q] \in {"connected", "sharing"} => generation'[q] > 0
    BY <1>2, <2>2, <2>3, Zenon DEF IInv, Processes
  <2>7. \A q \in Producers : generation'[q] > 0 =>
          encoder'[q] \in Settings /\ FitsU16(encoder'[q].g_w) /\ FitsU16(encoder'[q].g_h)
    BY <1>1, <2>2, <2>3, Zenon DEF IInv, Processes
  <2>8. \A q, r \in Producers : generation'[q] > 0 /\ generation'[q] = generation'[r] => q = r
    <3>1. \A q \in Producers : q # p => generation'[q] # generation'[p]
      BY <2>2, <2>3, <2>4, Zenon
    <3>2. \A q, r \in Producers :
            q # p /\ r # p /\ generation'[q] > 0 /\ generation'[q] = generation'[r] => q = r
      BY <2>3, Zenon DEF IInv, Processes
    <3> QED
      BY <3>1, <3>2, Zenon
  <2> QED
    BY <2>5, <2>6, <2>7, <2>8 DEF Processes
<1>7. Generations'
  BY <1>1, <1>2, <1>3, SMT DEF IInv, Generations
<1>8. Holder'
  <2>1. CASE nextGeneration = 0
    BY <1>1, <1>3, <2>1, SMT DEF IInv, Generations, Holder
  <2>2. CASE nextGeneration > 0
    <3>1. Len(held') = 2 /\ held'[1] = [field |-> "width", value |-> 0]
          /\ held'[2] = [field |-> "height", value |-> 0]
      BY <1>3, <1>4, <2>2, SMT
    <3>2. \A i \in 1..Len(held') : held'[i].field \in Dims /\ held'[i].value = 0
      BY <3>1, SMT DEF Dims
    <3>3. \A f \in Dims : f \notin Counters
      BY DEF Dims, Counters
    <3>4. \A f, g : SizeSince(f, 0, g)'
      BY DEF SizeSince
    <3>5. held' # << >>
      BY <3>1, SMT
    <3> QED
      BY <3>2, <3>3, <3>4, <3>5, Zenon DEF Holder
  <2> QED
    BY <1>2, <2>1, <2>2, SMT
<1>9. \A f, v, g : SizeSince(f, v, g) => SizeSince(f, v, g)'
  BY <1>1, SizesRemain, Zenon DEF IInv
<1>10. Sizes'
  <2>1. \A f \in Dims : SizeSince(f, room[f], since)'
    BY <1>1, <1>9, Zenon DEF IInv, Sizes, callVars
  <2>2. CASE nextGeneration = 0
    <3>1. \A q \in Producers : ~ (generation[q] > 0)
      BY <2>2, SMT DEF IInv, ShareTypeOK
    <3>2. \A f \in Dims : room[f] = 0
      BY <3>1, Zenon DEF IInv, Sizes, SizeSince
    <3>3. \A f \in Dims : SizeSince(f, room[f], nextGeneration)'
      BY <1>1, <3>2, Zenon DEF SizeSince
    <3> QED
      BY <2>1, <3>3, Zenon DEF Sizes
  <2>3. CASE nextGeneration > 0
    <3>1. Len(held') = 2 /\ held'[1].field = "width" /\ held'[2].field = "height"
      BY <1>3, <1>4, <2>3, SMT
    <3>2. \A f \in Dims : \E i \in 1..Len(held') : held'[i].field = f
      BY <3>1, SMT DEF Dims
    <3>3. shard' = "connect"
      BY <1>3, <2>3, SMT
    <3> QED
      BY <2>1, <3>2, <3>3, Zenon DEF Sizes
  <2> QED
    BY <1>2, <2>2, <2>3, SMT
<1>11. Call'
  BY <1>1, <1>2, <1>3, SMT DEF IInv, Call, callVars
<1>12. LoadedOK'
  BY <1>1, <1>9, Zenon DEF IInv, LoadedOK, callVars
<1> QED
  BY <1>5, <1>6, <1>7, <1>8, <1>10, <1>11, <1>12 DEF IInv

LEMMA PhaseKeeps ==
  ASSUME IInv, NEW p \in Producers, NEW to \in Phase, to # "off",
         generation[p] > 0 \/ to = "ended", GoTo(p, to),
         UNCHANGED <<roomVars, encoder, generation, sent>>
  PROVE  IInv'
<1>1. ShareTypeOK'
  BY SMT DEF IInv, ShareTypeOK, RoomTypeOK, GoTo, roomVars, stateVars, callVars
<1>2. Processes'
  BY SMT DEF IInv, Processes, ShareTypeOK, GoTo
<1>3. \A f, v, g : SizeSince(f, v, g)' <=> SizeSince(f, v, g)
  BY SizesSame, Zenon
<1>4. Generations' /\ Call'
  BY DEF IInv, Generations, Call, roomVars, stateVars, callVars
<1>5. Holder'
  BY <1>3, Zenon DEF IInv, Holder, roomVars, stateVars, callVars
<1>6. Sizes'
  BY <1>3, Zenon DEF IInv, Sizes, roomVars, stateVars, callVars
<1>7. LoadedOK'
  BY <1>3, Zenon DEF IInv, LoadedOK, roomVars, stateVars, callVars
<1> QED
  BY <1>1, <1>2, <1>4, <1>5, <1>6, <1>7 DEF IInv

LEMMA LeaveKeeps ==
  ASSUME IInv, NEW p \in Producers, Leave(p)
  PROVE  IInv'
<1>1. /\ connectedGeneration' \in {connectedGeneration, 0}
      /\ phase' = [phase EXCEPT ![p] = "ended"]
      /\ UNCHANGED <<nextGeneration, lastFrame, publisher, held, shard, room, elapsed, callVars,
                     encoder, generation, sent>>
  BY SMT DEF Leave, MarkDisconnected, GoTo
<1>2. ShareTypeOK'
  BY <1>1, SMT DEF IInv, ShareTypeOK, RoomTypeOK, Phase, callVars
<1>3. Processes'
  BY <1>1, SMT DEF IInv, Processes, ShareTypeOK
<1>4. \A f, v, g : SizeSince(f, v, g)' <=> SizeSince(f, v, g)
  BY <1>1, SizesSame, Zenon
<1>5. Generations' /\ Call'
  BY <1>1 DEF IInv, Generations, Call, callVars
<1>6. Holder'
  BY <1>1, <1>4, Zenon DEF IInv, Holder, callVars
<1>7. Sizes'
  BY <1>1, <1>4, Zenon DEF IInv, Sizes, callVars
<1>8. LoadedOK'
  BY <1>1, <1>4, Zenon DEF IInv, LoadedOK, callVars
<1> QED
  BY <1>2, <1>3, <1>5, <1>6, <1>7, <1>8 DEF IInv

(* What arrives at the room of a packet is the encoder's size. *)
LEMMA SentHeader ==
  ASSUME IInv, NEW p \in Producers, generation[p] > 0, NEW kind \in {FRAME_KEYFRAME, FRAME_DELTA}
  PROVE  LET data == EncodeFrame(FrameHeaderOf(p, kind), << >>) IN
         /\ ~Malformed(data)
         /\ DecodedHeader(data).width = Dim(p, "width") /\ Dim(p, "width") \in Nat
         /\ DecodedHeader(data).height = Dim(p, "height") /\ Dim(p, "height") \in Nat
<1> DEFINE header == FrameHeaderOf(p, kind)
<1>1. encoder[p] \in Settings /\ FitsU16(encoder[p].g_w) /\ FitsU16(encoder[p].g_h)
  BY Zenon DEF IInv, Processes
<1>2. Dim(p, "width") = encoder[p].g_w /\ Dim(p, "height") = encoder[p].g_h
  BY DEF Dim
<1>3. header = [frame_type |-> kind, timestamp_ms |-> elapsed,
                width |-> Dim(p, "width"), height |-> Dim(p, "height")]
  BY <1>2 DEF FrameHeaderOf, Size
<1>4. Dim(p, "width") \in Nat /\ Dim(p, "height") \in Nat
  BY <1>1, <1>2 DEF FitsU16
<1>5. elapsed \in Nat /\ kind \in Nat
  BY SMT DEF IInv, ShareTypeOK, RoomTypeOK, FRAME_KEYFRAME, FRAME_DELTA
<1> HIDE DEF header
<1>6. /\ header \in FrameHeader /\ header.width = Dim(p, "width") /\ header.height = Dim(p, "height")
      /\ [header EXCEPT !.timestamp_ms = ModuloU32(header.timestamp_ms)].width = Dim(p, "width")
      /\ [header EXCEPT !.timestamp_ms = ModuloU32(header.timestamp_ms)].height = Dim(p, "height")
  BY <1>3, <1>4, <1>5, SMT DEF FrameHeader
<1>7. << >> \in Seq(Nat)
  BY SMT
<1>8. /\ ~Malformed(EncodeFrame(header, << >>))
      /\ DecodedHeader(EncodeFrame(header, << >>)) =
           [header EXCEPT !.timestamp_ms = ModuloU32(header.timestamp_ms)]
  BY <1>1, <1>2, <1>6, <1>7, HeaderSurvives, Zenon
<1> QED
  BY <1>4, <1>6, <1>8, Zenon DEF header

LEMMA StoresOfFrame ==
  ASSUME NEW header
  PROVE  PublishStores(header) \in
           Seq({ Store("packets_received", room["packets_received"] + 1), LastFrameStore,
                 Store("width", header.width), Store("height", header.height),
                 Store("keyframes_received", room["keyframes_received"] + 1) })
<1> DEFINE a == Store("packets_received", room["packets_received"] + 1)
           b == LastFrameStore
           w == Store("width", header.width)
           h == Store("height", header.height)
           k == Store("keyframes_received", room["keyframes_received"] + 1)
           S == {a, b, w, h, k}
           sizes == IF header.width > 0 /\ header.height > 0 THEN << w, h >> ELSE << >>
           key == IF header.frame_type = FRAME_KEYFRAME THEN << k >> ELSE << >>
<1>1. PublishStores(header) = << a, b >> \o sizes \o key
  BY Zenon DEF PublishStores
<1> HIDE DEF a, b, w, h, k
<1>2. << a, b >> \in Seq(S) /\ << w, h >> \in Seq(S) /\ << k >> \in Seq(S) /\ << >> \in Seq(S)
  BY SMT
<1>3. sizes \in Seq(S) /\ key \in Seq(S)
  BY <1>2, Zenon
<1> HIDE DEF S, sizes, key
<1>4. \A s, t \in Seq(S) : s \o t \in Seq(S)
  BY SMT
<1>5. << a, b >> \o sizes \o key \in Seq(S)
  BY <1>2, <1>3, <1>4, Zenon
<1> QED
  BY <1>1, <1>5, Zenon DEF S, a, b, w, h, k

LEMMA SendKeeps ==
  ASSUME IInv, NEW p \in Producers, NEW kind \in {FRAME_KEYFRAME, FRAME_DELTA}, SendFrame(p, kind)
  PROVE  IInv'
<1> DEFINE data == EncodeFrame(FrameHeaderOf(p, kind), << >>)
           header == DecodedHeader(data)
<1>1. /\ generation[p] > 0
      /\ ~Malformed(data)
      /\ header.width = Dim(p, "width") /\ header.width \in Nat
      /\ header.height = Dim(p, "height") /\ header.height \in Nat
  <2>1. generation[p] > 0
    BY Zenon DEF IInv, Processes, SendFrame
  <2> QED
    BY <2>1, SentHeader, Zenon
<1>2. /\ held = << >> /\ sent < MaxFrames /\ sent' = sent + 1
      /\ held' = IF connectedGeneration = generation[p] THEN PublishStores(header) ELSE << >>
      /\ UNCHANGED <<stateVars, shard, room, elapsed, callVars, phase, encoder, generation>>
  BY <1>1, Zenon DEF SendFrame, HandleFrame, PublishFrame, Unlocked
<1> HIDE DEF data, header
<1> DEFINE a == Store("packets_received", room["packets_received"] + 1)
           b == LastFrameStore
           w == Store("width", header.width)
           h == Store("height", header.height)
           k == Store("keyframes_received", room["keyframes_received"] + 1)
           S == {a, b, w, h, k}
<1>3. /\ a.field = "packets_received" /\ a.value = room["packets_received"] + 1
      /\ b.field = "last_frame_elapsed_ms" /\ b.value = 0
      /\ w.field = "width" /\ w.value = header.width
      /\ h.field = "height" /\ h.value = header.height
      /\ k.field = "keyframes_received" /\ k.value = room["keyframes_received"] + 1
  BY DEF Store, LastFrameStore
<1>4. room["packets_received"] \in Nat /\ room["keyframes_received"] \in Nat
  BY SMT DEF IInv, ShareTypeOK, RoomTypeOK, Fields, Counters
<1>5. S \subseteq [field : Fields \cup {"last_frame_elapsed_ms"}, value : Nat]
  BY <1>1, <1>4, SMT DEF Store, LastFrameStore, Fields, Counters
<1>6. PublishStores(header) \in Seq(S)
  BY StoresOfFrame, Zenon
<1> HIDE DEF a, b, w, h, k
<1>7. held' \in Seq(S)
  BY <1>2, <1>6, SMT
<1>8. \A i \in 1..Len(held') : held'[i] \in S
  BY <1>7, ElementOfSeq, Zenon
<1>9. connectedGeneration = generation[p] \/ Len(held') = 0
  BY <1>2, SMT
<1>10. \A f, v, g : SizeSince(f, v, g)' <=> SizeSince(f, v, g)
  BY <1>2, SizesSame, Zenon
<1>11. ShareTypeOK'
  <2>1. held' \in Seq([field : Fields \cup {"last_frame_elapsed_ms"}, value : Nat])
    BY <1>5, <1>7, SeqMonotonic, Zenon
  <2>2. sent' \in 0..MaxFrames
    BY <1>2, ShareAssumption, SMT DEF IInv, ShareTypeOK
  <2> QED
    BY <1>2, <2>1, <2>2, Zenon DEF IInv, ShareTypeOK, RoomTypeOK, stateVars, callVars
<1>12. Processes'
  BY <1>2, Zenon DEF IInv, Processes
<1>13. Generations'
  <2>1. generation[p] <= nextGeneration /\ nextGeneration > 0
    BY <1>1, SMT DEF IInv, ShareTypeOK, RoomTypeOK
  <2> QED
    BY <1>2, <2>1, SMT DEF IInv, Generations, stateVars
<1>14. shard' # "connect"
  BY <1>2, Zenon DEF IInv, Holder
<1>15. Holder'
  <2>1. ASSUME NEW i \in 1..Len(held'), held'[i].field \in Dims
        PROVE  SizeSince(held'[i].field, held'[i].value, nextGeneration)
    <3>1. connectedGeneration = generation[p]
      BY <1>9, <2>1, SMT
    <3>2. generation[p] = nextGeneration
      BY <1>1, <3>1, SMT DEF IInv, Generations, ShareTypeOK, RoomTypeOK
    <3>3. held'[i] \in {w, h}
      BY <1>3, <1>8, <2>1, SMT DEF Dims
    <3>4. held'[i].value = Dim(p, held'[i].field)
      BY <1>1, <1>3, <3>3, Zenon
    <3>5. generation[p] >= nextGeneration
      BY <3>2, SMT DEF IInv, ShareTypeOK, RoomTypeOK
    <3> QED
      BY <1>1, <3>4, <3>5, Zenon DEF SizeSince
  <2>2. ASSUME NEW i \in 1..Len(held'), held'[i].field \in Counters
        PROVE  held'[i].value >= room[held'[i].field]
    BY <1>3, <1>4, <1>8, <2>2, SMT DEF Counters
  <2>3. \A i, j \in 1..Len(held') :
          held'[i].field = held'[j].field => held'[i].value = held'[j].value
    <3>1. \A s, t \in S : s.field = t.field => s.value = t.value
      BY <1>3, SMT
    <3> QED
      BY <1>8, <3>1, Zenon
  <2>4. nextGeneration' = nextGeneration /\ room' = room
    BY <1>2 DEF stateVars
  <2> QED
    BY <1>10, <1>14, <2>1, <2>2, <2>3, <2>4, Zenon DEF Holder
<1>16. Sizes'
  <2>1. shard # "connect"
    BY <1>2, <1>14, Zenon
  <2>2. nextGeneration' = nextGeneration /\ room' = room /\ since' = since
    BY <1>2 DEF stateVars, callVars
  <2> QED
    BY <1>10, <2>1, <2>2, Zenon DEF IInv, Sizes
<1>17. Call'
  BY <1>2, Zenon DEF IInv, Call, stateVars, callVars
<1>18. LoadedOK'
  BY <1>2, <1>10, Zenon DEF IInv, LoadedOK, callVars
<1> QED
  BY <1>11, <1>12, <1>13, <1>15, <1>16, <1>17, <1>18 DEF IInv

LEMMA StoreKeeps ==
  ASSUME IInv, StoreNext, UNCHANGED shareVars
  PROVE  IInv'
<1> DEFINE a == held[1]
           E == [field : Fields \cup {"last_frame_elapsed_ms"}, value : Nat]
<1>0. /\ held \in Seq(E) /\ held # << >> /\ held' = Tail(held)
      /\ shard' = (IF shard = "connect" /\ Len(held) = 1 THEN "none" ELSE shard)
      /\ UNCHANGED <<nextGeneration, connectedGeneration, elapsed, callVars, shareVars>>
  BY Zenon DEF StoreNext, Unlocked, IInv, ShareTypeOK, RoomTypeOK
<1>1. /\ a \in E /\ Head(held) = a /\ 1 \in 1..Len(held)
      /\ held' \in Seq(E) /\ Len(held') = Len(held) - 1
      /\ \A i \in 1..Len(held') : i + 1 \in 1..Len(held) /\ held'[i] = held[i + 1]
  BY <1>0, TailFacts, Zenon
<1>2. \/ /\ a.field = "last_frame_elapsed_ms"
         /\ lastFrame' = elapsed /\ publisher' = connectedGeneration /\ UNCHANGED room
      \/ /\ a.field \in Fields
         /\ room' = [room EXCEPT ![a.field] = a.value] /\ UNCHANGED <<lastFrame, publisher>>
  BY <1>1, SMT DEF StoreNext
<1>3. a.value \in Nat /\ room \in [Fields -> Nat] /\ nextGeneration \in Nat
  BY <1>1, SMT DEF IInv, ShareTypeOK, RoomTypeOK
<1> HIDE DEF a
<1>4. \A f, v, g : SizeSince(f, v, g)' <=> SizeSince(f, v, g)
  BY <1>0, SizesSame, Zenon DEF shareVars
<1>5. \A f \in Fields : room'[f] = room[f] \/ (a.field = f /\ room'[f] = a.value)
  BY <1>2, <1>3, SMT
<1>6. ShareTypeOK'
  <2>1. room' \in [Fields -> Nat]
    BY <1>2, <1>3, SMT
  <2>2. lastFrame' \in Nat \cup {NoFrame} /\ publisher' \in 0..nextGeneration
    BY <1>2, SMT DEF IInv, ShareTypeOK, RoomTypeOK, Generations
  <2>3. shard' \in {"none", "connect", "list"}
    BY <1>0, Zenon DEF IInv, ShareTypeOK, RoomTypeOK
  <2> QED
    BY <1>0, <1>1, <2>1, <2>2, <2>3, Zenon
    DEF IInv, ShareTypeOK, RoomTypeOK, callVars, shareVars
<1>7. Processes'
  BY <1>0, Zenon DEF IInv, Processes, shareVars
<1>8. Generations'
  BY <1>0, <1>2, SMT DEF IInv, Generations
<1>9. Holder'
  <2>1. \A i \in 1..Len(held') : held'[i].field \in Dims =>
          SizeSince(held'[i].field, held'[i].value, nextGeneration)
    BY <1>1, Zenon DEF IInv, Holder
  <2>2. ASSUME NEW i \in 1..Len(held'), held'[i].field \in Counters
        PROVE  held'[i].value >= room'[held'[i].field]
    <3>1. /\ held'[i].value >= room[held'[i].field]
          /\ a.field = held'[i].field => a.value = held'[i].value
      BY <1>1, <2>2, Zenon DEF IInv, Holder, a
    <3>2. held'[i] \in E
      BY <1>1, ElementOfSeq, Zenon
    <3>3. held'[i].field \in Fields /\ held'[i].value \in Nat
      BY <2>2, <3>2, SMT DEF Fields, Counters
    <3> QED
      BY <1>5, <3>1, <3>3, SMT
  <2>3. \A i, j \in 1..Len(held') :
          held'[i].field = held'[j].field => held'[i].value = held'[j].value
    <3>1. \A i, j \in 1..Len(held) :
            held[i].field = held[j].field => held[i].value = held[j].value
      BY Zenon DEF IInv, Holder
    <3>2. ASSUME NEW i \in 1..Len(held'), NEW j \in 1..Len(held'),
                 held'[i].field = held'[j].field
          PROVE  held'[i].value = held'[j].value
      <4>1. /\ i + 1 \in 1..Len(held) /\ held'[i] = held[i + 1]
            /\ j + 1 \in 1..Len(held) /\ held'[j] = held[j + 1]
        BY <1>1, Zenon
      <4> QED
        BY <3>1, <3>2, <4>1, Zenon
    <3> QED
      BY <3>2
  <2>4. shard' = "connect" => held' # << >>
    <3>1. Len(held) \in Nat
      BY <1>0, SMT
    <3>2. shard' = "connect" => Len(held') # 0
      BY <1>0, <1>1, <3>1, SMT
    <3> QED
      BY <3>2, SMT
  <2> QED
    BY <1>0, <1>4, <2>1, <2>2, <2>3, <2>4, Zenon DEF Holder
<1>10. Sizes'
  <2>1. ASSUME NEW f \in Dims
        PROVE  /\ SizeSince(f, room'[f], since)
               /\ \/ SizeSince(f, room'[f], nextGeneration)
                  \/ shard' = "connect" /\ \E i \in 1..Len(held') : held'[i].field = f
    <3>0. f \in Fields /\ since \in Nat /\ since <= nextGeneration
      BY SMT DEF Fields, Dims, IInv, Call, ShareTypeOK, RoomTypeOK
    <3>1. CASE a.field = f
      <4>1. room'[f] = a.value
        BY <1>2, <1>3, <3>0, <3>1, SMT DEF Fields, Dims
      <4>2. SizeSince(f, a.value, nextGeneration)
        BY <1>1, <3>1, Zenon DEF IInv, Holder, a
      <4> QED
        BY <3>0, <4>1, <4>2, NewestIsSince, Zenon DEF IInv
    <3>2. CASE a.field # f
      <4>1. room'[f] = room[f]
        BY <1>5, <3>0, <3>2, Zenon
      <4>2. CASE SizeSince(f, room[f], nextGeneration)
        BY <4>1, <4>2, Zenon DEF IInv, Sizes
      <4>3. CASE shard = "connect" /\ \E i \in 1..Len(held) : held[i].field = f
        <5>1. PICK i \in 1..Len(held) : held[i].field = f
          BY <4>3
        <5>2. i # 1
          BY <3>2, <5>1 DEF a
        <5>3. Len(held) \in Nat
          BY <1>0, SMT
        <5>4. i - 1 \in 1..Len(held') /\ (i - 1) + 1 = i /\ Len(held) # 1
          BY <1>1, <5>2, <5>3, SMT
        <5>5. held'[i - 1].field = f
          BY <1>1, <5>1, <5>4, Zenon
        <5>6. shard' = "connect"
          BY <1>0, <4>3, <5>4, Zenon
        <5> QED
          BY <4>1, <5>4, <5>5, <5>6, Zenon DEF IInv, Sizes
      <4> QED
        BY <4>2, <4>3, Zenon DEF IInv, Sizes
    <3> QED
      BY <3>1, <3>2
  <2> QED
    BY <1>0, <1>4, <2>1, Zenon DEF Sizes, callVars
<1>11. \A f \in Counters : room[f] <= room'[f]
  <2>1. ASSUME NEW f \in Counters PROVE room[f] <= room'[f]
    <3>1. f \in Fields /\ room[f] \in Nat
      BY <1>3 DEF Fields
    <3>2. a.field = f => a.value >= room[f]
      BY <1>1, <2>1, Zenon DEF IInv, Holder, a
    <3> QED
      BY <1>3, <1>5, <3>1, <3>2, SMT
  <2> QED
    BY <2>1
<1>12. \A f \in Counters : room[f] \in Nat /\ room'[f] \in Nat /\ before[f] \in Nat
  BY <1>3, <1>6, SMT DEF IInv, ShareTypeOK, RoomTypeOK, Fields
<1>13. Call'
  <2>1. \A f \in Counters : before[f] <= room'[f]
    BY <1>11, <1>12, SMT DEF IInv, Call
  <2>2. caller = "list" <=> shard' = "list"
    BY <1>0, SMT DEF IInv, Call
  <2> QED
    BY <1>0, <2>1, <2>2, Zenon DEF IInv, Call, callVars
<1>14. LoadedOK'
  <2>1. ASSUME NEW i \in 1..Len(loaded), LoadOrder[i] \in Counters
        PROVE  before[LoadOrder[i]] <= loaded[i] /\ loaded[i] <= room'[LoadOrder[i]]
    <3>1. loaded[i] \in Nat
      BY ElementOfSeq, Zenon DEF IInv, ShareTypeOK, RoomTypeOK
    <3>2. before[LoadOrder[i]] <= loaded[i] /\ loaded[i] <= room[LoadOrder[i]]
      BY <2>1, Zenon DEF IInv, LoadedOK
    <3> QED
      BY <1>11, <1>12, <2>1, <3>1, <3>2, SMT
  <2> QED
    BY <1>0, <1>4, <2>1, Zenon DEF IInv, LoadedOK, callVars
<1> QED
  BY <1>6, <1>7, <1>8, <1>9, <1>10, <1>13, <1>14 DEF IInv

LEMMA TickKeeps ==
  ASSUME IInv, Tick, UNCHANGED shareVars
  PROVE  IInv'
<1>1. /\ elapsed' = elapsed + 1
      /\ UNCHANGED <<stateVars, held, shard, room, callVars, shareVars>>
  BY DEF Tick
<1>2. \A f, v, g : SizeSince(f, v, g)' <=> SizeSince(f, v, g)
  BY <1>1, SizesSame, Zenon DEF shareVars
<1>3. ShareTypeOK'
  BY <1>1, SMT DEF IInv, ShareTypeOK, RoomTypeOK, stateVars, callVars, shareVars
<1>4. Processes' /\ Generations' /\ Call'
  BY <1>1 DEF IInv, Processes, Generations, Call, stateVars, callVars, shareVars
<1>5. Holder' /\ Sizes' /\ LoadedOK'
  BY <1>1, <1>2, Zenon DEF IInv, Holder, Sizes, LoadedOK, stateVars, callVars
<1> QED
  BY <1>3, <1>4, <1>5 DEF IInv

LEMMA CallInfoKeeps ==
  ASSUME IInv, NEW kind \in {"detail", "list"}, CallInfo(kind), UNCHANGED shareVars
  PROVE  IInv'
<1>1. /\ nextGeneration > 0 /\ caller = "none" /\ shard = "none"
      /\ caller' = kind /\ shard' = ShardFor(kind) /\ readAt' = elapsed
      /\ before' = [f \in Counters |-> room[f]]
      /\ UNCHANGED <<stateVars, held, room, elapsed, seen, loaded, since, shareVars>>
  BY Zenon DEF CallInfo
<1>2. \A f, v, g : SizeSince(f, v, g)' <=> SizeSince(f, v, g)
  BY <1>1, SizesSame, Zenon DEF shareVars
<1>3. since = 0 /\ loaded = << >>
  BY <1>1, Zenon DEF IInv, Call
<1>4. shard' \in {"none", "list"} /\ (caller' = "list" <=> shard' = "list")
  BY <1>1, SMT DEF ShardFor
<1>5. \A f \in Counters : room[f] \in Nat /\ before'[f] = room[f]
  BY <1>1, SMT DEF IInv, ShareTypeOK, RoomTypeOK, Fields
<1>6. ShareTypeOK'
  <2>1. before' \in [Counters -> Nat]
    BY <1>1, <1>5, Zenon
  <2>2. readAt' \in 0..elapsed
    BY <1>1, SMT DEF IInv, ShareTypeOK, RoomTypeOK
  <2>3. caller' \in {"none", "detail", "list"} /\ shard' \in {"none", "connect", "list"}
    BY <1>1, <1>4, SMT
  <2> QED
    BY <1>1, <2>1, <2>2, <2>3, Zenon DEF IInv, ShareTypeOK, RoomTypeOK, stateVars, shareVars
<1>7. Processes' /\ Generations'
  BY <1>1 DEF IInv, Processes, Generations, stateVars, shareVars
<1>8. Holder'
  BY <1>1, <1>2, <1>4, SMT DEF IInv, Holder, stateVars
<1>9. Sizes'
  <2>1. \A f \in Dims : SizeSince(f, room[f], since) /\ SizeSince(f, room[f], nextGeneration)
    BY <1>1, SMT DEF IInv, Sizes
  <2> QED
    BY <1>1, <1>2, <2>1, Zenon DEF Sizes, stateVars
<1>10. Call'
  BY <1>1, <1>3, <1>4, <1>5, SMT DEF IInv, Call, stateVars
<1>11. LoadedOK'
  BY <1>1, <1>3, SMT DEF LoadedOK
<1> QED
  BY <1>6, <1>7, <1>8, <1>9, <1>10, <1>11 DEF IInv

LEMMA ReadKeeps ==
  ASSUME IInv, ReadProducerState, UNCHANGED shareVars
  PROVE  IInv'
<1>1. /\ caller # "none" /\ since = 0 /\ held = << >>
      /\ seen' = [connected |-> connectedGeneration # 0,
                  age |-> Age(readAt), fresh |-> Fresh(Age(readAt))]
      /\ since' = nextGeneration
      /\ UNCHANGED <<stateVars, held, shard, room, elapsed, caller, readAt, loaded, before,
                     shareVars>>
  BY Zenon DEF ReadProducerState, Unlocked
<1>2. \A f, v, g : SizeSince(f, v, g)' <=> SizeSince(f, v, g)
  BY <1>1, SizesSame, Zenon DEF shareVars
<1>3. loaded = << >> /\ nextGeneration \in Nat /\ nextGeneration > 0
  BY <1>1, SMT DEF IInv, Call, ShareTypeOK, RoomTypeOK
<1>4. ShareTypeOK'
  <2>1. Age(readAt) \in Nat \cup {NoFrame}
    BY SMT DEF Age, IInv, ShareTypeOK, RoomTypeOK
  <2>2. Fresh(Age(readAt)) \in BOOLEAN /\ (connectedGeneration # 0) \in BOOLEAN
    BY Zenon DEF Fresh
  <2>3. seen' \in Seen
    BY <1>1, <2>1, <2>2, Zenon DEF Seen
  <2>4. since' \in 0..nextGeneration
    BY <1>1, <1>3, SMT
  <2> QED
    BY <1>1, <2>3, <2>4, Zenon DEF IInv, ShareTypeOK, RoomTypeOK, stateVars, shareVars
<1>5. Processes' /\ Generations'
  BY <1>1 DEF IInv, Processes, Generations, stateVars, shareVars
<1>6. Holder'
  <2>1. UNCHANGED <<stateVars, held, shard, room>>
    BY Zenon DEF ReadProducerState
  <2> QED
    BY <1>2, <2>1, Zenon DEF IInv, Holder, stateVars
<1>7. Sizes'
  <2>1. shard # "connect"
    BY <1>1, Zenon DEF IInv, Holder
  <2>2. \A f \in Dims : SizeSince(f, room[f], nextGeneration)
    BY <2>1, Zenon DEF IInv, Sizes
  <2> QED
    BY <1>1, <1>2, <2>2, Zenon DEF Sizes, stateVars
<1>8. Call'
  BY <1>1, <1>3, SMT DEF IInv, Call, stateVars
<1>9. LoadedOK'
  BY <1>1, <1>3, SMT DEF LoadedOK
<1> QED
  BY <1>4, <1>5, <1>6, <1>7, <1>8, <1>9 DEF IInv

LEMMA Orders == \A i \in 1..4 : LoadOrder[i] \in Fields
  BY SMT DEF LoadOrder, Fields, Counters

LEMMA AppendFacts ==
  ASSUME NEW s \in Seq(Nat), NEW v \in Nat
  PROVE  /\ Append(s, v) \in Seq(Nat) /\ Len(Append(s, v)) = Len(s) + 1
         /\ \A i \in 1..Len(Append(s, v)) :
              \/ i \in 1..Len(s) /\ Append(s, v)[i] = s[i]
              \/ i = Len(s) + 1 /\ Append(s, v)[i] = v
  BY SMT

LEMMA LoadKeeps ==
  ASSUME IInv, LoadNext, UNCHANGED shareVars
  PROVE  IInv'
<1> DEFINE n == Len(loaded) + 1
<1>1. /\ since > 0 /\ Len(loaded) < 4
      /\ loaded' = Append(loaded, room[LoadOrder[n]])
      /\ UNCHANGED <<stateVars, held, shard, room, elapsed, caller, readAt, seen, since, before,
                     shareVars>>
  BY SMT DEF LoadNext, LoadOrder
<1>2. loaded \in Seq(Nat) /\ room \in [Fields -> Nat] /\ since \in Nat
  BY SMT DEF IInv, ShareTypeOK, RoomTypeOK
<1>3. n \in 1..4
  BY <1>1, <1>2, SMT
<1>4. LoadOrder[n] \in Fields
  BY <1>3, Orders, Zenon
<1>5. room[LoadOrder[n]] \in Nat
  BY <1>2, <1>4, Zenon
<1>6. /\ loaded' \in Seq(Nat) /\ Len(loaded') = n
      /\ \A i \in 1..Len(loaded') :
           \/ i \in 1..Len(loaded) /\ loaded'[i] = loaded[i]
           \/ i = n /\ loaded'[i] = room[LoadOrder[n]]
  BY <1>1, <1>2, <1>5, AppendFacts, ZenonT(60)
<1>7. n <= Len(LoadOrder)
  BY <1>3, SMT DEF LoadOrder
<1> HIDE DEF n
<1>8. \A f, v, g : SizeSince(f, v, g)' <=> SizeSince(f, v, g)
  BY <1>1, SizesSame, Zenon DEF shareVars
<1>9. ShareTypeOK'
  BY <1>1, <1>6, <1>7, Zenon DEF IInv, ShareTypeOK, RoomTypeOK, stateVars, shareVars
<1>10. Processes' /\ Generations'
  BY <1>1 DEF IInv, Processes, Generations, stateVars, shareVars
<1>11. Holder' /\ Sizes'
  BY <1>1, <1>8, Zenon DEF IInv, Holder, Sizes, stateVars
<1>12. Call'
  <2>1. since # 0
    BY <1>1, <1>2, SMT
  <2> QED
    BY <1>1, <2>1, Zenon DEF IInv, Call, stateVars
<1>13. LoadedOK'
  <2>1. ASSUME NEW i \in 1..Len(loaded')
        PROVE  /\ LoadOrder[i] \in Dims => SizeSince(LoadOrder[i], loaded'[i], since)
               /\ LoadOrder[i] \in Counters =>
                    before[LoadOrder[i]] <= loaded'[i] /\ loaded'[i] <= room[LoadOrder[i]]
    <3>1. CASE i \in 1..Len(loaded) /\ loaded'[i] = loaded[i]
      BY <3>1, Zenon DEF IInv, LoadedOK
    <3>2. CASE i = n /\ loaded'[i] = room[LoadOrder[n]]
      <4>1. LoadOrder[n] \in Dims => SizeSince(LoadOrder[n], room[LoadOrder[n]], since)
        BY Zenon DEF IInv, Sizes
      <4>2. LoadOrder[n] \in Counters => before[LoadOrder[n]] <= room[LoadOrder[n]]
        BY Zenon DEF IInv, Call
      <4>3. room[LoadOrder[n]] <= room[LoadOrder[n]]
        BY <1>5, SMT
      <4> QED
        BY <3>2, <4>1, <4>2, <4>3, Zenon
    <3> QED
      BY <1>6, <3>1, <3>2, Zenon
  <2> QED
    BY <1>1, <1>8, <2>1, Zenon DEF LoadedOK
<1> QED
  BY <1>9, <1>10, <1>11, <1>12, <1>13 DEF IInv

LEMMA AnswerKeeps ==
  ASSUME IInv, Answer, UNCHANGED shareVars
  PROVE  IInv'
<1>1. /\ caller' = "none" /\ shard' = (IF shard = "list" THEN "none" ELSE shard)
      /\ readAt' = 0 /\ seen' = NotSeen /\ loaded' = << >> /\ since' = 0 /\ before' = NoCounters
      /\ UNCHANGED <<stateVars, held, room, elapsed, shareVars>>
  BY Zenon DEF Answer
<1>2. \A f, v, g : SizeSince(f, v, g)' <=> SizeSince(f, v, g)
  BY <1>1, SizesSame, Zenon DEF shareVars
<1>3. shard' \in {"none", "connect"} /\ (shard' = "connect" <=> shard = "connect")
  BY <1>1, SMT DEF IInv, ShareTypeOK, RoomTypeOK
<1>4. \A f \in Counters : before'[f] = 0 /\ room[f] \in Nat
  BY <1>1, SMT DEF NoCounters, IInv, ShareTypeOK, RoomTypeOK, Fields
<1>5. ShareTypeOK'
  BY <1>1, <1>3, SMT
  DEF IInv, ShareTypeOK, RoomTypeOK, stateVars, shareVars, Seen, NotSeen, NoCounters, LoadOrder
<1>6. Processes' /\ Generations'
  BY <1>1 DEF IInv, Processes, Generations, stateVars, shareVars
<1>7. Holder'
  BY <1>1, <1>2, <1>3, Zenon DEF IInv, Holder, stateVars
<1>8. Sizes'
  <2>1. ASSUME NEW f \in Dims PROVE SizeSince(f, room[f], 0)
    <3>1. SizeSince(f, room[f], since) /\ since \in Nat
      BY Zenon DEF IInv, Sizes, Call
    <3>2. \A p \in Producers : generation[p] \in Nat
      BY SMT DEF IInv, ShareTypeOK, RoomTypeOK
    <3> QED
      BY <3>1, <3>2, SMT DEF SizeSince
  <2> QED
    BY <1>1, <1>2, <1>3, <2>1, Zenon DEF IInv, Sizes, stateVars
<1>9. Call'
  BY <1>1, <1>3, <1>4, SMT DEF IInv, Call, stateVars
<1>10. LoadedOK'
  BY <1>1, SMT DEF LoadedOK
<1> QED
  BY <1>5, <1>6, <1>7, <1>8, <1>9, <1>10 DEF IInv

LEMMA NextKeeps == IInv /\ [Next]_vars => IInv'
<1> SUFFICES ASSUME IInv, [Next]_vars PROVE IInv'
  OBVIOUS
<1>1. ASSUME NEW p \in Producers, NEW c \in Usable, Connect(p, c) PROVE IInv'
  BY <1>1, ConnectKeeps
<1>2. ASSUME NEW p \in Producers, Refuse(p) PROVE IInv'
  BY <1>2, PhaseKeeps DEF Refuse, Phase
<1>3. ASSUME NEW p \in Producers, StartCapture(p) PROVE IInv'
  <2>1. generation[p] > 0
    BY <1>3, Zenon DEF IInv, Processes, StartCapture
  <2> QED
    BY <1>3, <2>1, PhaseKeeps DEF StartCapture, Phase
<1>4. ASSUME NEW p \in Producers, NEW kind \in {FRAME_KEYFRAME, FRAME_DELTA}, SendFrame(p, kind)
      PROVE  IInv'
  BY <1>4, SendKeeps
<1>5. ASSUME NEW p \in Producers, Leave(p) PROVE IInv'
  BY <1>5, LeaveKeeps
<1>6. CASE Room
  BY <1>6, StoreKeeps, TickKeeps, CallInfoKeeps, ReadKeeps, LoadKeeps, AnswerKeeps, Zenon
  DEF Room, Info
<1>7. CASE UNCHANGED vars
  <2>1. UNCHANGED <<stateVars, callVars, held, shard, room, elapsed, phase, encoder, generation,
                    sent>>
    BY <1>7 DEF vars, roomVars, shareVars
  <2>2. \A f, v, g : SizeSince(f, v, g)' <=> SizeSince(f, v, g)
    BY <2>1, SizesSame, Zenon
  <2>3. ShareTypeOK'
    BY <2>1, Zenon DEF IInv, ShareTypeOK, RoomTypeOK, stateVars, callVars
  <2>4. Processes' /\ Generations' /\ Call'
    BY <2>1 DEF IInv, Processes, Generations, Call, stateVars, callVars
  <2>5. Holder'
    BY <2>1, <2>2, Zenon DEF IInv, Holder, stateVars
  <2>6. Sizes' /\ LoadedOK'
    BY <2>1, <2>2, Zenon DEF IInv, Sizes, LoadedOK, stateVars, callVars
  <2> QED
    BY <2>3, <2>4, <2>5, <2>6 DEF IInv
<1> QED
  BY <1>1, <1>2, <1>3, <1>4, <1>5, <1>6, <1>7, Zenon DEF Next

(* The inductive invariant holds in every reachable state. *)
THEOREM Invariant == Spec => []IInv
  BY InitIInv, NextKeeps, PTL DEF Spec

-----------------------------------------------------------------------------
(***************************************************************************)
(* The variables of Share stay within their types; above all, an encoder   *)
(* only ever has settings that libvpx takes.                               *)
(***************************************************************************)
THEOREM ShareTypeCorrect == Spec => []ShareTypeOK
<1>1. IInv => ShareTypeOK
  BY DEF IInv
<1> QED
  BY <1>1, Invariant, PTL

(* A value of an answer is at its place in the order of the loads. *)
LEMMA LoadedAt ==
  ASSUME NEW f, NEW v \in Loaded(f)
  PROVE  \E i \in 1..Len(loaded) : LoadOrder[i] = f /\ loaded[i] = v
  BY Zenon DEF Loaded

(***************************************************************************)
(* Room::info, AnswerIsCurrent: whatever connects, sends and disconnects   *)
(* during a call, its size is of a producer that was the newest at its     *)
(* look or came later, and its counters lie between those of its begin and *)
(* of its end.                                                             *)
(***************************************************************************)
THEOREM AnswerCorrect == Spec => []AnswerIsCurrent
<1>1. ASSUME IInv PROVE AnswerIsCurrent
  <2>1. ASSUME NEW f \in Dims, NEW v \in Loaded(f)
        PROVE  v = 0 \/ \E p \in Producers :
                 generation[p] >= since /\ generation[p] > 0 /\ Dim(p, f) = v
    <3>1. PICK i \in 1..Len(loaded) : LoadOrder[i] = f /\ loaded[i] = v
      BY LoadedAt, Zenon
    <3>2. SizeSince(f, v, since)
      BY <1>1, <2>1, <3>1, Zenon DEF IInv, LoadedOK
    <3> QED
      BY <3>2, Zenon DEF SizeSince
  <2>2. \A p \in Producers : Dim(p, "width") = Size(p).width /\ Dim(p, "height") = Size(p).height
    BY DEF Dim, Size
  <2>3. ASSUME NEW f \in Counters, NEW n \in Loaded(f) PROVE n \in before[f]..room[f]
    <3>1. PICK i \in 1..Len(loaded) : LoadOrder[i] = f /\ loaded[i] = n
      BY LoadedAt, Zenon
    <3>2. before[f] <= n /\ n <= room[f]
      BY <1>1, <3>1, Zenon DEF IInv, LoadedOK
    <3>3. n \in Nat
      BY <1>1, <3>1, ElementOfSeq, Zenon DEF IInv, ShareTypeOK, RoomTypeOK
    <3>4. before[f] \in Nat /\ room[f] \in Nat
      BY <1>1, SMT DEF IInv, ShareTypeOK, RoomTypeOK, Fields
    <3> QED
      BY <3>2, <3>3, <3>4, SMT
  <2>4. "width" \in Dims /\ "height" \in Dims
    BY DEF Dims
  <2>5. ASSUME NEW v \in Loaded("width")
        PROVE  v = 0 \/ \E p \in Producers :
                 generation[p] >= since /\ generation[p] > 0 /\ Size(p).width = v
    <3>1. v = 0 \/ \E p \in Producers :
            generation[p] >= since /\ generation[p] > 0 /\ Dim(p, "width") = v
      BY <2>1, <2>4, Zenon
    <3> QED
      BY <2>2, <3>1
  <2>6. ASSUME NEW v \in Loaded("height")
        PROVE  v = 0 \/ \E p \in Producers :
                 generation[p] >= since /\ generation[p] > 0 /\ Size(p).height = v
    <3>1. v = 0 \/ \E p \in Producers :
            generation[p] >= since /\ generation[p] > 0 /\ Dim(p, "height") = v
      BY <2>1, <2>4, Zenon
    <3> QED
      BY <2>2, <3>1
  <2> QED
    BY <2>3, <2>5, <2>6, Zenon DEF AnswerIsCurrent
<1> QED
  BY <1>1, Invariant, PTL

(***************************************************************************)
(* list_rooms, ListedSizeIsSent: under the shard's lock no producer        *)
(* connects, so width and height are of one producer.                      *)
(***************************************************************************)
THEOREM ListedCorrect == Spec => []ListedSizeIsSent
<1>1. ASSUME IInv PROVE ListedSizeIsSent
  <2> SUFFICES ASSUME caller = "list", NEW w \in Loaded("width") \ {0},
                      NEW h \in Loaded("height") \ {0}
               PROVE  \E p \in Producers :
                        generation[p] > 0 /\ Size(p) = [width |-> w, height |-> h]
    BY Zenon DEF ListedSizeIsSent
  <2>1. /\ SizeSince("width", w, since) /\ SizeSince("height", h, since)
        /\ loaded # << >>
    <3>1. /\ \E i \in 1..Len(loaded) : LoadOrder[i] = "width" /\ loaded[i] = w
          /\ \E i \in 1..Len(loaded) : LoadOrder[i] = "height" /\ loaded[i] = h
      BY LoadedAt, ZenonT(60)
    <3>2. loaded # << >>
      BY <3>1, SMT
    <3>3. "width" \in Dims /\ "height" \in Dims
      BY DEF Dims
    <3> QED
      BY <1>1, <3>1, <3>2, <3>3, Zenon DEF IInv, LoadedOK
  <2>2. since = nextGeneration
    BY <1>1, <2>1, SMT DEF IInv, Call
  <2>3. PICK p \in Producers :
          generation[p] > 0 /\ generation[p] >= nextGeneration /\ Dim(p, "width") = w
    BY <2>1, <2>2, Zenon DEF SizeSince
  <2>4. PICK q \in Producers :
          generation[q] > 0 /\ generation[q] >= nextGeneration /\ Dim(q, "height") = h
    BY <2>1, <2>2, Zenon DEF SizeSince
  <2>5. generation[p] = generation[q]
    BY <1>1, <2>3, <2>4, SMT DEF IInv, ShareTypeOK, RoomTypeOK
  <2>6. p = q
    BY <1>1, <2>3, <2>5, Zenon DEF IInv, Processes
  <2>7. Size(p) = [width |-> w, height |-> h]
    BY <2>3, <2>4, <2>6 DEF Size, Dim
  <2> QED
    BY <2>3, <2>7
<1> QED
  BY <1>1, Invariant, PTL

LEMMA FrameInside ==
  ASSUME NEW w \in Nat \ {0}, NEW h \in Nat \ {0}, NEW stride \in FrameStrides(w)
  PROVE  stride \in Nat /\ stride >= w * 4 /\ PlaneEnd(0, stride, w * 4, h) <= BgraLength(stride, h)
<1>1. w * 4 \in Nat
  BY SMT
<1>2. stride \in Nat /\ stride >= w * 4
  BY <1>1, RoundedUp, SMT DEF FrameStrides
<1>3. 0 + h <= h /\ 0 \in Nat /\ h \in Nat
  BY SMT
<1>4. PlaneEnd(0 * stride, stride, w * 4, h) <= h * stride
  BY <1>1, <1>2, <1>3, PlaneFits, Zenon
<1>5. 0 * stride = 0 /\ h * stride = stride * h
  BY <1>2, SMT
<1> QED
  BY <1>2, <1>4, <1>5, Zenon DEF BgraLength

(***************************************************************************)
(* BuffersCover: surface_to_bgra, convert_to_yuv and encode_with_flags     *)
(* stay inside their buffers for every configuration and display.          *)
(***************************************************************************)
THEOREM BuffersCorrect == Spec => []BuffersCover
<1>1. ASSUME ShareTypeOK PROVE BuffersCover
  <2> DEFINE Inside(w, h, image, stride) ==
        /\ Convertible(w, h, stride, YuvFormat(image))
        /\ PlaneEnd(0, stride, w * 4, h) <= BgraLength(stride, h)
        /\ \A end \in YuvExtent(w, h, YuvFormat(image)) : end <= YuvLength(YuvFormat(image))
        /\ LongEnough(YuvLength(YuvFormat(image)), w, h)
  <2>1. ASSUME NEW w \in Nat \ {0}, NEW h \in Nat \ {0}, NEW image \in ImageLayouts(w, h),
               NEW stride \in FrameStrides(w)
        PROVE  Inside(w, h, image, stride)
    <3>1. /\ YuvFormat(image).w = w /\ YuvFormat(image).h >= h
          /\ \A end \in YuvExtent(w, h, YuvFormat(image)) : end <= YuvLength(YuvFormat(image))
          /\ LongEnough(YuvLength(YuvFormat(image)), w, h)
      BY PlanesInside, Zenon
    <3>2. stride >= w * 4 /\ PlaneEnd(0, stride, w * 4, h) <= BgraLength(stride, h)
      BY FrameInside, Zenon
    <3>3. YuvFormat(image).h \in Nat
      BY RoundedUp, SMT DEF YuvFormat, ImageLayouts
    <3>4. w <= YuvFormat(image).w /\ h <= YuvFormat(image).h
      BY <3>1, <3>3, SMT
    <3> QED
      BY <3>1, <3>2, <3>4, Zenon DEF Convertible
  <2>2. ASSUME NEW p \in Producers, encoder[p] # None
        PROVE  encoder[p].g_w \in Nat \ {0} /\ encoder[p].g_h \in Nat \ {0}
    <3>1. encoder[p] \in Settings
      BY <1>1, <2>2, Zenon DEF ShareTypeOK
    <3> QED
      BY <3>1 DEF Settings
  <2> HIDE DEF Inside
  <2>3. \A p \in Producers : encoder[p] # None =>
          \A image \in ImageLayouts(encoder[p].g_w, encoder[p].g_h),
             stride \in FrameStrides(encoder[p].g_w) :
            Inside(encoder[p].g_w, encoder[p].g_h, image, stride)
    BY <2>1, <2>2, Zenon
  <2> QED
    BY <2>3, Zenon DEF BuffersCover, Inside
<1> QED
  BY <1>1, ShareTypeCorrect, PTL

(***************************************************************************)
(* StaleMeansSilent: frame_fresh is false of a connected producer only     *)
(* when its own last frame is older than the window.                       *)
(***************************************************************************)
THEOREM StaleCorrect == Spec => StaleMeansSilent
<1>1. ASSUME IInv, ReadProducerState, seen'.connected, ~ seen'.fresh
      PROVE  /\ lastFrame # NoFrame /\ lastFrame + ActiveFrameWindow < elapsed
             /\ publisher = connectedGeneration
  <2>1. connectedGeneration # 0 /\ ~ Fresh(Age(readAt))
    BY <1>1, Zenon DEF ReadProducerState
  <2>2. readAt \in Nat /\ readAt <= elapsed /\ elapsed \in Nat /\ lastFrame \in Nat \cup {NoFrame}
    BY <1>1, SMT DEF IInv, ShareTypeOK, RoomTypeOK
  <2>3. lastFrame # NoFrame
    BY <2>1, Zenon DEF Fresh, Age
  <2>4. lastFrame + ActiveFrameWindow < elapsed
    BY <2>1, <2>2, <2>3, RoomInfoAssumption, SMT DEF Fresh, Age
  <2>5. publisher = connectedGeneration
    BY <1>1, <2>1, <2>3, Zenon DEF IInv, Generations
  <2> QED
    BY <2>3, <2>4, <2>5
<1>2. ASSUME IInv, [Next]_vars
      PROVE  [ReadProducerState /\ seen'.connected /\ ~ seen'.fresh =>
                /\ lastFrame # NoFrame /\ lastFrame + ActiveFrameWindow < elapsed
                /\ publisher = connectedGeneration]_vars
  BY <1>1, <1>2
<1> QED
  BY <1>2, Invariant, PTL DEF Spec, StaleMeansSilent
=============================================================================
