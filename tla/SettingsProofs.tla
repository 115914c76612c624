----------------------------- MODULE SettingsProofs -----------------------------
(***************************************************************************)
(* Theorems about the pure operators: what the wire protocol, the policy,  *)
(* the encoder's settings and its buffers do for every input.              *)
(***************************************************************************)
EXTENDS WireFrame, ProducerPolicy, Vp8Encoder, WellFoundedInduction, SequenceTheorems, TLAPS

-----------------------------------------------------------------------------
(* The wire.  The large numbers have names, which the first-order provers
   need not expand. *)

FitsU16(n) == n \in Nat /\ n < 65536
ModuloU32(n) == n % 4294967296
Byte3(n) == (n \div 16777216) % 256
Byte2(n) == (n \div 65536) % 256
Joined(b3, b2, b1, b0) == b3 * 16777216 + b2 * 65536 + b1 * 256 + b0

LEMMA LowByte ==
  ASSUME NEW n \in Nat
  PROVE  /\ n \div 256 \in Nat /\ n % 256 \in Nat /\ n % 256 < 256
         /\ n = 256 * (n \div 256) + (n % 256)
  BY SMT

LEMMA TwoBytes ==
  ASSUME NEW n, FitsU16(n)
  PROVE  n = ((n \div 256) % 256) * 256 + (n % 256)
<1>0. n \in Nat /\ n < 65536
  BY SMT DEF FitsU16
<1>1. n \div 256 \in Nat /\ n \div 256 < 256
  BY <1>0, SMT
<1>2. (n \div 256) % 256 = n \div 256
  BY <1>1, SMT
<1> QED
  BY <1>0, <1>1, <1>2, LowByte, SMT

LEMMA HigherBytes ==
  ASSUME NEW n \in Nat
  PROVE  /\ n \div 65536 = (n \div 256) \div 256
         /\ n \div 16777216 = (n \div 65536) \div 256
  BY SMT

LEMMA Remainder ==
  ASSUME NEW n \in Nat, NEW q \in Nat, NEW r \in Nat, r < 4294967296, n = 4294967296 * q + r
  PROVE  n % 4294967296 = r
  BY SMT

LEMMA BytesAddUp ==
  ASSUME NEW n \in Nat, NEW a \in Nat, NEW b \in Nat, NEW c \in Nat, NEW q \in Nat,
         NEW n0 \in Nat, NEW a0 \in Nat, NEW b0 \in Nat, NEW c0 \in Nat,
         n0 < 256, a0 < 256, b0 < 256, c0 < 256,
         n = 256 * a + n0, a = 256 * b + a0, b = 256 * c + b0, c = 256 * q + c0
  PROVE  n % 4294967296 = c0 * 16777216 + b0 * 65536 + a0 * 256 + n0
<1> DEFINE r == c0 * 16777216 + b0 * 65536 + a0 * 256 + n0
<1>1. r \in Nat /\ r < 4294967296
  BY SMT
<1>2. n = 4294967296 * q + r
  BY SMT
<1> QED
  BY <1>1, <1>2, Remainder, SMT

LEMMA FourBytes ==
  ASSUME NEW n \in Nat
  PROVE  ModuloU32(n) = Joined(Byte3(n), Byte2(n), (n \div 256) % 256, n % 256)
<1> DEFINE a == n \div 256
           b == n \div 65536
           c == n \div 16777216
<1>1. a \in Nat /\ n % 256 \in Nat /\ n % 256 < 256 /\ n = 256 * a + (n % 256)
  BY LowByte, SMT
<1>2. b \in Nat /\ a % 256 \in Nat /\ a % 256 < 256 /\ a = 256 * b + (a % 256)
  BY <1>1, LowByte, HigherBytes, SMT
<1>3. c \in Nat /\ b % 256 \in Nat /\ b % 256 < 256 /\ b = 256 * c + (b % 256)
  BY <1>2, LowByte, HigherBytes, SMT
<1>4. c \div 256 \in Nat /\ c % 256 \in Nat /\ c % 256 < 256 /\ c = 256 * (c \div 256) + (c % 256)
  BY <1>3, LowByte, SMT
<1> HIDE DEF a, b, c
<1>5. n % 4294967296 = (c % 256) * 16777216 + (b % 256) * 65536 + (a % 256) * 256 + (n % 256)
  BY <1>1, <1>2, <1>3, <1>4, BytesAddUp, SMT
<1> QED
  BY <1>5, SMT DEF a, b, c, ModuloU32, Joined, Byte2, Byte3

LEMMA BytesOfNumbers ==
  ASSUME NEW n \in Nat
  PROVE  /\ U16(n) \in Seq(Nat) /\ Len(U16(n)) = 2
         /\ U32(n) \in Seq(Nat) /\ Len(U32(n)) = 4
<1>1. /\ n % 256 \in Nat /\ (n \div 256) % 256 \in Nat
      /\ (n \div 65536) % 256 \in Nat /\ (n \div 16777216) % 256 \in Nat
  BY LowByte, HigherBytes, SMT
<1> QED
  BY <1>1, SMT DEF U16, U32

LEMMA Concatenation ==
  ASSUME NEW a \in Seq(Nat), NEW b \in Seq(Nat)
  PROVE  /\ a \o b \in Seq(Nat) /\ Len(a \o b) = Len(a) + Len(b)
         /\ \A i \in 1..Len(a) : (a \o b)[i] = a[i]
         /\ \A i \in 1..Len(b) : (a \o b)[Len(a) + i] = b[i]
  BY SMT

(***************************************************************************)
(* decode_frame undoes encode_frame with every payload, the empty one too: *)
(* the size and the type arrive as they are, the time modulo 2^32.         *)
(***************************************************************************)
THEOREM HeaderSurvives ==
  ASSUME NEW header \in FrameHeader, FitsU16(header.width), FitsU16(header.height),
         NEW payload \in Seq(Nat)
  PROVE  LET data == EncodeFrame(header, payload) IN
           /\ ~Malformed(data)
           /\ DecodedHeader(data) =
                [header EXCEPT !.timestamp_ms = ModuloU32(header.timestamp_ms)]
           /\ DecodedPayload(data) = payload
<1> DEFINE f == header.frame_type
           n == header.timestamp_ms
           x == header.width
           y == header.height
           t == U32(n)
           w == U16(x)
           h == U16(y)
<1>a. /\ f \in Nat /\ n \in Nat /\ FitsU16(x) /\ FitsU16(y)
      /\ header = [frame_type |-> f, timestamp_ms |-> n, width |-> x, height |-> y]
  BY DEF FrameHeader
<1>b. EncodeFrame(header, payload) = <<f>> \o t \o w \o h \o payload
  BY Zenon DEF EncodeFrame
<1> HIDE DEF f, n, x, y
<1>c. x \in Nat /\ y \in Nat
  BY <1>a, SMT DEF FitsU16
<1>d. /\ t \in Seq(Nat) /\ Len(t) = 4
      /\ w \in Seq(Nat) /\ Len(w) = 2
      /\ h \in Seq(Nat) /\ Len(h) = 2
  BY <1>a, <1>c, BytesOfNumbers, Zenon
<1> HIDE DEF t, w, h
<1> DEFINE s0 == <<f>>
           s1 == s0 \o t
           s2 == s1 \o w
           s3 == s2 \o h
           data == s3 \o payload
<1>m0. s0 \in Seq(Nat) /\ Len(s0) = 1 /\ s0[1] = f
  BY <1>a, SMT
<1> HIDE DEF s0, s3, data
<1>m1. /\ s1 \in Seq(Nat) /\ Len(s1) = Len(s0) + Len(t)
       /\ \A i \in 1..Len(s0) : s1[i] = s0[i]
       /\ \A i \in 1..Len(t) : s1[Len(s0) + i] = t[i]
  BY <1>m0, <1>d, Concatenation, Zenon
<1> HIDE DEF s1
<1>m2. /\ s2 \in Seq(Nat) /\ Len(s2) = Len(s1) + Len(w)
       /\ \A i \in 1..Len(s1) : s2[i] = s1[i]
       /\ \A i \in 1..Len(w) : s2[Len(s1) + i] = w[i]
  BY <1>m1, <1>d, Concatenation, Zenon
<1> HIDE DEF s2
<1>m3. /\ s3 \in Seq(Nat) /\ Len(s3) = Len(s2) + Len(h)
       /\ \A i \in 1..Len(s2) : s3[i] = s2[i]
       /\ \A i \in 1..Len(h) : s3[Len(s2) + i] = h[i]
  BY <1>m2, <1>d, Concatenation, Zenon DEF s3
<1>m4. /\ data \in Seq(Nat) /\ Len(data) = Len(s3) + Len(payload)
       /\ \A i \in 1..Len(s3) : data[i] = s3[i]
       /\ \A i \in 1..Len(payload) : data[Len(s3) + i] = payload[i]
  BY <1>m3, Concatenation, Zenon DEF data
<1>m5. Len(s1) = 5 /\ Len(s2) = 7 /\ Len(s3) = 9
  BY <1>m0, <1>m1, <1>m2, <1>m3, <1>d, SMT
<1>m6. s1[1] = f /\ s1[2] = t[1] /\ s1[3] = t[2] /\ s1[4] = t[3] /\ s1[5] = t[4]
  BY <1>m0, <1>m1, <1>d, SMT
<1>m7. /\ s2[1] = s1[1] /\ s2[2] = s1[2] /\ s2[3] = s1[3] /\ s2[4] = s1[4] /\ s2[5] = s1[5]
       /\ s2[6] = w[1] /\ s2[7] = w[2]
  BY <1>m2, <1>m5, <1>d, SMT
<1>m8. /\ s3[1] = s2[1] /\ s3[2] = s2[2] /\ s3[3] = s2[3] /\ s3[4] = s2[4] /\ s3[5] = s2[5]
       /\ s3[6] = s2[6] /\ s3[7] = s2[7]
       /\ s3[8] = h[1] /\ s3[9] = h[2]
  BY <1>m3, <1>m5, <1>d, SMT
<1>m9. /\ data[1] = s3[1] /\ data[2] = s3[2] /\ data[3] = s3[3] /\ data[4] = s3[4]
       /\ data[5] = s3[5] /\ data[6] = s3[6] /\ data[7] = s3[7]
       /\ data[8] = s3[8] /\ data[9] = s3[9]
       /\ Len(data) = 9 + Len(payload)
       /\ \A i \in 1..Len(payload) : data[9 + i] = payload[i]
  BY <1>m4, <1>m5, SMT
<1>2. /\ data[2] = Byte3(n) /\ data[3] = Byte2(n)
      /\ data[4] = (n \div 256) % 256 /\ data[5] = n % 256
      /\ data[6] = (x \div 256) % 256 /\ data[7] = x % 256
      /\ data[8] = (y \div 256) % 256 /\ data[9] = y % 256
  BY <1>m6, <1>m7, <1>m8, <1>m9, SMT DEF t, w, h, U32, U16, Byte3, Byte2
<1>3. ~Malformed(data)
  BY <1>m9, SMT DEF Malformed, HEADER_SIZE
<1>4. DecodedPayload(data) = payload
  <2>1. DecodedPayload(data) = SubSeq(data, 10, Len(data))
    BY DEF DecodedPayload, HEADER_SIZE
  <2> QED
    BY <1>m4, <1>m9, <2>1, SMT
<1>5. FromU32(data, 2) = ModuloU32(n)
  <2>1. FromU32(data, 2) = Joined(data[2], data[3], data[4], data[5])
    BY SMT DEF FromU32, Joined
  <2> QED
    BY <1>2, <1>a, <2>1, FourBytes, ZenonT(60)
<1>6. FromU16(data, 6) = x /\ FromU16(data, 8) = y
  <2>1. FromU16(data, 6) = data[6] * 256 + data[7] /\ FromU16(data, 8) = data[8] * 256 + data[9]
    BY SMT DEF FromU16
  <2>2. /\ x = ((x \div 256) % 256) * 256 + (x % 256)
        /\ y = ((y \div 256) % 256) * 256 + (y % 256)
    BY <1>a, TwoBytes, ZenonT(60)
  <2> QED
    BY <1>2, <2>1, <2>2, SMT
<1>7. data[1] = f
  BY <1>m6, <1>m7, <1>m8, <1>m9, Zenon
<1>8. DecodedHeader(data) =
        [frame_type |-> f, timestamp_ms |-> ModuloU32(n), width |-> x, height |-> y]
  BY <1>5, <1>6, <1>7, Zenon DEF DecodedHeader
<1>9. EncodeFrame(header, payload) = data
  BY <1>b, Zenon DEF data, s3, s2, s1, s0
<1>10. [header EXCEPT !.timestamp_ms = ModuloU32(header.timestamp_ms)] =
         [frame_type |-> f, timestamp_ms |-> ModuloU32(n), width |-> x, height |-> y]
  BY DEF FrameHeader, f, n, x, y
<1> QED
  BY <1>3, <1>4, <1>8, <1>9, <1>10, Zenon

-----------------------------------------------------------------------------
(* The policy. *)

LEMMA ProfileNumbers ==
  ASSUME NEW profile \in QualityProfile, NEW fps \in Nat
  PROVE  LET d == ProfileDefaults(profile, fps) IN
         /\ d.keyframe_interval \in Nat /\ d.quality \in Int
         /\ d.capture_queue_depth \in Nat /\ d.stream_queue_length \in Nat
         /\ d.cpu_used \in Nat
<1>1. CASE profile = "LowLatency"
  BY <1>1, PolicyAssumption, SMT DEF ProfileDefaults, AtLeast, AtMost
<1>2. CASE profile = "Balanced"
  BY <1>2, PolicyAssumption, SMT DEF ProfileDefaults, AtLeast, AtMost
<1>3. CASE profile = "Quality"
  BY <1>3, PolicyAssumption, SMT DEF ProfileDefaults, AtLeast, AtMost
<1> QED
  BY <1>1, <1>2, <1>3, Zenon DEF QualityProfile

(***************************************************************************)
(* Every configuration that from_config accepts gives numbers that the     *)
(* pipeline can work with: a keyframe interval and queues of at least one  *)
(* element, a frame rate and a timeout that are not 0, a quality that the  *)
(* quantizer formulas are made for.  The module Producer assumes them.     *)
(***************************************************************************)
THEOREM PolicyWithin ==
  ASSUME NEW config \in ProducerConfig, PolicyAccepted(config)
  PROVE  /\ Policy(config).fps \in Nat \ {0}
         /\ Policy(config).quality \in 10..200
         /\ Policy(config).keyframe_interval \in Nat \ {0}
         /\ Policy(config).capture_queue_depth \in 1..8
         /\ Policy(config).stream_queue_length \in 1..8
         /\ Policy(config).write_timeout_ms \in Nat \ {0}
         /\ Policy(config).cpu_used \in Nat
<1> DEFINE d == ProfileDefaults(config.profile, config.fps)
<1>1. /\ config.profile \in QualityProfile /\ config.fps \in Nat
      /\ config.keyframe_interval \in Nat \cup {None}
      /\ config.capture_queue_depth \in Nat \cup {None}
      /\ config.stream_queue_length \in Int \cup {None}
      /\ config.write_timeout_ms \in Nat
  BY PolicyAssumption, SMT DEF ProducerConfig, Optional
<1>2. /\ d.keyframe_interval \in Nat /\ d.capture_queue_depth \in Nat
      /\ d.stream_queue_length \in Nat /\ d.cpu_used \in Nat
  BY <1>1, ProfileNumbers, Zenon
<1> HIDE DEF d
<1>3. KeyframeInterval(config) \in Nat \ {0}
  BY <1>1, <1>2, SMT DEF KeyframeInterval, UnwrapOr, AtLeast, d
<1>4. /\ Clamp(UnwrapOr(config.capture_queue_depth, d.capture_queue_depth), 1, 8) \in 1..8
      /\ Clamp(UnwrapOr(config.stream_queue_length, d.stream_queue_length), 1, 8) \in 1..8
  BY <1>1, <1>2, SMT DEF UnwrapOr, Clamp, AtLeast, AtMost
<1>5. /\ Policy(config).fps = config.fps
      /\ Policy(config).quality = Quality(config)
      /\ Policy(config).keyframe_interval = KeyframeInterval(config)
      /\ Policy(config).capture_queue_depth =
           Clamp(UnwrapOr(config.capture_queue_depth, d.capture_queue_depth), 1, 8)
      /\ Policy(config).stream_queue_length =
           Clamp(UnwrapOr(config.stream_queue_length, d.stream_queue_length), 1, 8)
      /\ Policy(config).write_timeout_ms = config.write_timeout_ms
      /\ Policy(config).cpu_used = d.cpu_used
  BY SMT DEF Policy, d
<1> QED
  BY <1>1, <1>2, <1>3, <1>4, <1>5, SMT DEF PolicyAccepted

LEMMA TargetSize ==
  ASSUME NEW config \in ProducerConfig, NEW display, display.width \in Int, display.height \in Int
  PROVE  /\ TargetResolution(config, display).width \in Nat \ {0}
         /\ TargetResolution(config, display).height \in Nat \ {0}
<1> DEFINE preset == Preset(config.resolution, display)
<1>1. /\ config.resolution \in ResolutionPreset
      /\ config.width \in Nat \cup {None} /\ config.height \in Nat \cup {None}
  BY PolicyAssumption, SMT DEF ProducerConfig, Optional
<1>2. preset.width \in Int /\ preset.height \in Int
  BY <1>1, SMT DEF Preset, ResolutionPreset
<1> HIDE DEF preset
<1>3. /\ TargetResolution(config, display).width = AtLeast(1, UnwrapOr(config.width, preset.width))
      /\ TargetResolution(config, display).height = AtLeast(1, UnwrapOr(config.height, preset.height))
  BY SMT DEF TargetResolution, preset
<1> QED
  BY <1>1, <1>2, <1>3, SMT DEF AtLeast, UnwrapOr

-----------------------------------------------------------------------------
(* The encoder's settings. *)

(***************************************************************************)
(* calc_q_values: whatever the quality, the quantizers stay where libvpx   *)
(* wants them and apart, so the lower never passes the upper.              *)
(***************************************************************************)
THEOREM QuantizersApart ==
  ASSUME NEW quality \in Int
  PROVE  MinQuantizer(quality) \in 0..36 /\ MaxQuantizer(quality) \in 37..56
  BY SMT DEF MinQuantizer, MaxQuantizer, Between, Quality200, UpTo

(***************************************************************************)
(* calc_q_values: a higher quality never gets a coarser quantizer.         *)
(***************************************************************************)
THEOREM QualityRefines ==
  ASSUME NEW low \in Int, NEW high \in Int, low <= high
  PROVE  MinQuantizer(high) <= MinQuantizer(low) /\ MaxQuantizer(high) <= MaxQuantizer(low)
  BY SMT DEF MinQuantizer, MaxQuantizer, Between, Quality200, UpTo

LEMMA Least ==
  ASSUME NEW T, T \subseteq Nat, T # {}
  PROVE  \E x \in T : \A y \in T : x <= y
<1> DEFINE R == {ss \in Nat \X Nat : ss[1] < ss[2]}
<1>1. IsWellFoundedOn(R, Nat)
  BY NatLessThanWellFounded DEF OpToRel
<1>2. \A x, y \in Nat : y < x => <<y, x>> \in R
  BY SMT
<1> HIDE DEF R
<1>3. PICK x \in T : \A y \in T : ~ (<<y, x>> \in R)
  BY <1>1, WFMin, Zenon
<1>4. \A y \in T : ~ (y < x)
  BY <1>2, <1>3, Zenon
<1>5. \A y \in T : x <= y
  BY <1>4, SMT
<1> QED
  BY <1>5

LEMMA Presets ==
  /\ Len(RESOLUTION_PRESETS) \in Nat \ {0}
  /\ \A i \in 1..Len(RESOLUTION_PRESETS) :
       /\ RESOLUTION_PRESETS[i][1] * RESOLUTION_PRESETS[i][2] \in Nat \ {0}
       /\ RESOLUTION_PRESETS[i][3] \in Nat \ {0}
<1> DEFINE Row == (Nat \ {0}) \X (Nat \ {0}) \X (Nat \ {0})
<1>1. Len(RESOLUTION_PRESETS) = 13 /\ RESOLUTION_PRESETS \in Seq(Row)
  BY SMT DEF RESOLUTION_PRESETS
<1>2. ASSUME NEW row \in Row
      PROVE  row[1] * row[2] \in Nat \ {0} /\ row[3] \in Nat \ {0}
  <2>1. row[1] \in Nat \ {0} /\ row[2] \in Nat \ {0} /\ row[3] \in Nat \ {0}
    BY SMT
  <2>2. \A a, b \in Nat \ {0} : a * b \in Nat \ {0}
    BY SMT
  <2> QED
    BY <2>1, <2>2, Zenon
<1> HIDE DEF Row
<1>3. \A i \in 1..Len(RESOLUTION_PRESETS) : RESOLUTION_PRESETS[i] \in Row
  BY <1>1, ElementOfSeq, Zenon
<1>4. Len(RESOLUTION_PRESETS) \in Nat \ {0}
  BY <1>1, SMT
<1> QED
  BY <1>2, <1>3, <1>4, Zenon

(***************************************************************************)
(* min_by_key finds a preset for every number of pixels: `no resolution    *)
(* presets' does not happen.                                               *)
(***************************************************************************)
LEMMA NearestPresetExists ==
  ASSUME NEW pixels \in Nat
  PROVE  NearestPreset(pixels) \in 1..Len(RESOLUTION_PRESETS)
<1> DEFINE I == 1..Len(RESOLUTION_PRESETS)
           size(i) == RESOLUTION_PRESETS[i][1] * RESOLUTION_PRESETS[i][2]
           away(i) == Distance(size(i), pixels)
           T == { away(i) : i \in I }
<1>1. 1 \in I /\ I \subseteq Nat /\ \A i \in I : size(i) \in Nat
  BY Presets, SMT
<1> HIDE DEF I, size
<1>2. \A i \in I : away(i) \in Nat
  BY <1>1, SMT DEF Distance
<1> HIDE DEF away
<1>3. T \subseteq Nat /\ T # {}
  BY <1>1, <1>2, Zenon
<1>4. PICK x \in T : \A y \in T : x <= y
  BY <1>3, Least, Zenon
<1> DEFINE J == { i \in I : away(i) = x }
<1>5. J \subseteq Nat /\ J # {}
  BY <1>1, <1>4, Zenon
<1>6. PICK i \in J : \A j \in J : i <= j
  BY <1>5, Least, Zenon
<1>7. \A j \in I : away(i) < away(j) \/ (away(i) = away(j) /\ i <= j)
  <2>1. i \in I /\ away(i) = x
    BY <1>6
  <2>2. \A j \in I : x <= away(j)
    BY <1>4, Zenon
  <2>3. \A j \in I : away(j) = x => i <= j
    BY <1>6, Zenon
  <2> QED
    BY <1>2, <2>1, <2>2, <2>3, SMT
<1>8. NearestPreset(pixels) =
        CHOOSE k \in I : \A j \in I : away(k) < away(j) \/ (away(k) = away(j) /\ k <= j)
  BY Zenon DEF NearestPreset, I, away, size
<1>9. NearestPreset(pixels) \in I
  BY <1>6, <1>7, <1>8, Zenon
<1> QED
  BY <1>9 DEF I

LEMMA ScaledNat ==
  ASSUME NEW kbps \in Nat, NEW pixels \in Nat, NEW presetPixels \in Nat \ {0}
  PROVE  Scaled(kbps, pixels, presetPixels) \in Nat
<1>1. /\ pixels \div presetPixels \in Nat /\ pixels % presetPixels \in Nat
      /\ presetPixels \div 2 \in Nat
  BY SMT
<1>2. \A a, b \in Nat : a * b \in Nat /\ a + b \in Nat
  BY SMT
<1>3. \A a \in Nat : a \div presetPixels \in Nat
  BY SMT
<1> QED
  BY <1>1, <1>2, <1>3, Zenon DEF Scaled

(***************************************************************************)
(* Vp8Encoder::new: at every size and quality the settings that libvpx is  *)
(* given are numbers it takes.                                             *)
(***************************************************************************)
SettingsOf(width, height, keyframeInterval) == [
  g_w : {width}, g_h : {height}, rc_target_bitrate : Nat,
  rc_min_quantizer : 0..36, rc_max_quantizer : 37..56,
  kf_max_dist : {keyframeInterval}, cpu_used : 0..16]

LEMMA SettingsWithin ==
  ASSUME NEW width \in Nat, NEW height \in Nat, NEW quality \in Int,
         NEW keyframeInterval \in Nat \ {0}, NEW cpuUsed \in Int
  PROVE  EncoderSettings(width, height, quality, keyframeInterval, cpuUsed)
           \in SettingsOf(width, height, keyframeInterval)
<1> DEFINE pixels == width * height
           preset == NearestPreset(pixels)
<1>1. pixels \in Nat
  BY SMT
<1>2. preset \in 1..Len(RESOLUTION_PRESETS)
  BY <1>1, NearestPresetExists, Zenon
<1>3. BaseBitrate(width, height) =
        Scaled(RESOLUTION_PRESETS[preset][3], pixels,
               RESOLUTION_PRESETS[preset][1] * RESOLUTION_PRESETS[preset][2])
  BY Zenon DEF BaseBitrate
<1> HIDE DEF pixels, preset
<1>4. BaseBitrate(width, height) \in Nat
  <2>1. /\ RESOLUTION_PRESETS[preset][1] * RESOLUTION_PRESETS[preset][2] \in Nat \ {0}
        /\ RESOLUTION_PRESETS[preset][3] \in Nat
    BY <1>2, Presets, Zenon
  <2> QED
    BY <1>1, <1>3, <2>1, ScaledNat, Zenon
<1>5. Quality200(quality) \in Nat
  BY SMT DEF Quality200, UpTo
<1>6. \A a, b \in Nat : (a * b) \div 100 \in Nat
  BY SMT
<1>7. Bitrate(width, height, quality) \in Nat
  BY <1>4, <1>5, <1>6, Zenon DEF Bitrate
<1>8. (IF cpuUsed < 0 THEN 0 ELSE UpTo(16, cpuUsed)) \in 0..16
  BY SMT DEF UpTo
<1>9. MinQuantizer(quality) \in 0..36 /\ MaxQuantizer(quality) \in 37..56
  BY QuantizersApart
<1> QED
  BY <1>7, <1>8, <1>9, SMT DEF EncoderSettings, SettingsOf

-----------------------------------------------------------------------------
(* The buffers. *)

LEMMA Monotone ==
  ASSUME NEW a \in Nat, NEW b \in Nat, NEW c \in Nat, a <= b
  PROVE  a * c \in Nat /\ b * c \in Nat /\ a * c <= b * c
  BY SMT

LEMMA RoundedUp ==
  ASSUME NEW n \in Nat
  PROVE  /\ RoundUp(n, 64) \in Nat /\ RoundUp(n, 64) >= n
         /\ RoundUp(n, 64) = 2 * (RoundUp(n, 64) \div 2)
         /\ RoundUp(n, 2) \in Nat /\ RoundUp(n, 2) >= n
<1>1. \A k \in Nat : (k * 64) \div 2 = k * 32
  BY SMT
<1>2. (n + 63) \div 64 \in Nat /\ ((n + 63) \div 64) * 64 >= n
  BY SMT
<1>3. (n + 1) \div 2 \in Nat /\ ((n + 1) \div 2) * 2 >= n
  BY SMT
<1>4. RoundUp(n, 64) = ((n + 63) \div 64) * 64 /\ RoundUp(n, 2) = ((n + 1) \div 2) * 2
  BY SMT DEF RoundUp
<1> QED
  BY <1>1, <1>2, <1>3, <1>4, SMT

(* Rows of c bytes: `rows' of them in a plane that is placed behind `before'
   such rows, in a buffer of `room' rows. *)
LEMMA PlaneFits ==
  ASSUME NEW c \in Nat, NEW before \in Nat, NEW rows \in Nat \ {0}, NEW room \in Nat,
         NEW width \in Nat, width <= c, before + rows <= room
  PROVE  PlaneEnd(before * c, c, width, rows) <= room * c
<1>1. (before + rows) * c <= room * c
  BY Monotone, SMT
<1>2. (before + rows) * c = before * c + (rows - 1) * c + c
  BY SMT
<1>3. before * c \in Nat /\ (rows - 1) * c \in Nat /\ room * c \in Nat
  BY SMT
<1> QED
  BY <1>1, <1>2, <1>3, SMT DEF PlaneEnd

LEMMA Halves ==
  ASSUME NEW n \in Nat \ {0}
  PROVE  /\ n \div 2 \in Nat /\ (n + 1) \div 2 \in Nat \ {0}
         /\ (n + 1) \div 2 = n - (n \div 2)
         /\ \A m \in Nat : n <= m => (n + 1) \div 2 <= m - (m \div 2)
  BY SMT

(***************************************************************************)
(* convert_to_yuv and encode_with_flags: at every size, whatever layout    *)
(* libvpx chooses, the planes that libyuv writes and libvpx reads end      *)
(* inside the vector, and no size check fails.                             *)
(***************************************************************************)
LEMMA PlanesInside ==
  ASSUME NEW width \in Nat \ {0}, NEW height \in Nat \ {0},
         NEW image \in ImageLayouts(width, height)
  PROVE  LET fmt == YuvFormat(image) IN
         /\ fmt.w = width /\ fmt.h >= height
         /\ \A end \in YuvExtent(width, height, fmt) : end <= YuvLength(fmt)
         /\ LongEnough(YuvLength(fmt), width, height)
<1> DEFINE fmt == YuvFormat(image)
           h == image.h
           s == image.stride
           c == s \div 2
           w2 == (width + 1) \div 2
           h2 == (height + 1) \div 2
<1>1. /\ image.w = width /\ h \in Nat /\ h >= height
      /\ s \in Nat /\ s >= width /\ s = 2 * c /\ c \in Nat
  BY RoundedUp, SMT DEF ImageLayouts, STRIDE_ALIGN
<1>2. /\ fmt.w = width /\ fmt.h = h /\ fmt.stride_y = s /\ fmt.stride_uv = c
      /\ fmt.u = h * s /\ fmt.v = h * s + (h \div 2) * c
  BY <1>1, SMT DEF YuvFormat
<1> HIDE DEF fmt, h, s, c
<1>3. /\ c \in Nat /\ w2 \in Nat /\ w2 <= c
      /\ h2 \in Nat \ {0} /\ h \div 2 \in Nat /\ h2 + (h \div 2) <= h /\ h2 <= h
  <2>1. w2 \in Nat /\ w2 <= c
    BY <1>1, SMT
  <2>2. h2 \in Nat \ {0} /\ h2 <= h - (h \div 2)
    BY <1>1, Halves, Zenon
  <2>3. h \div 2 \in Nat
    BY <1>1, SMT
  <2> QED
    BY <1>1, <2>1, <2>2, <2>3, SMT
<1> HIDE DEF w2, h2
<1>4. YuvLength(fmt) = (4 * h) * c /\ YuvLength(fmt) = (2 * h) * s
  BY <1>1, <1>2, <1>3, SMT DEF YuvLength
<1>5. PlaneEnd(0, fmt.stride_y, width, height) <= YuvLength(fmt)
  <2>1. PlaneEnd(0 * s, s, width, height) <= (2 * h) * s
    <3>1. 0 \in Nat /\ 2 * h \in Nat /\ 0 + height <= 2 * h
      BY <1>1, SMT
    <3> QED
      BY <1>1, <3>1, PlaneFits, Zenon
  <2> QED
    BY <1>1, <1>2, <1>4, <2>1, SMT
<1>6. PlaneEnd(fmt.u, fmt.stride_uv, w2, h2) <= YuvLength(fmt)
  <2>1. PlaneEnd((2 * h) * c, c, w2, h2) <= (4 * h) * c
    <3>1. 2 * h \in Nat /\ 4 * h \in Nat /\ 2 * h + h2 <= 4 * h
      BY <1>1, <1>3, SMT
    <3> QED
      BY <1>3, <3>1, PlaneFits, Zenon
  <2>2. h * s = (2 * h) * c
    BY <1>1, <1>3, SMT
  <2> QED
    BY <1>2, <1>4, <2>1, <2>2, SMT
<1>7. PlaneEnd(fmt.v, fmt.stride_uv, w2, h2) <= YuvLength(fmt)
  <2>1. PlaneEnd((2 * h + (h \div 2)) * c, c, w2, h2) <= (4 * h) * c
    <3>1. /\ 2 * h + (h \div 2) \in Nat /\ 4 * h \in Nat
          /\ (2 * h + (h \div 2)) + h2 <= 4 * h
      BY <1>1, <1>3, SMT
    <3> QED
      BY <1>3, <3>1, PlaneFits, Zenon
  <2>2. h * s + (h \div 2) * c = (2 * h + (h \div 2)) * c
    BY <1>1, <1>3, SMT
  <2> QED
    BY <1>2, <1>4, <2>1, <2>2, SMT
<1>8. \A end \in YuvExtent(width, height, fmt) : end <= YuvLength(fmt)
  BY <1>5, <1>6, <1>7, Zenon DEF YuvExtent, w2, h2
<1>9. LongEnough(YuvLength(fmt), width, height)
  <2>1. width * height <= s * h /\ width * height \in Nat
    <3>1. width * height <= s * height
      BY <1>1, Monotone, SMT
    <3>2. height * s <= h * s
      BY <1>1, Monotone, SMT
    <3> QED
      BY <1>1, <3>1, <3>2, SMT
  <2>2. \A n \in Nat : (n * 12) \div 8 <= 2 * n
    BY SMT
  <2>3. YuvLength(fmt) = 2 * (s * h)
    BY <1>1, <1>4, SMT
  <2> QED
    BY <1>1, <2>1, <2>2, <2>3, SMT DEF LongEnough
<1> QED
  BY <1>1, <1>2, <1>8, <1>9, SMT DEF fmt
=============================================================================
