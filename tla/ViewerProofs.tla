----------------------------- MODULE ViewerProofs -----------------------------
(***************************************************************************)
(* Theorems about Viewer, for any frame sizes, queue limit and number of   *)
(* starts, lost connections and decoder failures.                          *)
(***************************************************************************)
EXTENDS Viewer, SequenceTheorems, TLAPS

(***************************************************************************)
(* What the decoding state keeps: a configured decoder has a size, a reset *)
(* one that is not configured has none, and the flags let a delta pass     *)
(* only with the references that it needs.                                 *)
(***************************************************************************)
Sound(v) ==
  /\ v.decoder = "configured" => v.config # NoSize
  /\ v.decoder = "unconfigured" => v.config = NoSize
  /\ Ready(v) =>
       /\ v.decoder \in {"configured", "closed"} /\ v.config # NoSize
       /\ ~v.keyRequired /\ v.intact

State(v) == v \in Worker /\ Sound(v)

-----------------------------------------------------------------------------
(* The functions of the worker *)

(* What the proofs look at of the decoding state. *)
SameDecoding(v, w) ==
  /\ w.decoder = v.decoder /\ w.config = v.config /\ w.keyRequired = v.keyRequired
  /\ w.intact = v.intact
  /\ w.seenKeyframe = v.seenKeyframe /\ w.needsKeyframe = v.needsKeyframe

LEMMA SameKeeps ==
  ASSUME NEW v, NEW w \in Worker, Sound(v), SameDecoding(v, w)
  PROVE  State(w) /\ (Ready(w) <=> Ready(v))
  BY Zenon DEF SameDecoding, State, Sound, Ready

LEMMA RequestKeeps ==
  ASSUME NEW v \in Worker, NEW force
  PROVE  RequestKeyframe(v, force) \in Worker /\ SameDecoding(v, RequestKeyframe(v, force))
<1> DEFINE w == [v EXCEPT !.asked = TRUE, !.recent = TRUE]
<1>1. w \in Worker
  BY Zenon DEF Worker
<1>2. SameDecoding(v, w)
  BY Zenon DEF Worker, SameDecoding
<1>3. SameDecoding(v, v)
  BY Zenon DEF SameDecoding
<1>4. RequestKeyframe(v, force) = w \/ RequestKeyframe(v, force) = v
  BY Zenon DEF RequestKeyframe
<1> HIDE DEF w
<1> QED
  BY <1>1, <1>2, <1>3, <1>4, Zenon

LEMMA NeedKeeps ==
  ASSUME NEW v \in Worker
  PROVE  /\ NeedKeyframe(v) \in Worker /\ ~ Ready(NeedKeyframe(v))
         /\ NeedKeyframe(v).decoder = v.decoder /\ NeedKeyframe(v).config = v.config
         /\ NeedKeyframe(v).size = v.size
<1>1. NeedKeyframe(v) \in Worker
  BY Zenon DEF NeedKeyframe, Worker
<1>2. /\ NeedKeyframe(v).needsKeyframe = TRUE
      /\ NeedKeyframe(v).decoder = v.decoder /\ NeedKeyframe(v).config = v.config
      /\ NeedKeyframe(v).size = v.size
  BY Zenon DEF NeedKeyframe, Worker
<1> QED
  BY <1>1, <1>2, Zenon DEF Ready

LEMMA ConfigureKeeps ==
  ASSUME NEW v \in Worker, NEW size \in Sizes
  PROVE  /\ Configure(v, size) \in Worker
         /\ Configure(v, size).decoder = "configured" /\ Configure(v, size).config = size
         /\ Ready(Configure(v, size)) <=> Ready(v)
<1>1. Configure(v, size) \in Worker
  BY Zenon DEF Configure, Worker
<1>2. /\ Configure(v, size).decoder = "configured" /\ Configure(v, size).config = size
      /\ Configure(v, size).seenKeyframe = v.seenKeyframe
      /\ Configure(v, size).needsKeyframe = v.needsKeyframe
  BY Zenon DEF Configure, Worker
<1> QED
  BY <1>1, <1>2, Zenon DEF Ready

LEMMA ResetKeeps ==
  ASSUME NEW v \in Worker
  PROVE  /\ Reset(v) \in Worker
         /\ Reset(v).decoder = "unconfigured" /\ Reset(v).config = v.config
         /\ Ready(Reset(v)) <=> Ready(v)
<1>0. 0 \in 0..MaxDecodeQueue + 1
  BY ViewerAssumption, SMT
<1>1. Reset(v) \in Worker
  BY <1>0, Zenon DEF Reset, Worker
<1>2. /\ Reset(v).decoder = "unconfigured" /\ Reset(v).config = v.config
      /\ Reset(v).seenKeyframe = v.seenKeyframe
      /\ Reset(v).needsKeyframe = v.needsKeyframe
  BY Zenon DEF Reset, Worker
<1> QED
  BY <1>1, <1>2, Zenon DEF Ready

LEMMA CloseKeeps ==
  ASSUME NEW v \in Worker
  PROVE  /\ CloseDecoder(v) \in Worker
         /\ CloseDecoder(v).decoder = "null" /\ CloseDecoder(v).size = v.size
         /\ Ready(CloseDecoder(v)) <=> Ready(v)
<1>0. 0 \in 0..MaxDecodeQueue + 1
  BY ViewerAssumption, SMT
<1>1. CloseDecoder(v) \in Worker
  BY <1>0, Zenon DEF CloseDecoder, Worker
<1>2. /\ CloseDecoder(v).decoder = "null" /\ CloseDecoder(v).size = v.size
      /\ CloseDecoder(v).seenKeyframe = v.seenKeyframe
      /\ CloseDecoder(v).needsKeyframe = v.needsKeyframe
  BY Zenon DEF CloseDecoder, Worker
<1> QED
  BY <1>1, <1>2, Zenon DEF Ready

LEMMA ConfigureDecoderKeeps ==
  ASSUME NEW v \in Worker, NEW size \in Sizes \cup {NoSize}
  PROVE  /\ ConfigureDecoder(v, size) \in Worker
         /\ Ready(ConfigureDecoder(v, size)) <=> Ready(v)
         /\ size # NoSize => /\ ConfigureDecoder(v, size).decoder = "configured"
                             /\ ConfigureDecoder(v, size).config = size
         /\ size = NoSize => ConfigureDecoder(v, size) = v
<1>1. CASE size = NoSize
  BY <1>1, Zenon DEF ConfigureDecoder
<1>2. CASE size # NoSize
  <2>1. size \in Sizes
    BY <1>2
  <2>2. PICK u \in {v, Reset(v)} : ConfigureDecoder(v, size) = Configure(u, size)
    BY <1>2, Zenon DEF ConfigureDecoder
  <2>3. u \in Worker /\ (Ready(u) <=> Ready(v))
    BY <2>2, ResetKeeps, Zenon
  <2>4. /\ Configure(u, size) \in Worker /\ (Ready(Configure(u, size)) <=> Ready(u))
        /\ Configure(u, size).decoder = "configured" /\ Configure(u, size).config = size
    BY <2>1, <2>3, ConfigureKeeps, Zenon
  <2> QED
    BY <1>2, <2>2, <2>3, <2>4
<1> QED
  BY <1>1, <1>2

(* Without the flags a state need only have its size right. *)
LEMMA NotReady ==
  ASSUME NEW w \in Worker, ~ Ready(w),
         \/ w.decoder \in {"null", "closed"}
         \/ w.decoder = "configured" /\ w.config # NoSize
         \/ w.decoder = "unconfigured" /\ w.config = NoSize
  PROVE  State(w)
  BY SMT DEF State, Sound

LEMMA PrepareKeeps ==
  ASSUME NEW v, State(v), NEW size \in Sizes
  PROVE  LET p == Prepare(v, size) IN
         State(p) /\ p.config \in Sizes /\ p.decoder \in {"configured", "closed"}
<1> DEFINE h == HandleResolution(v, size)
           n == NeedKeyframe(ConfigureDecoder(h, size))
           sized == IF size = v.size THEN v ELSE n
<1>0. size # NoSize /\ size \in Sizes \cup {NoSize}
  BY ViewerAssumption
<1>1. h \in Worker
  BY <1>0, Zenon DEF HandleResolution, State, Worker
<1>2. State(n)
  <2>1. /\ ConfigureDecoder(h, size) \in Worker
        /\ ConfigureDecoder(h, size).decoder = "configured"
        /\ ConfigureDecoder(h, size).config = size
    BY <1>0, <1>1, ConfigureDecoderKeeps, Zenon
  <2>2. n \in Worker /\ ~ Ready(n) /\ n.decoder = "configured" /\ n.config = size
    BY <2>1, NeedKeeps, Zenon
  <2> QED
    BY <1>0, <2>2, NotReady, Zenon
<1>3. State(sized)
  BY <1>2
<1>4. Prepare(v, size) =
        IF sized.decoder = "null" \/ sized.config = NoSize
        THEN ConfigureDecoder(sized, size) ELSE sized
  BY Zenon DEF Prepare
<1> HIDE DEF h, n, sized
<1>5. CASE sized.decoder = "null" \/ sized.config = NoSize
  <2>1. sized \in Worker /\ ~ Ready(sized)
    BY <1>3, <1>5, Zenon DEF State, Sound
  <2>2. /\ ConfigureDecoder(sized, size) \in Worker /\ ~ Ready(ConfigureDecoder(sized, size))
        /\ ConfigureDecoder(sized, size).decoder = "configured"
        /\ ConfigureDecoder(sized, size).config = size
    BY <1>0, <2>1, ConfigureDecoderKeeps, Zenon
  <2>3. State(ConfigureDecoder(sized, size))
    BY <1>0, <2>2, NotReady, Zenon
  <2> QED
    BY <1>4, <1>5, <2>2, <2>3, Zenon
<1>6. CASE sized.decoder # "null" /\ sized.config # NoSize
  <2>1. /\ sized.decoder \in {"null", "unconfigured", "configured", "closed"}
        /\ sized.config \in Sizes \cup {NoSize}
    BY <1>3 DEF State, Worker
  <2>2. sized.decoder # "unconfigured"
    BY <1>3, <1>6 DEF State, Sound
  <2>3. sized.decoder \in {"configured", "closed"} /\ sized.config \in Sizes
    BY <1>6, <2>1, <2>2
  <2> QED
    BY <1>3, <1>4, <1>6, <2>3, Zenon
<1> QED
  BY <1>5, <1>6

LEMMA ReplaceKeeps ==
  ASSUME NEW v \in Worker
  PROVE  State(ReplaceClosed(v))
<1> DEFINE c == CloseDecoder(v)
           d == ConfigureDecoder(c, v.size)
           n == NeedKeyframe(d)
<1>1. v.size \in Sizes \cup {NoSize}
  BY DEF Worker
<1>2. c \in Worker /\ c.decoder = "null"
  BY CloseKeeps, Zenon
<1> HIDE DEF c
<1>3. /\ d \in Worker
      /\ \/ d.decoder = "null"
         \/ d.decoder = "configured" /\ d.config # NoSize
  <2>1. /\ d \in Worker
        /\ v.size # NoSize => d.decoder = "configured" /\ d.config = v.size
        /\ v.size = NoSize => d = c
    BY <1>1, <1>2, ConfigureDecoderKeeps, Zenon
  <2> HIDE DEF d
  <2>2. CASE v.size = NoSize
    <3>1. d = c
      BY <2>1, <2>2
    <3> QED
      BY <1>2, <2>1, <3>1
  <2>3. CASE v.size # NoSize
    <3>1. d.decoder = "configured" /\ d.config = v.size
      BY <2>1, <2>3
    <3>2. d.config # NoSize
      BY <2>3, <3>1
    <3> QED
      BY <2>1, <3>1, <3>2
  <2> QED
    BY <2>2, <2>3
<1> HIDE DEF d
<1>4. n \in Worker /\ ~ Ready(n) /\ n.decoder = d.decoder /\ n.config = d.config
  BY <1>3, NeedKeeps, Zenon
<1> HIDE DEF n
<1>5. State(n)
  BY <1>3, <1>4, NotReady, SMT
<1>6. ReplaceClosed(v) = RequestKeyframe(n, TRUE)
  BY Zenon DEF ReplaceClosed, n, d, c
<1>7. RequestKeyframe(n, TRUE) \in Worker /\ SameDecoding(n, RequestKeyframe(n, TRUE))
  BY <1>4, RequestKeeps, Zenon
<1>8. State(RequestKeyframe(n, TRUE))
  BY <1>5, <1>7, SameKeeps, Zenon DEF State
<1> QED
  BY <1>6, <1>8

LEMMA BackpressureKeeps ==
  ASSUME NEW v \in Worker, v.config \in Sizes
  PROVE  State(ResetDecoderForBackpressure(v))
<1> DEFINE c == Configure(Reset(v), v.config)
           n == NeedKeyframe(c)
<1>1. Reset(v) \in Worker
  BY ResetKeeps, Zenon
<1>2. c \in Worker /\ c.decoder = "configured" /\ c.config = v.config
  BY <1>1, ConfigureKeeps, Zenon
<1> HIDE DEF c
<1>3. n \in Worker /\ ~ Ready(n) /\ n.decoder = "configured" /\ n.config = v.config
  BY <1>2, NeedKeeps, Zenon
<1> HIDE DEF n
<1>4. v.config # NoSize
  BY ViewerAssumption
<1>5. State(n)
  BY <1>3, <1>4, NotReady, Zenon
<1>6. ResetDecoderForBackpressure(v) = RequestKeyframe(n, FALSE)
  BY Zenon DEF ResetDecoderForBackpressure, n, c
<1>7. RequestKeyframe(n, FALSE) \in Worker /\ SameDecoding(n, RequestKeyframe(n, FALSE))
  BY <1>3, RequestKeeps, Zenon
<1>8. State(RequestKeyframe(n, FALSE))
  BY <1>5, <1>7, SameKeeps, Zenon DEF State
<1> QED
  BY <1>6, <1>8

LEMMA DecodeKeeps ==
  ASSUME NEW p, State(p), p.config \in Sizes, p.decoder = "configured",
         NEW isKey \in BOOLEAN, isKey \/ Ready(p), ~ Overfull(p)
  PROVE  State(Decode(p, isKey))
<1> DEFINE w == IF isKey THEN [p EXCEPT !.seenKeyframe = TRUE, !.needsKeyframe = FALSE] ELSE p
           n == [w EXCEPT !.needsKeyframe = TRUE, !.intact = FALSE]
           d == [w EXCEPT !.keyRequired = FALSE, !.queue = @ + 1, !.intact = isKey \/ @]
<1>0. p \in Worker /\ p.config # NoSize
  BY ViewerAssumption DEF State
<1>1. [p EXCEPT !.seenKeyframe = TRUE, !.needsKeyframe = FALSE] \in Worker
  BY <1>0, Zenon DEF Worker
<1>2. /\ w \in Worker /\ w.decoder = p.decoder /\ w.config = p.config /\ w.queue = p.queue
      /\ w.intact = p.intact
  BY <1>0, <1>1, SMT DEF Worker
<1> HIDE DEF w
<1>3. Decode(p, isKey) = IF w.keyRequired /\ ~isKey THEN RequestKeyframe(n, FALSE) ELSE d
  BY Zenon DEF Decode, w
<1>4. State(RequestKeyframe(n, FALSE))
  <2>1. n \in Worker
    BY <1>2, Zenon DEF Worker
  <2>2. n.needsKeyframe = TRUE /\ n.decoder = w.decoder /\ n.config = w.config
    BY <1>2, Zenon DEF Worker
  <2> HIDE DEF n
  <2>3. ~ Ready(n)
    BY <2>2, Zenon DEF Ready
  <2>4. n.decoder = "configured" /\ n.config # NoSize
    BY <1>0, <1>2, <2>2
  <2>5. State(n)
    BY <2>1, <2>3, <2>4, NotReady, Zenon
  <2>6. RequestKeyframe(n, FALSE) \in Worker /\ SameDecoding(n, RequestKeyframe(n, FALSE))
    BY <2>1, RequestKeeps, Zenon
  <2> QED
    BY <2>5, <2>6, SameKeeps, Zenon DEF State
<1>5. State(d)
  <2>1. w.queue + 1 \in 0..MaxDecodeQueue + 1
    <3>1. p.queue \in 0..MaxDecodeQueue + 1 /\ ~ (p.queue > MaxDecodeQueue)
      BY <1>0, Zenon DEF Worker, Overfull
    <3> QED
      BY <1>2, <3>1, ViewerAssumption, SMT
  <2>2. (isKey \/ w.intact) \in BOOLEAN
    BY Zenon
  <2>3. d \in Worker
    BY <1>2, <2>1, <2>2, Zenon DEF Worker
  <2>4. /\ d.decoder = w.decoder /\ d.config = w.config /\ d.keyRequired = FALSE
        /\ d.intact = (isKey \/ w.intact)
    BY <1>2, Zenon DEF Worker
  <2>5. Ready(p) => p.intact
    BY DEF State, Sound
  <2> HIDE DEF d
  <2>6. d.decoder = "configured" /\ d.config # NoSize /\ d.intact
    BY <1>0, <1>2, <2>4, <2>5
  <2> QED
    BY <2>3, <2>4, <2>6, SMT DEF State, Sound
<1> QED
  BY <1>3, <1>4, <1>5, Zenon

(* handleBinaryMessage *)
LEMMA HandleVideoKeeps ==
  ASSUME NEW v, State(v), NEW isKey \in BOOLEAN, NEW size \in Sizes
  PROVE  State(HandleVideo(v, isKey, size))
<1> DEFINE p == Prepare(v, size)
           lost == [p EXCEPT !.intact = FALSE]
<1>1. State(p) /\ p.config \in Sizes /\ p.decoder \in {"configured", "closed"}
  BY PrepareKeeps, Zenon
<1>2. HandleVideo(v, isKey, size) =
        CASE p.decoder = "closed" -> ReplaceClosed(lost)
          [] p.decoder # "closed" /\ ~isKey /\ ~Ready(p) -> SkipDelta(lost)
          [] p.decoder # "closed" /\ (isKey \/ Ready(p)) /\ Overfull(p) ->
               ResetDecoderForBackpressure(lost)
          [] OTHER -> Decode(p, isKey)
  BY Zenon DEF HandleVideo
<1> HIDE DEF p
<1>3. lost \in Worker
  BY <1>1, Zenon DEF State, Worker
<1>4. /\ lost.decoder = p.decoder /\ lost.config = p.config
      /\ lost.seenKeyframe = p.seenKeyframe /\ lost.needsKeyframe = p.needsKeyframe
  BY <1>1, Zenon DEF State, Worker
<1> HIDE DEF lost
<1>5. CASE p.decoder = "closed"
  <2>1. HandleVideo(v, isKey, size) = ReplaceClosed(lost)
    BY <1>2, <1>5, Zenon
  <2> QED
    BY <1>3, <2>1, ReplaceKeeps, Zenon
<1>6. CASE p.decoder # "closed" /\ ~isKey /\ ~Ready(p)
  <2>1. HandleVideo(v, isKey, size) = RequestKeyframe(lost, FALSE)
    BY <1>2, <1>6, Zenon DEF SkipDelta
  <2>2. ~ Ready(lost)
    BY <1>4, <1>6, Zenon DEF Ready
  <2>3. lost.decoder = "configured" /\ lost.config # NoSize
    BY <1>1, <1>4, <1>6, ViewerAssumption
  <2>4. State(lost)
    BY <1>3, <2>2, <2>3, NotReady, Zenon
  <2>5. RequestKeyframe(lost, FALSE) \in Worker /\ SameDecoding(lost, RequestKeyframe(lost, FALSE))
    BY <1>3, RequestKeeps, Zenon
  <2> QED
    BY <2>1, <2>4, <2>5, SameKeeps, Zenon DEF State
<1>7. CASE p.decoder # "closed" /\ (isKey \/ Ready(p)) /\ Overfull(p)
  <2>1. HandleVideo(v, isKey, size) = ResetDecoderForBackpressure(lost)
    BY <1>2, <1>7, Zenon
  <2>2. lost.config \in Sizes
    BY <1>1, <1>4
  <2> QED
    BY <1>3, <2>1, <2>2, BackpressureKeeps, Zenon
<1>8. CASE p.decoder # "closed" /\ (isKey \/ Ready(p)) /\ ~Overfull(p)
  <2>1. HandleVideo(v, isKey, size) = Decode(p, isKey)
    BY <1>2, <1>8, Zenon
  <2>2. p.decoder = "configured"
    BY <1>1, <1>8
  <2> QED
    BY <1>1, <1>8, <2>1, <2>2, DecodeKeeps, Zenon
<1> QED
  BY <1>5, <1>6, <1>7, <1>8, Zenon

(* ws.onopen *)
LEMMA OnOpenKeeps ==
  ASSUME NEW v, State(v)
  PROVE  State([NeedKeyframe(ResetDecodeQueue(v)) EXCEPT
                  !.asked = TRUE, !.recent = TRUE, !.intact = FALSE])
<1> DEFINE r == ResetDecodeQueue(v)
           n == NeedKeyframe(r)
           w == [n EXCEPT !.asked = TRUE, !.recent = TRUE, !.intact = FALSE]
<1>1. v \in Worker /\ v.config \in Sizes \cup {NoSize}
  BY DEF State, Worker
<1>2. /\ r \in Worker
      /\ \/ r.decoder \in {"null", "closed"}
         \/ r.decoder = "configured" /\ r.config # NoSize
         \/ r.decoder = "unconfigured" /\ r.config = NoSize
  <2>1. CASE v.decoder \in {"null", "closed"}
    BY <1>1, <2>1, SMT DEF ResetDecodeQueue
  <2>2. CASE v.decoder \notin {"null", "closed"} /\ v.config = NoSize
    <3>1. r = Reset(v)
      BY <2>2, Zenon DEF ResetDecodeQueue
    <3>2. Reset(v) \in Worker /\ Reset(v).decoder = "unconfigured" /\ Reset(v).config = NoSize
      BY <1>1, <2>2, ResetKeeps, SMT
    <3> QED
      BY <3>1, <3>2
  <2>3. CASE v.decoder \notin {"null", "closed"} /\ v.config # NoSize
    <3>1. r = Configure(Reset(v), v.config)
      BY <2>3, Zenon DEF ResetDecodeQueue
    <3>2. Reset(v) \in Worker /\ v.config \in Sizes
      BY <1>1, <2>3, ResetKeeps
    <3>3. /\ Configure(Reset(v), v.config) \in Worker
          /\ Configure(Reset(v), v.config).decoder = "configured"
          /\ Configure(Reset(v), v.config).config = v.config
      BY <3>2, ConfigureKeeps, Zenon
    <3>4. Configure(Reset(v), v.config).config # NoSize
      BY <2>3, <3>3
    <3> QED
      BY <3>1, <3>3, <3>4
  <2> QED
    BY <2>1, <2>2, <2>3
<1> HIDE DEF r
<1>3. n \in Worker /\ ~ Ready(n) /\ n.decoder = r.decoder /\ n.config = r.config
  BY <1>2, NeedKeeps, Zenon
<1> HIDE DEF n
<1>4. w \in Worker
  BY <1>3, Zenon DEF Worker
<1>5. /\ w.decoder = n.decoder /\ w.config = n.config
      /\ w.seenKeyframe = n.seenKeyframe /\ w.needsKeyframe = n.needsKeyframe
  BY <1>3, Zenon DEF Worker
<1> HIDE DEF w
<1>6. ~ Ready(w)
  BY <1>3, <1>5, Zenon DEF Ready
<1>7. \/ w.decoder \in {"null", "closed"}
      \/ w.decoder = "configured" /\ w.config # NoSize
      \/ w.decoder = "unconfigured" /\ w.config = NoSize
  BY <1>2, <1>3, <1>5, SMT
<1>8. State(w)
  BY <1>4, <1>6, <1>7, NotReady, Zenon
<1> QED
  BY <1>8 DEF w, n, r

(* A state that differs from a sound one only in fields the proofs do not
   look at, or by flags that no longer let a delta pass. *)
LEMMA FieldKeeps ==
  ASSUME NEW v, State(v), NEW w \in Worker, w.decoder = v.decoder, w.config = v.config,
         \/ SameDecoding(v, w)
         \/ ~ Ready(w)
  PROVE  State(w)
  BY SMT DEF State, Sound, SameDecoding, Ready

-----------------------------------------------------------------------------
(* The inductive invariant *)

IInv == TypeOK /\ State(worker) /\ OneConnection

LEMMA IdleSound ==
  ASSUME NEW recent \in BOOLEAN
  PROVE  State(Idle(recent)) /\ Idle(recent).decoder = "null"
<1>1. 0 \in 0..MaxDecodeQueue + 1
  BY ViewerAssumption, SMT
<1>2. Idle(recent) \in Worker
  BY <1>1, SMT DEF Idle, Worker
<1>3. Idle(recent).needsKeyframe = TRUE /\ Idle(recent).decoder = "null"
  BY DEF Idle
<1>4. ~ Ready(Idle(recent))
  BY <1>3, Zenon DEF Ready
<1> QED
  BY <1>2, <1>3, <1>4, NotReady, Zenon

LEMMA InitIInv == Init => IInv
<1> SUFFICES ASSUME Init PROVE IInv
  OBVIOUS
<1>1. worker = Idle(TRUE) /\ State(Idle(TRUE)) /\ Idle(TRUE).decoder = "null"
  BY IdleSound, Zenon DEF Init
<1>2. State(worker) /\ worker.decoder = "null"
  BY <1>1
<1>3. TypeOK
  <2>1. sockets \in Seq({"connecting", "open", "closing", "closed"}) /\ ws \in 0..Len(sockets)
    BY SMT DEF Init
  <2>2. worker \in Worker
    BY <1>2 DEF State
  <2> QED
    BY <2>1, <2>2 DEF Init, TypeOK
<1>4. OneConnection
  <2>1. /\ stopped = TRUE /\ ws = 0 /\ attached = {} /\ timer = FALSE
        /\ \A s : s \notin 1..Len(sockets)
    BY SMT DEF Init
  <2> QED
    BY <1>2, <2>1, Zenon DEF OneConnection
<1> QED
  BY <1>2, <1>3, <1>4 DEF IInv

(* A step of the decoding state alone. *)
LEMMA WorkerStep ==
  ASSUME IInv, UNCHANGED connectionVars, State(worker'), errorDue' \in BOOLEAN,
         starts' \in Nat, drops' \in Nat, failures' \in Nat,
         stopped => worker'.decoder = "null"
  PROVE  IInv'
<1>1. TypeOK'
  BY Zenon DEF IInv, TypeOK, State, connectionVars
<1>2. OneConnection'
  BY Zenon DEF IInv, OneConnection, connectionVars
<1> QED
  BY <1>1, <1>2 DEF IInv

-----------------------------------------------------------------------------
(* The steps of the decoding state alone *)

LEMMA DeliverKeeps ==
  ASSUME IInv,
         \/ \E size \in Sizes : \E isKey \in BOOLEAN : DeliverVideo(isKey, size)
         \/ \E size \in Sizes : DeliverMeta(size)
         \/ DeliverForceKeyframe
  PROVE  IInv'
<1>0. State(worker) /\ worker \in Worker
  BY DEF IInv, State
<1>1. UNCHANGED <<connectionVars, errorDue, boundVars>> /\ Receiving
  BY DEF DeliverVideo, DeliverMeta, DeliverForceKeyframe
<1>2. ~stopped
  <2>1. attached # {}
    BY <1>1 DEF Receiving
  <2> QED
    BY <2>1 DEF IInv, OneConnection
<1>3. State(worker')
  <2>1. ASSUME NEW size \in Sizes, NEW isKey \in BOOLEAN, DeliverVideo(isKey, size)
        PROVE  State(worker')
    <3> DEFINE w == [worker EXCEPT !.asked = @ /\ ~isKey]
    <3>1. w \in Worker /\ SameDecoding(worker, w)
      <4>1. (worker.asked /\ ~isKey) \in BOOLEAN
        BY Zenon
      <4> QED
        BY <1>0, <4>1, Zenon DEF Worker, SameDecoding
    <3>2. worker' = HandleVideo(w, isKey, size)
      BY <2>1, Zenon DEF DeliverVideo
    <3> HIDE DEF w
    <3>3. State(w)
      BY <1>0, <3>1, SameKeeps, Zenon DEF State
    <3>4. State(HandleVideo(w, isKey, size))
      BY <3>3, HandleVideoKeeps, Zenon
    <3> QED
      BY <3>2, <3>4
  <2>2. ASSUME NEW size \in Sizes, DeliverMeta(size)
        PROVE  State(worker')
    <3> DEFINE w == [worker EXCEPT !.size = size]
    <3>1. w \in Worker /\ SameDecoding(worker, w)
      BY <1>0, Zenon DEF Worker, SameDecoding
    <3>2. worker' = w \/ worker' = worker
      BY <2>2, Zenon DEF DeliverMeta, HandleResolution
    <3> HIDE DEF w
    <3>3. State(w)
      BY <1>0, <3>1, SameKeeps, Zenon DEF State
    <3> QED
      BY <1>0, <3>2, <3>3
  <2>3. CASE DeliverForceKeyframe
    <3> DEFINE w == [worker EXCEPT !.needsKeyframe = TRUE]
    <3>1. /\ w \in Worker /\ w.decoder = worker.decoder /\ w.config = worker.config
          /\ w.needsKeyframe = TRUE
      BY <1>0, Zenon DEF Worker
    <3>2. worker' = RequestKeyframe(w, TRUE)
      BY <2>3, Zenon DEF DeliverForceKeyframe
    <3> HIDE DEF w
    <3>3. ~ Ready(w)
      BY <3>1, Zenon DEF Ready
    <3>4. State(w)
      BY <1>0, <3>1, <3>3, FieldKeeps, Zenon
    <3>5. RequestKeyframe(w, TRUE) \in Worker /\ SameDecoding(w, RequestKeyframe(w, TRUE))
      BY <3>1, RequestKeeps, Zenon
    <3>6. State(RequestKeyframe(w, TRUE))
      BY <3>4, <3>5, SameKeeps, Zenon DEF State
    <3> QED
      BY <3>2, <3>6
  <2> QED
    BY <2>1, <2>2, <2>3
<1> QED
  BY <1>1, <1>2, <1>3, WorkerStep, Zenon DEF IInv, TypeOK, boundVars

LEMMA DecoderKeeps ==
  ASSUME IInv, DecoderDequeues \/ DecoderFails \/ DecoderError \/ RequestIntervalPasses
  PROVE  IInv'
<1>0. /\ State(worker) /\ worker \in Worker
      /\ stopped => worker.decoder = "null"
      /\ errorDue \in BOOLEAN /\ starts \in Nat /\ drops \in Nat /\ failures \in Nat
  BY DEF IInv, State, OneConnection, TypeOK
<1>1. 0 \in 0..MaxDecodeQueue + 1
  BY ViewerAssumption, SMT
<1>2. CASE DecoderDequeues
  <2> DEFINE w == [worker EXCEPT !.queue = @ - 1]
  <2>1. worker.queue - 1 \in 0..MaxDecodeQueue + 1
    <3>1. worker.queue \in 0..MaxDecodeQueue + 1 /\ worker.queue > 0
      BY <1>0, <1>2, Zenon DEF DecoderDequeues, Worker
    <3> QED
      BY <3>1, ViewerAssumption, SMT
  <2>2. w \in Worker
    BY <1>0, <2>1, Zenon DEF Worker
  <2>3. SameDecoding(worker, w)
    BY <1>0, Zenon DEF Worker, SameDecoding
  <2>4. worker' = w /\ UNCHANGED <<connectionVars, errorDue, boundVars>>
    BY <1>2, Zenon DEF DecoderDequeues
  <2> HIDE DEF w
  <2>5. State(w) /\ w.decoder = worker.decoder
    BY <1>0, <2>2, <2>3, SameKeeps, Zenon DEF State, SameDecoding
  <2>6. State(worker') /\ worker'.decoder = worker.decoder
    BY <2>4, <2>5
  <2>7. /\ UNCHANGED connectionVars /\ errorDue' \in BOOLEAN
        /\ starts' \in Nat /\ drops' \in Nat /\ failures' \in Nat
    BY <1>0, <2>4 DEF boundVars
  <2>8. stopped => worker'.decoder = "null"
    BY <1>0, <2>6
  <2> QED
    BY <2>6, <2>7, <2>8, WorkerStep, Zenon
<1>3. CASE DecoderFails
  <2> DEFINE w == [worker EXCEPT !.decoder = "closed", !.queue = 0]
  <2>1. w \in Worker
    BY <1>0, <1>1, Zenon DEF Worker
  <2>2. /\ w.decoder = "closed" /\ w.config = worker.config /\ w.intact = worker.intact
        /\ w.keyRequired = worker.keyRequired
        /\ w.seenKeyframe = worker.seenKeyframe /\ w.needsKeyframe = worker.needsKeyframe
    BY <1>0, Zenon DEF Worker
  <2>3. /\ worker' = w /\ worker.decoder = "configured" /\ errorDue' = TRUE
        /\ failures' = failures + 1
        /\ UNCHANGED <<connectionVars, starts, drops>>
    BY <1>3, Zenon DEF DecoderFails
  <2> HIDE DEF w
  <2>4. State(w)
    <3>1. Ready(w) <=> Ready(worker)
      BY <2>2, Zenon DEF Ready
    <3>2. Ready(worker) => worker.config # NoSize /\ ~worker.keyRequired /\ worker.intact
      BY <1>0 DEF State, Sound
    <3>3. Ready(w) => w.config # NoSize /\ ~w.keyRequired /\ w.intact
      BY <2>2, <3>1, <3>2
    <3> QED
      BY <2>1, <2>2, <3>3, SMT DEF State, Sound
  <2>5. State(worker') /\ ~stopped
    BY <1>0, <2>3, <2>4
  <2>6. failures' \in Nat
    BY <1>0, <2>3, SMT
  <2> QED
    BY <1>0, <2>3, <2>5, <2>6, WorkerStep, Zenon
<1>4. CASE DecoderError
  <2> DEFINE n == NeedKeyframe(worker)
             c == CloseDecoder(n)
             r == RequestKeyframe(c, FALSE)
  <2>1. n \in Worker /\ ~ Ready(n)
    BY <1>0, NeedKeeps, Zenon
  <2> HIDE DEF n
  <2>2. c \in Worker /\ ~ Ready(c) /\ c.decoder = "null"
    BY <2>1, CloseKeeps, Zenon
  <2> HIDE DEF c
  <2>3. State(c)
    BY <2>2, NotReady, Zenon
  <2>4. r \in Worker /\ SameDecoding(c, r)
    BY <2>2, RequestKeeps, Zenon
  <2>5. worker' = r /\ errorDue' = FALSE /\ UNCHANGED <<connectionVars, boundVars>>
    BY <1>4, Zenon DEF DecoderError, n, c
  <2> HIDE DEF r
  <2>6. State(r) /\ r.decoder = "null"
    BY <2>2, <2>3, <2>4, SameKeeps, Zenon DEF State, SameDecoding
  <2>7. State(worker') /\ worker'.decoder = "null"
    BY <2>5, <2>6
  <2>8. starts' \in Nat /\ drops' \in Nat /\ failures' \in Nat
    BY <1>0, <2>5 DEF boundVars
  <2> QED
    BY <2>5, <2>7, <2>8, WorkerStep, Zenon
<1>5. CASE RequestIntervalPasses
  <2> DEFINE w == [worker EXCEPT !.recent = FALSE]
  <2>1. w \in Worker /\ SameDecoding(worker, w)
    BY <1>0, Zenon DEF Worker, SameDecoding
  <2>2. worker' = w /\ UNCHANGED <<connectionVars, errorDue, boundVars>>
    BY <1>5, Zenon DEF RequestIntervalPasses
  <2> HIDE DEF w
  <2>3. State(w) /\ w.decoder = worker.decoder
    BY <1>0, <2>1, SameKeeps, Zenon DEF State, SameDecoding
  <2>4. State(worker') /\ worker'.decoder = worker.decoder
    BY <2>2, <2>3
  <2>5. /\ UNCHANGED connectionVars /\ errorDue' \in BOOLEAN
        /\ starts' \in Nat /\ drops' \in Nat /\ failures' \in Nat
    BY <1>0, <2>2 DEF boundVars
  <2>6. stopped => worker'.decoder = "null"
    BY <1>0, <2>4
  <2> QED
    BY <2>4, <2>5, <2>6, WorkerStep, Zenon
<1> QED
  BY <1>2, <1>3, <1>4, <1>5

-----------------------------------------------------------------------------
(* The steps of the connection *)

SocketState == {"connecting", "open", "closing", "closed"}

(* What TypeOK and OneConnection say of the sockets, and of each one. *)
LEMMA Sockets ==
  ASSUME IInv
  PROVE  /\ sockets \in Seq(SocketState) /\ Len(sockets) \in Nat
         /\ ws \in Nat /\ (ws # 0 => ws \in 1..Len(sockets))
         /\ \A s \in attached : s = ws /\ s # 0
         /\ ws # 0 => ws \in attached
  BY SMT DEF IInv, TypeOK, OneConnection, SocketState

LEMMA ExceptSocket ==
  ASSUME IInv, NEW s \in 1..Len(sockets), NEW state \in SocketState,
         sockets' = [sockets EXCEPT ![s] = state]
  PROVE  /\ sockets' \in Seq(SocketState) /\ Len(sockets') = Len(sockets)
         /\ sockets'[s] = state
         /\ \A r \in 1..Len(sockets) : r # s => sockets'[r] = sockets[r]
<1>1. sockets \in Seq(SocketState)
  BY Sockets, Zenon
<1> QED
  BY <1>1, ExceptSeq

(* `connect' makes the new socket the current one. *)
LEMMA NewSocketKeeps ==
  ASSUME IInv, ws = 0, NewSocket
  PROVE  /\ sockets' \in Seq(SocketState) /\ ws' \in 1..Len(sockets')
         /\ attached' = {ws'} /\ ws' # 0 /\ attached' \subseteq 1..Len(sockets')
         /\ \A s \in 1..Len(sockets') \ {ws'} : sockets'[s] \in {"closing", "closed"}
<1>1. sockets \in Seq(SocketState) /\ Len(sockets) \in Nat /\ attached = {}
  BY Sockets, Zenon
<1>2. sockets' = Append(sockets, "connecting") /\ "connecting" \in SocketState
  BY DEF NewSocket, SocketState
<1>3. /\ sockets' \in Seq(SocketState) /\ Len(sockets') = Len(sockets) + 1
      /\ \A s \in 1..Len(sockets) : sockets'[s] = sockets[s]
  BY <1>1, <1>2, SMT
<1>4. ws' = Len(sockets) + 1 /\ attached' = {ws'}
  BY <1>1, <1>3 DEF NewSocket
<1>5. ws' \in 1..Len(sockets') /\ ws' # 0 /\ 1..Len(sockets') \ {ws'} = 1..Len(sockets)
  BY <1>1, <1>3, <1>4, SMT
<1>6. \A s \in 1..Len(sockets) : sockets[s] \in {"closing", "closed"}
  <2>1. 0 \notin 1..Len(sockets)
    BY SMT
  <2> QED
    BY <2>1, Zenon DEF IInv, OneConnection
<1> QED
  BY <1>3, <1>4, <1>5, <1>6, Zenon

(* A decoding state that is only given a size. *)
LEMMA StartState ==
  ASSUME IInv, stopped, NEW size \in Sizes \cup {NoSize}
  PROVE  State(ConfigureDecoder([worker EXCEPT !.size = size], size))
<1> DEFINE w == [worker EXCEPT !.size = size]
           c == ConfigureDecoder(w, size)
<1>1. State(worker) /\ worker \in Worker /\ worker.decoder = "null"
  BY DEF IInv, State, OneConnection
<1>2. w \in Worker /\ SameDecoding(worker, w)
  BY <1>1, Zenon DEF Worker, SameDecoding
<1> HIDE DEF w
<1>3. State(w) /\ w.decoder = "null"
  BY <1>1, <1>2, SameKeeps, Zenon DEF State, SameDecoding
<1>4. ~ Ready(w)
  BY <1>3 DEF State, Sound
<1>5. /\ c \in Worker /\ ~ Ready(c)
      /\ size # NoSize => c.decoder = "configured" /\ c.config = size
      /\ size = NoSize => c = w
  BY <1>2, <1>4, ConfigureDecoderKeeps, Zenon
<1> HIDE DEF c
<1>6. ASSUME size = NoSize PROVE State(c)
  <2>1. c = w
    BY <1>5, <1>6, Zenon
  <2> QED
    BY <1>3, <2>1
<1>7. ASSUME size # NoSize PROVE State(c)
  <2>1. c \in Worker /\ ~ Ready(c) /\ c.decoder = "configured" /\ c.config = size
    BY <1>5, <1>7, Zenon
  <2>2. c.config # NoSize
    BY <1>7, <2>1
  <2> QED
    BY <2>1, <2>2, NotReady, Zenon
<1>8. State(c)
  BY <1>6, <1>7, Zenon
<1> QED
  BY <1>8 DEF c, w

LEMMA StartKeeps ==
  ASSUME IInv, NEW size \in Sizes \cup {NoSize}, Start(size)
  PROVE  IInv'
<1>1. /\ stopped /\ stopped' = FALSE /\ starts' = starts + 1
      /\ worker' = ConfigureDecoder([worker EXCEPT !.size = size], size)
      /\ NewSocket /\ UNCHANGED <<timer, errorDue, drops, failures>>
  BY Zenon DEF Start
<1>2. ws = 0 /\ ~timer
  BY <1>1 DEF IInv, OneConnection
<1>3. /\ sockets' \in Seq(SocketState) /\ ws' \in 1..Len(sockets')
      /\ attached' = {ws'} /\ ws' # 0 /\ attached' \subseteq 1..Len(sockets')
      /\ \A s \in 1..Len(sockets') \ {ws'} : sockets'[s] \in {"closing", "closed"}
  BY <1>1, <1>2, NewSocketKeeps, Zenon
<1>4. State(worker')
  BY <1>1, StartState, Zenon
<1>5. TypeOK'
  <2>1. starts' \in Nat
    BY <1>1, SMT DEF IInv, TypeOK
  <2>2. ws' \in 0..Len(sockets')
    BY <1>3, SMT
  <2> QED
    BY <1>1, <1>3, <1>4, <2>1, <2>2, Zenon DEF IInv, TypeOK, State, SocketState
<1>6. OneConnection'
  <2>1. attached' = {ws'} \ {0}
    BY <1>3
  <2> QED
    BY <1>1, <1>2, <1>3, <2>1, Zenon DEF OneConnection
<1> QED
  BY <1>4, <1>5, <1>6 DEF IInv

LEMMA StopKeeps ==
  ASSUME IInv, Stop
  PROVE  IInv'
<1>1. /\ stopped' = TRUE /\ timer' = FALSE /\ ws' = 0 /\ attached' = attached \ {ws}
      /\ sockets' = (IF ws = 0 THEN sockets ELSE Closed(ws))
      /\ worker' = Idle(FALSE) /\ UNCHANGED <<errorDue, boundVars>>
  BY Zenon DEF Stop, StopSocket
<1>2. State(worker') /\ worker'.decoder = "null"
  BY <1>1, IdleSound
<1>3. /\ sockets \in Seq(SocketState) /\ Len(sockets) \in Nat
      /\ ws # 0 => ws \in 1..Len(sockets)
      /\ \A s \in attached : s = ws
  BY Sockets, Zenon
<1>4. /\ sockets' \in Seq(SocketState) /\ Len(sockets') = Len(sockets)
      /\ \A s \in 1..Len(sockets) : sockets'[s] \in {"closing", "closed"}
  <2>1. CASE ws = 0
    <3>1. \A s \in 1..Len(sockets) : sockets[s] \in {"closing", "closed"}
      <4>1. 0 \notin 1..Len(sockets)
        BY SMT
      <4> QED
        BY <2>1, <4>1, Zenon DEF IInv, OneConnection
    <3> QED
      BY <1>1, <1>3, <2>1, <3>1
  <2>2. CASE ws # 0
    <3> DEFINE state == IF sockets[ws] \in {"connecting", "open"} THEN "closing" ELSE sockets[ws]
    <3>1. sockets[ws] \in SocketState
      BY <1>3, <2>2, SMT
    <3>2. state \in {"closing", "closed"} /\ state \in SocketState
      BY <3>1 DEF SocketState
    <3>3. sockets' = [sockets EXCEPT ![ws] = state]
      BY <1>1, <2>2, Zenon DEF Closed
    <3> HIDE DEF state
    <3>4. /\ sockets' \in Seq(SocketState) /\ Len(sockets') = Len(sockets)
          /\ sockets'[ws] = state
          /\ \A s \in 1..Len(sockets) : s # ws => sockets'[s] = sockets[s]
      BY <1>3, <2>2, <3>2, <3>3, ExceptSocket, Zenon
    <3>5. \A s \in 1..Len(sockets) : s # ws => sockets[s] \in {"closing", "closed"}
      BY Zenon DEF IInv, OneConnection
    <3> QED
      BY <3>2, <3>4, <3>5, Zenon
  <2> QED
    BY <2>1, <2>2
<1>5. attached' = {}
  BY <1>1, <1>3
<1>6. TypeOK'
  <2>1. ws' \in 0..Len(sockets')
    BY <1>1, <1>3, <1>4, SMT
  <2> QED
    BY <1>1, <1>2, <1>4, <1>5, <2>1 DEF IInv, TypeOK, State, SocketState, boundVars
<1>7. OneConnection'
  BY <1>1, <1>2, <1>4, <1>5, Zenon DEF OneConnection
<1> QED
  BY <1>2, <1>6, <1>7 DEF IInv

(* An attached socket's state changes: it is the current one. *)
LEMMA SocketChanges ==
  ASSUME IInv, NEW s \in attached, NEW state \in SocketState,
         sockets' = [sockets EXCEPT ![s] = state]
  PROVE  /\ sockets' \in Seq(SocketState) /\ Len(sockets') = Len(sockets)
         /\ s = ws /\ ws # 0
         /\ \A r \in 1..Len(sockets) \ {ws} : sockets'[r] \in {"closing", "closed"}
<1>1. s = ws /\ ws # 0
  BY Sockets, Zenon
<1>2. /\ sockets' \in Seq(SocketState) /\ Len(sockets') = Len(sockets)
      /\ \A r \in 1..Len(sockets) : r # s => sockets'[r] = sockets[r]
  <2>1. s \in 1..Len(sockets)
    BY <1>1, Sockets, Zenon
  <2> QED
    BY <2>1, ExceptSocket, Zenon
<1>3. \A r \in 1..Len(sockets) \ {ws} : sockets[r] \in {"closing", "closed"}
  BY Zenon DEF IInv, OneConnection
<1>4. \A r \in 1..Len(sockets) \ {ws} : sockets'[r] = sockets[r]
  BY <1>1, <1>2, Zenon
<1> QED
  BY <1>1, <1>2, <1>3, <1>4

LEMMA OpenDropKeeps ==
  ASSUME IInv, SocketOpens \/ SocketDrops
  PROVE  IInv'
<1>1. PICK s \in attached, state \in SocketState : sockets' = [sockets EXCEPT ![s] = state]
  BY SMT DEF SocketOpens, SocketDrops, SocketState
<1>2. /\ sockets' \in Seq(SocketState) /\ Len(sockets') = Len(sockets) /\ ws # 0
      /\ \A r \in 1..Len(sockets) \ {ws} : sockets'[r] \in {"closing", "closed"}
  BY <1>1, SocketChanges, Zenon
<1>3. UNCHANGED <<stopped, ws, attached, timer, errorDue, starts, failures>>
  BY DEF SocketOpens, SocketDrops, boundVars
<1>4. ~stopped
  BY <1>2 DEF IInv, OneConnection
<1>5. State(worker')
  <2>1. CASE SocketOpens
    BY <2>1, OnOpenKeeps, Zenon DEF SocketOpens, OnOpen, IInv
  <2>2. CASE SocketDrops
    BY <2>2 DEF SocketDrops, IInv
  <2> QED
    BY <2>1, <2>2
<1>6. drops' \in Nat
  BY SMT DEF SocketOpens, SocketDrops, boundVars, IInv, TypeOK
<1>7. TypeOK'
  BY <1>2, <1>3, <1>5, <1>6, Zenon DEF IInv, TypeOK, State, SocketState
<1>8. OneConnection'
  BY <1>2, <1>3, <1>4, Zenon DEF IInv, OneConnection
<1> QED
  BY <1>5, <1>7, <1>8 DEF IInv

LEMMA OnCloseKeeps ==
  ASSUME IInv, NEW s \in 1..Len(sockets), OnClose(s)
  PROVE  IInv'
<1>1. /\ sockets[s] = "closing" /\ sockets' = [sockets EXCEPT ![s] = "closed"]
      /\ UNCHANGED <<stopped, errorDue, boundVars>>
  BY Zenon DEF OnClose
<1>2. /\ sockets' \in Seq(SocketState) /\ Len(sockets') = Len(sockets)
      /\ sockets'[s] = "closed"
      /\ \A r \in 1..Len(sockets) : r # s => sockets'[r] = sockets[r]
  <2>1. "closed" \in SocketState
    BY DEF SocketState
  <2> QED
    BY <1>1, <2>1, ExceptSocket, Zenon
<1>3. \A r \in 1..Len(sockets) : r # ws => sockets'[r] \in {"closing", "closed"}
  BY <1>2, Zenon DEF IInv, OneConnection
<1>4. State(worker) /\ worker \in Worker
  BY DEF IInv, State
<1>5. CASE s \in attached
  <2>1. /\ ws' = 0 /\ attached' = attached \ {s} /\ timer' = (timer \/ ~stopped)
        /\ worker' = NeedKeyframe([worker EXCEPT !.asked = FALSE, !.intact = FALSE])
    BY <1>5, Zenon DEF OnClose
  <2>2. s = ws /\ ws # 0 /\ attached' = {}
    BY <1>5, <2>1, Sockets, Zenon
  <2>3. ~stopped /\ timer' = TRUE
    BY <2>1, <2>2, Zenon DEF IInv, OneConnection
  <2>4. State(worker')
    <3> DEFINE w == [worker EXCEPT !.asked = FALSE, !.intact = FALSE]
    <3>1. w \in Worker /\ w.decoder = worker.decoder /\ w.config = worker.config
      BY <1>4, Zenon DEF Worker
    <3> HIDE DEF w
    <3>2. /\ NeedKeyframe(w) \in Worker /\ ~ Ready(NeedKeyframe(w))
          /\ NeedKeyframe(w).decoder = w.decoder /\ NeedKeyframe(w).config = w.config
      BY <3>1, NeedKeeps, Zenon
    <3>3. /\ NeedKeyframe(w).decoder = worker.decoder
          /\ NeedKeyframe(w).config = worker.config
      BY <3>1, <3>2
    <3>4. State(NeedKeyframe(w))
      BY <1>4, <3>2, <3>3, FieldKeeps, Zenon
    <3> QED
      BY <2>1, <3>4 DEF w
  <2>5. TypeOK'
    <3>1. ws' \in 0..Len(sockets')
      BY <1>2, <2>1, Sockets, SMT
    <3> QED
      BY <1>1, <1>2, <2>2, <2>3, <2>4, <3>1 DEF IInv, TypeOK, State, SocketState, boundVars
  <2>6. OneConnection'
    <3>1. \A r \in 1..Len(sockets) : sockets'[r] \in {"closing", "closed"}
      BY <1>2, <1>3, <2>2, Zenon
    <3> QED
      BY <1>1, <1>2, <2>1, <2>2, <2>3, <3>1, Zenon DEF OneConnection
  <2> QED
    BY <2>4, <2>5, <2>6 DEF IInv
<1>6. CASE s \notin attached
  <2>1. UNCHANGED <<ws, attached, worker, timer>>
    BY <1>6, Zenon DEF OnClose
  <2>2. TypeOK'
    BY <1>1, <1>2, <2>1, Zenon DEF IInv, TypeOK, SocketState, boundVars
  <2>3. OneConnection'
    BY <1>1, <1>2, <1>3, <2>1, Zenon DEF IInv, OneConnection
  <2> QED
    BY <1>4, <2>1, <2>2, <2>3 DEF IInv
<1> QED
  BY <1>5, <1>6

LEMMA ReconnectKeeps ==
  ASSUME IInv, Reconnect
  PROVE  IInv'
<1>1. timer /\ ws = 0 /\ ~stopped
  BY DEF Reconnect, IInv, OneConnection
<1>2. UNCHANGED <<stopped, worker, errorDue, starts, failures>>
  BY DEF Reconnect
<1>3. CASE timer' = FALSE /\ NewSocket /\ UNCHANGED drops
  <2>1. /\ sockets' \in Seq(SocketState) /\ ws' \in 1..Len(sockets')
        /\ attached' = {ws'} /\ ws' # 0 /\ attached' \subseteq 1..Len(sockets')
        /\ \A s \in 1..Len(sockets') \ {ws'} : sockets'[s] \in {"closing", "closed"}
    BY <1>1, <1>3, NewSocketKeeps, Zenon
  <2>2. TypeOK'
    <3>1. ws' \in 0..Len(sockets')
      BY <2>1, SMT
    <3> QED
      BY <1>2, <1>3, <2>1, <3>1, Zenon DEF IInv, TypeOK, SocketState
  <2>3. OneConnection'
    <3>1. attached' = {ws'} \ {0}
      BY <2>1
    <3> QED
      BY <1>1, <1>2, <1>3, <2>1, <3>1, Zenon DEF OneConnection
  <2> QED
    BY <1>2, <2>2, <2>3 DEF IInv
<1>4. CASE drops' = drops + 1 /\ UNCHANGED <<timer, sockets, ws, attached>>
  <2>1. drops' \in Nat
    BY <1>4, SMT DEF IInv, TypeOK
  <2>2. TypeOK' /\ OneConnection'
    BY <1>2, <1>4, <2>1, Zenon DEF IInv, TypeOK, OneConnection
  <2> QED
    BY <1>2, <2>2 DEF IInv
<1> QED
  BY <1>3, <1>4, Zenon DEF Reconnect

LEMMA NextKeeps == IInv /\ [Next]_vars => IInv'
<1> SUFFICES ASSUME IInv, [Next]_vars PROVE IInv'
  OBVIOUS
<1>1. CASE UNCHANGED vars
  <2>1. UNCHANGED <<connectionVars, errorDue, boundVars>> /\ worker' = worker
    BY <1>1 DEF vars
  <2>2. TypeOK' /\ OneConnection'
    BY <2>1, Zenon DEF IInv, TypeOK, OneConnection, connectionVars, boundVars
  <2> QED
    BY <2>1, <2>2 DEF IInv
<1>2. CASE Next
  BY <1>2, StopKeeps, StartKeeps, OpenDropKeeps, ReconnectKeeps, OnCloseKeeps, DeliverKeeps,
     DecoderKeeps, Zenon
  DEF Next
<1> QED
  BY <1>1, <1>2

(* The inductive invariant holds in every reachable state. *)
THEOREM Invariant == Spec => []IInv
  BY InitIInv, NextKeeps, PTL DEF Spec

-----------------------------------------------------------------------------
(***************************************************************************)
(* The worker's variables stay within their types; above all, the          *)
(* decoder's queue exceeds MAX_DECODE_QUEUE by one at most.                *)
(***************************************************************************)
THEOREM ViewerTypeCorrect == Spec => []TypeOK
<1>1. IInv => TypeOK
  BY DEF IInv
<1> QED
  BY <1>1, Invariant, PTL

(***************************************************************************)
(* ReadyIsDecodable: through every order of packets, resizes, reconnects,  *)
(* resets for backpressure and decoder failures, a delta that the flags    *)
(* let pass has its references.                                            *)
(***************************************************************************)
THEOREM DecodableCorrect == Spec => []ReadyIsDecodable
<1>1. ASSUME IInv PROVE ReadyIsDecodable
  BY <1>1 DEF IInv, State, Sound, ReadyIsDecodable
<1> QED
  BY <1>1, Invariant, PTL

(***************************************************************************)
(* OneConnection: start, stop, the timer and the sockets' events never     *)
(* leave two connections or, once stopped, one.                            *)
(***************************************************************************)
THEOREM OneConnectionCorrect == Spec => []OneConnection
<1>1. IInv => OneConnection
  BY DEF IInv
<1> QED
  BY <1>1, Invariant, PTL

-----------------------------------------------------------------------------
(* What recovery rests on: a packet that does not help asks for one that does. *)

LEMMA RecentKept ==
  ASSUME NEW v \in Worker, NEW size \in Sizes \cup {NoSize}
  PROVE  /\ NeedKeyframe(v).recent = v.recent /\ CloseDecoder(v).recent = v.recent
         /\ Reset(v).recent = v.recent /\ HandleResolution(v, size).recent = v.recent
         /\ ConfigureDecoder(v, size).recent = v.recent
<1>1. NeedKeyframe(v).recent = v.recent
  BY Zenon DEF NeedKeyframe, Worker
<1>2. CloseDecoder(v).recent = v.recent
  BY Zenon DEF CloseDecoder, Worker
<1>3. Reset(v).recent = v.recent /\ Reset(v) \in Worker
  BY ResetKeeps, Zenon DEF Reset, Worker
<1>4. HandleResolution(v, size).recent = v.recent
  BY Zenon DEF HandleResolution, Worker
<1>5. ASSUME NEW u \in Worker PROVE Configure(u, size).recent = u.recent
  BY Zenon DEF Configure, Worker
<1>6. ConfigureDecoder(v, size).recent = v.recent
  <2>1. PICK u \in {v, Reset(v)} : ConfigureDecoder(v, size) \in {v, Configure(u, size)}
    BY Zenon DEF ConfigureDecoder
  <2>2. u \in Worker /\ u.recent = v.recent
    BY <1>3, <2>1
  <2> QED
    BY <1>5, <2>1, <2>2
<1> QED
  BY <1>1, <1>2, <1>3, <1>4, <1>6

LEMMA PrepareRecent ==
  ASSUME NEW v, State(v), NEW size \in Sizes
  PROVE  Prepare(v, size).recent = v.recent
<1> DEFINE h == HandleResolution(v, size)
           c == ConfigureDecoder(h, size)
           sized == IF size = v.size THEN v ELSE NeedKeyframe(c)
<1>0. v \in Worker /\ size \in Sizes \cup {NoSize}
  BY DEF State
<1>1. h \in Worker /\ h.recent = v.recent
  <2>1. h \in Worker
    BY <1>0, Zenon DEF HandleResolution, Worker
  <2> QED
    BY <1>0, <2>1, RecentKept, Zenon
<1> HIDE DEF h
<1>2. c \in Worker /\ c.recent = h.recent
  BY <1>0, <1>1, ConfigureDecoderKeeps, RecentKept, Zenon
<1> HIDE DEF c
<1>3. sized \in Worker /\ sized.recent = v.recent
  <2>1. NeedKeyframe(c) \in Worker /\ NeedKeyframe(c).recent = c.recent
    BY <1>0, <1>2, NeedKeeps, RecentKept, Zenon
  <2> QED
    BY <1>0, <1>1, <1>2, <2>1
<1>4. Prepare(v, size) =
        IF sized.decoder = "null" \/ sized.config = NoSize
        THEN ConfigureDecoder(sized, size) ELSE sized
  BY Zenon DEF Prepare, c, h
<1> HIDE DEF sized
<1>5. ConfigureDecoder(sized, size).recent = sized.recent
  BY <1>0, <1>3, RecentKept, Zenon
<1> QED
  BY <1>3, <1>4, <1>5

(* A request is sent, or the last one is less than 500 ms old. *)
Asks(v, w) == w.asked \/ v.recent

LEMMA RequestAsks ==
  ASSUME NEW v \in Worker, NEW force, Open
  PROVE  Asks(v, RequestKeyframe(v, force))
<1>1. CASE force \/ ~v.recent
  <2>1. RequestKeyframe(v, force) = [v EXCEPT !.asked = TRUE, !.recent = TRUE]
    BY <1>1, Zenon DEF RequestKeyframe
  <2> QED
    BY <2>1, Zenon DEF Worker, Asks
<1>2. CASE ~(force \/ ~v.recent)
  BY <1>2, Zenon DEF Asks
<1> QED
  BY <1>1, <1>2

LEMMA ReplaceAsks ==
  ASSUME NEW v \in Worker, Open
  PROVE  Asks(v, ReplaceClosed(v))
<1> DEFINE c == CloseDecoder(v)
           d == ConfigureDecoder(c, v.size)
           n == NeedKeyframe(d)
<1>1. v.size \in Sizes \cup {NoSize}
  BY DEF Worker
<1>2. c \in Worker /\ c.recent = v.recent
  BY <1>1, CloseKeeps, RecentKept, Zenon
<1> HIDE DEF c
<1>3. d \in Worker /\ d.recent = c.recent
  BY <1>1, <1>2, ConfigureDecoderKeeps, RecentKept, Zenon
<1> HIDE DEF d
<1>4. n \in Worker /\ n.recent = d.recent
  BY <1>1, <1>3, NeedKeeps, RecentKept, Zenon
<1> HIDE DEF n
<1>5. ReplaceClosed(v) = RequestKeyframe(n, TRUE)
  BY Zenon DEF ReplaceClosed, n, d, c
<1>6. Asks(n, RequestKeyframe(n, TRUE))
  BY <1>4, RequestAsks
<1>7. n.recent = v.recent
  BY <1>2, <1>3, <1>4
<1> QED
  BY <1>5, <1>6, <1>7, Zenon DEF Asks

LEMMA BackpressureAsks ==
  ASSUME NEW v \in Worker, v.config \in Sizes, Open
  PROVE  Asks(v, ResetDecoderForBackpressure(v))
<1> DEFINE r == Reset(v)
           c == Configure(r, v.config)
           n == NeedKeyframe(c)
<1>1. r \in Worker /\ r.recent = v.recent
  BY ResetKeeps, RecentKept, Zenon
<1> HIDE DEF r
<1>2. c \in Worker /\ c.recent = r.recent
  <2>1. c \in Worker
    BY <1>1, ConfigureKeeps, Zenon
  <2>2. c.recent = r.recent
    BY <1>1, Zenon DEF Configure, Worker
  <2> QED
    BY <2>1, <2>2
<1> HIDE DEF c
<1>3. n \in Worker /\ n.recent = c.recent
  BY <1>2, NeedKeeps, RecentKept, Zenon
<1> HIDE DEF n
<1>4. ResetDecoderForBackpressure(v) = RequestKeyframe(n, FALSE)
  BY Zenon DEF ResetDecoderForBackpressure, n, c, r
<1>5. Asks(n, RequestKeyframe(n, FALSE))
  BY <1>3, RequestAsks
<1>6. n.recent = v.recent
  BY <1>1, <1>2, <1>3
<1> QED
  BY <1>4, <1>5, <1>6, Zenon DEF Asks

(* A packet that is decoded leaves the flags up, unless decode throws. *)
LEMMA DecodeAsks ==
  ASSUME NEW p \in Worker, NEW isKey \in BOOLEAN, isKey \/ Ready(p), Open
  PROVE  Ready(Decode(p, isKey)) \/ Asks(p, Decode(p, isKey))
<1> DEFINE w == IF isKey THEN [p EXCEPT !.seenKeyframe = TRUE, !.needsKeyframe = FALSE] ELSE p
           n == [w EXCEPT !.needsKeyframe = TRUE, !.intact = FALSE]
           d == [w EXCEPT !.keyRequired = FALSE, !.queue = @ + 1, !.intact = isKey \/ @]
<1>1. w \in Worker /\ w.recent = p.recent /\ Ready(w)
  <2>1. CASE isKey
    <3>1. w = [p EXCEPT !.seenKeyframe = TRUE, !.needsKeyframe = FALSE]
      BY <2>1
    <3> HIDE DEF w
    <3>2. w \in Worker
      BY <3>1, Zenon DEF Worker
    <3>3. w.recent = p.recent /\ w.seenKeyframe = TRUE /\ w.needsKeyframe = FALSE
      BY <3>1, Zenon DEF Worker
    <3> QED
      BY <3>2, <3>3 DEF Ready
  <2>2. CASE ~isKey
    BY <2>2
  <2> QED
    BY <2>1, <2>2
<1>2. Decode(p, isKey) = IF w.keyRequired /\ ~isKey THEN RequestKeyframe(n, FALSE) ELSE d
  BY Zenon DEF Decode
<1> HIDE DEF w
<1>3. Asks(n, RequestKeyframe(n, FALSE))
  <2>1. n \in Worker
    BY <1>1, Zenon DEF Worker
  <2> QED
    BY <2>1, RequestAsks
<1>4. n.recent = w.recent
  BY <1>1, Zenon DEF Worker
<1>5. Ready(d)
  <2>1. d.seenKeyframe = w.seenKeyframe /\ d.needsKeyframe = w.needsKeyframe
    BY <1>1, Zenon DEF Worker
  <2> QED
    BY <1>1, <2>1, Zenon DEF Ready
<1> HIDE DEF n, d
<1> QED
  BY <1>1, <1>2, <1>3, <1>4, <1>5, Zenon DEF Asks

LEMMA HandleVideoAsks ==
  ASSUME NEW v, State(v), NEW isKey \in BOOLEAN, NEW size \in Sizes, Open
  PROVE  Ready(HandleVideo(v, isKey, size)) \/ Asks(v, HandleVideo(v, isKey, size))
<1> DEFINE p == Prepare(v, size)
           lost == [p EXCEPT !.intact = FALSE]
           w == HandleVideo(v, isKey, size)
<1>1. p \in Worker /\ p.config \in Sizes /\ p.recent = v.recent
  BY PrepareKeeps, PrepareRecent, Zenon DEF State
<1>2. w =
        CASE p.decoder = "closed" -> ReplaceClosed(lost)
          [] p.decoder # "closed" /\ ~isKey /\ ~Ready(p) -> SkipDelta(lost)
          [] p.decoder # "closed" /\ (isKey \/ Ready(p)) /\ Overfull(p) ->
               ResetDecoderForBackpressure(lost)
          [] OTHER -> Decode(p, isKey)
  BY Zenon DEF HandleVideo
<1> HIDE DEF p, w
<1>3. lost \in Worker /\ lost.config = p.config /\ lost.recent = p.recent
  BY <1>1, Zenon DEF Worker
<1> HIDE DEF lost
<1>4. ASSUME Asks(lost, w) PROVE Asks(v, w)
  BY <1>1, <1>3, <1>4 DEF Asks
<1>5. CASE p.decoder = "closed"
  <2>1. w = ReplaceClosed(lost)
    BY <1>2, <1>5, Zenon
  <2>2. Asks(lost, w)
    BY <1>3, <2>1, ReplaceAsks
  <2> QED
    BY <1>4, <2>2 DEF w
<1>6. CASE p.decoder # "closed" /\ ~isKey /\ ~Ready(p)
  <2>1. w = RequestKeyframe(lost, FALSE)
    BY <1>2, <1>6, Zenon DEF SkipDelta
  <2>2. Asks(lost, w)
    BY <1>3, <2>1, RequestAsks
  <2> QED
    BY <1>4, <2>2 DEF w
<1>7. CASE p.decoder # "closed" /\ (isKey \/ Ready(p)) /\ Overfull(p)
  <2>1. w = ResetDecoderForBackpressure(lost)
    BY <1>2, <1>7, Zenon
  <2>2. Asks(lost, w)
    BY <1>1, <1>3, <2>1, BackpressureAsks
  <2> QED
    BY <1>4, <2>2 DEF w
<1>8. CASE p.decoder # "closed" /\ (isKey \/ Ready(p)) /\ ~Overfull(p)
  <2>1. w = Decode(p, isKey)
    BY <1>2, <1>8, Zenon
  <2>2. Ready(w) \/ Asks(p, w)
    BY <1>1, <1>8, <2>1, DecodeAsks
  <2> QED
    BY <1>1, <2>2 DEF w, Asks
<1> QED
  BY <1>5, <1>6, <1>7, <1>8

(* After a video packet the worker can decode deltas, or a request for a
   keyframe is on its way, or the last request is less than 500 ms old. *)
NeverSilent ==
  [][\A isKey \in BOOLEAN : \A size \in Sizes :
       DeliverVideo(isKey, size) => Ready(worker') \/ worker'.asked \/ worker.recent]_vars

(***************************************************************************)
(* NeverSilent: on none of its branches (a size change, a failed decoder,  *)
(* missing references, backpressure, a decode that throws) does the worker *)
(* drop a packet without seeing to a keyframe.  This is the step of the    *)
(* code that Recovers repeats until a keyframe comes.                      *)
(***************************************************************************)
THEOREM NeverSilentCorrect == Spec => NeverSilent
<1>1. ASSUME IInv, NEW isKey \in BOOLEAN, NEW size \in Sizes, DeliverVideo(isKey, size)
      PROVE  Ready(worker') \/ worker'.asked \/ worker.recent
  <2> DEFINE v == [worker EXCEPT !.asked = @ /\ ~isKey]
  <2>1. State(worker) /\ worker \in Worker
    BY <1>1 DEF IInv, State
  <2>2. v \in Worker /\ SameDecoding(worker, v) /\ v.recent = worker.recent
    <3>1. (worker.asked /\ ~isKey) \in BOOLEAN
      BY Zenon
    <3> QED
      BY <2>1, <3>1, Zenon DEF Worker, SameDecoding
  <2>3. worker' = HandleVideo(v, isKey, size)
    BY <1>1, Zenon DEF DeliverVideo
  <2> HIDE DEF v
  <2>4. State(v)
    BY <2>1, <2>2, SameKeeps, Zenon DEF State
  <2>5. Open
    BY <1>1, Sockets DEF DeliverVideo, Receiving, Open
  <2>6. Ready(worker') \/ Asks(v, worker')
    BY <2>3, <2>4, <2>5, HandleVideoAsks
  <2> QED
    BY <2>2, <2>6 DEF Asks
<1>2. IInv /\ [Next]_vars =>
        [\A isKey \in BOOLEAN : \A size \in Sizes :
           DeliverVideo(isKey, size) => Ready(worker') \/ worker'.asked \/ worker.recent]_vars
  BY <1>1
<1> QED
  BY Invariant, <1>2, PTL DEF Spec, NeverSilent
=============================================================================
