---------------------------- MODULE ProducerPolicy ----------------------------
(***************************************************************************)
(* What a producer makes of its configuration (crates/producer/src/lib.rs):*)
(* ProducerPolicy::from_config with the defaults of the profiles, and      *)
(* target_resolution.  A quality is in hundredths.  An Option is a value   *)
(* or None.                                                                *)
(***************************************************************************)
EXTENDS Integers

CONSTANTS
  None,    \* Option::None
  U32Max   \* u32::MAX

ASSUME PolicyAssumption == None \notin Int /\ U32Max \in Nat \ {0}

U16Max == 65535

QualityProfile == {"LowLatency", "Balanced", "Quality"}
ResolutionPreset == {"Source", "P720", "P1080"}

Optional(S) == S \cup {None}

ProducerConfig == [
  token : Optional(STRING), fps : 0..U32Max, profile : QualityProfile,
  resolution : ResolutionPreset, width : Optional(0..U32Max), height : Optional(0..U32Max),
  quality : Optional(Int), keyframe_interval : Optional(0..U32Max),
  capture_queue_depth : Optional(Nat), stream_queue_length : Optional(-128..127),
  write_timeout_ms : Nat, stretch : BOOLEAN]

(* ProducerConfig::default, which `castkit share' changes only in these. *)
ShareConfig(token, fps, width, height) == [
  token |-> token, fps |-> fps, profile |-> "Balanced", resolution |-> "Source",
  width |-> width, height |-> height, quality |-> None, keyframe_interval |-> None,
  capture_queue_depth |-> None, stream_queue_length |-> None,
  write_timeout_ms |-> 250, stretch |-> FALSE]

UnwrapOr(option, default) == IF option = None THEN default ELSE option
AtLeast(low, n) == IF n < low THEN low ELSE n
AtMost(high, n) == IF n > high THEN high ELSE n
Clamp(n, low, high) == AtMost(high, AtLeast(low, n))

(* The defaults of a profile. *)
ProfileDefaults(profile, fps) ==
  CASE profile = "LowLatency" ->
         [quality |-> 75, keyframe_interval |-> AtLeast(1, fps),
          capture_queue_depth |-> 1, stream_queue_length |-> 2, cpu_used |-> 14]
    [] profile = "Balanced" ->
         [quality |-> 100, keyframe_interval |-> AtLeast(1, fps),
          capture_queue_depth |-> 2, stream_queue_length |-> 3, cpu_used |-> 12]
    [] profile = "Quality" ->
         [quality |-> 125, keyframe_interval |-> AtLeast(1, AtMost(U32Max, fps * 2)),
          capture_queue_depth |-> 3, stream_queue_length |-> 4, cpu_used |-> 8]

Quality(config) ==
  UnwrapOr(config.quality, ProfileDefaults(config.profile, config.fps).quality)

(* from_config answers Ok. *)
PolicyAccepted(config) ==
  /\ config.fps # 0
  /\ Quality(config) \in 10..200
  /\ config.write_timeout_ms # 0

(* Mutant of KeyframeInterval: 0 is let through. *)
KeyframeIntervalAsGiven(config) ==
  UnwrapOr(config.keyframe_interval, ProfileDefaults(config.profile, config.fps).keyframe_interval)

KeyframeInterval(config) ==
  AtLeast(1, UnwrapOr(config.keyframe_interval,
                      ProfileDefaults(config.profile, config.fps).keyframe_interval))

Policy(config) ==
  LET profile == ProfileDefaults(config.profile, config.fps) IN [
    fps |-> config.fps,
    quality |-> Quality(config),
    keyframe_interval |-> KeyframeInterval(config),
    capture_queue_depth |->
      Clamp(UnwrapOr(config.capture_queue_depth, profile.capture_queue_depth), 1, 8),
    stream_queue_length |->
      Clamp(UnwrapOr(config.stream_queue_length, profile.stream_queue_length), 1, 8),
    write_timeout_ms |-> config.write_timeout_ms,
    cpu_used |-> profile.cpu_used,
    preserve_aspect_ratio |-> ~config.stretch]

-----------------------------------------------------------------------------
Preset(resolution, display) ==
  CASE resolution = "Source" -> display
    [] resolution = "P720" -> [width |-> 1280, height |-> 720]
    [] resolution = "P1080" -> [width |-> 1920, height |-> 1080]

(* The size of the captured and encoded frames. *)
TargetResolution(config, display) ==
  LET preset == Preset(config.resolution, display) IN [
    width |-> AtLeast(1, UnwrapOr(config.width, preset.width)),
    height |-> AtLeast(1, UnwrapOr(config.height, preset.height))]

(* target_resolution answers Ok. *)
ResolutionAccepted(size) == size.width <= U16Max /\ size.height <= U16Max
=============================================================================
