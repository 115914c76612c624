------------------------------ MODULE Vp8Encoder ------------------------------
(***************************************************************************)
(* The numbers of the encoder (crates/capture/src/encoder.rs) and of the   *)
(* conversion in front of it (convert.rs): its settings, and the extents   *)
(* of the buffers that the unsafe calls of libyuv and libvpx read and      *)
(* write.  A quality is in hundredths; the rounding errors of f32, which   *)
(* may take one of them off, are left out.                                 *)
(***************************************************************************)
EXTENDS Integers, Sequences

STRIDE_ALIGN == 64

-----------------------------------------------------------------------------
(* Settings *)

(* Width, height and kbit/s. *)
RESOLUTION_PRESETS == <<
  <<640, 480, 400>>, <<800, 600, 500>>, <<1024, 768, 800>>, <<1280, 720, 1000>>,
  <<1366, 768, 1100>>, <<1440, 900, 1300>>, <<1600, 900, 1500>>, <<1920, 1080, 2073>>,
  <<2048, 1080, 2200>>, <<2560, 1440, 3000>>, <<3440, 1440, 4000>>, <<3840, 2160, 5000>>,
  <<7680, 4320, 12000>> >>

Distance(m, n) == IF m >= n THEN m - n ELSE n - m

(* min_by_key: the first of the presets nearest in pixels. *)
NearestPreset(pixels) ==
  LET away(i) == Distance(RESOLUTION_PRESETS[i][1] * RESOLUTION_PRESETS[i][2], pixels)
  IN CHOOSE i \in 1..Len(RESOLUTION_PRESETS) :
       \A j \in 1..Len(RESOLUTION_PRESETS) :
         away(i) < away(j) \/ (away(i) = away(j) /\ i <= j)

(* round(kbps * pixels / presetPixels) *)
Scaled(kbps, pixels, presetPixels) ==
  kbps * (pixels \div presetPixels)
    + (kbps * (pixels % presetPixels) + presetPixels \div 2) \div presetPixels

BaseBitrate(width, height) ==
  LET pixels == width * height
      preset == RESOLUTION_PRESETS[NearestPreset(pixels)]
  IN Scaled(preset[3], pixels, preset[1] * preset[2])

UpTo(high, n) == IF n > high THEN high ELSE n
Quality200(quality) == IF quality < 0 THEN 0 ELSE UpTo(200, quality)

Bitrate(width, height, quality) ==
  (BaseBitrate(width, height) * Quality200(quality)) \div 100

(* Between the values for the lowest and the highest quality, rounded. *)
Between(low, high, quality) ==
  (low * (200 - Quality200(quality)) + high * Quality200(quality) + 100) \div 200

(* calc_q_values *)
MinQuantizer(quality) == Between(36, 0, quality)
MaxQuantizer(quality) == Between(56, 37, quality)

(* What Vp8Encoder::new sets of what its caller gave. *)
EncoderSettings(width, height, quality, keyframeInterval, cpuUsed) == [
  g_w |-> width, g_h |-> height,
  rc_target_bitrate |-> Bitrate(width, height, quality),
  rc_min_quantizer |-> MinQuantizer(quality),
  rc_max_quantizer |-> MaxQuantizer(quality),
  kf_max_dist |-> keyframeInterval,
  cpu_used |-> IF cpuUsed < 0 THEN 0 ELSE UpTo(16, cpuUsed)]

-----------------------------------------------------------------------------
(* Buffers *)

RoundUp(n, align) == ((n + align - 1) \div align) * align

(* vpx_img_wrap for I420: the chroma planes have half the stride and follow
   the luma plane; a released libvpx may or may not pad the height to even. *)
ImageLayouts(width, height) ==
  {[w |-> width, h |-> h, stride |-> RoundUp(width, STRIDE_ALIGN)] : h \in {height, RoundUp(height, 2)}}

(* get_yuvfmt *)
YuvFormat(image) ==
  LET u == image.h * image.stride IN [
    w |-> image.w, h |-> image.h, stride_y |-> image.stride, stride_uv |-> image.stride \div 2,
    u |-> u, v |-> u + (image.h \div 2) * (image.stride \div 2)]

(* The bytes per row that an IOSurface may have, and the length of the copy
   that surface_to_bgra makes of one. *)
FrameStrides(width) == {width * 4, RoundUp(width * 4, 64)}
BgraLength(stride, height) == stride * height

(* Mutant of YuvLength: one and a half bytes a pixel, without the stride. *)
YuvLengthTight(fmt) == (fmt.h * fmt.w * 12) \div 8

(* dst.resize *)
YuvLength(fmt) == fmt.h * fmt.stride_y * 2

(* convert_to_yuv answers Ok. *)
Convertible(width, height, stride, fmt) ==
  width <= fmt.w /\ height <= fmt.h /\ stride >= width * 4

(* Where a plane of so many rows, each of so many bytes, ends. *)
PlaneEnd(offset, stride, width, rows) == offset + (rows - 1) * stride + width

(* What ARGBToI420 writes, and vpx_codec_encode reads, of the destination. *)
YuvExtent(width, height, fmt) == {
  PlaneEnd(0, fmt.stride_y, width, height),
  PlaneEnd(fmt.u, fmt.stride_uv, (width + 1) \div 2, (height + 1) \div 2),
  PlaneEnd(fmt.v, fmt.stride_uv, (width + 1) \div 2, (height + 1) \div 2)}

(* encode_with_flags does not answer `len not enough'. *)
LongEnough(length, width, height) == length >= (width * height * 12) \div 8
=============================================================================
