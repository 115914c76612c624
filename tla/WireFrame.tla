------------------------------ MODULE WireFrame ------------------------------
(***************************************************************************)
(* The wire protocol (crates/shared/src/lib.rs): a nine-byte header, big   *)
(* endian, and the payload.  A byte is a number, a message a sequence of   *)
(* bytes.  U16 and U32 take a number's low bytes, so they are at once the  *)
(* casts `as u16' and `as u32' of the producer and to_be_bytes.            *)
(***************************************************************************)
EXTENDS Integers, Sequences

FRAME_KEYFRAME == 1
FRAME_DELTA == 2

HEADER_SIZE == 9

FrameHeader == [frame_type : Nat, timestamp_ms : Nat, width : Nat, height : Nat]

U16(n) == <<(n \div 256) % 256, n % 256>>
U32(n) == <<(n \div 16777216) % 256, (n \div 65536) % 256, (n \div 256) % 256, n % 256>>

(* from_be_bytes of the bytes from the i-th on. *)
FromU16(b, i) == b[i] * 256 + b[i + 1]
FromU32(b, i) == b[i] * 16777216 + b[i + 1] * 65536 + b[i + 2] * 256 + b[i + 3]

EncodeFrame(header, payload) ==
  <<header.frame_type>> \o U32(header.timestamp_ms) \o U16(header.width)
    \o U16(header.height) \o payload

(* decode_frame answers None. *)
Malformed(data) == Len(data) < HEADER_SIZE

(* decode_frame answers this header and this payload. *)
DecodedHeader(data) == [
  frame_type |-> data[1],
  timestamp_ms |-> FromU32(data, 2),
  width |-> FromU16(data, 6),
  height |-> FromU16(data, 8)]
DecodedPayload(data) == SubSeq(data, HEADER_SIZE + 1, Len(data))
=============================================================================
