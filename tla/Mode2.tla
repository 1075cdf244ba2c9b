-------------------------------- MODULE Mode2 -------------------------------
(***************************************************************************)
(* The layout of isochronous packets (ak1-proto/src/mode2.rs) and the      *)
(* frames that stand for lost ones (Codec in stream.rs). A packet is a     *)
(* sequence of bytes, whole frames only; a frame has one sample per        *)
(* channel, stream-major, left before right. Blocks are counted from 0.    *)
(***************************************************************************)
EXTENDS Integers, Sequences, FiniteSets

Bytes == 0..255

(* Signed, of 24 bits: the highest byte has the sign.                      *)
Samples == {x \in Int : x \div (256 * 256) \in -128..127}

Streams == 0..1
Channels == 0..3
Frames == [Channels -> Samples]

(* The highest byte first.                                                 *)
to_be24(x) == <<(x \div (256 * 256)) % 256, (x \div 256) % 256, x % 256>>

Signed(b) == IF b >= 128 THEN b - 256 ELSE b

from_be24(b) == 256 * (256 * Signed(b[1]) + b[2]) + b[3]

check_byte(stream, block) == 2 * stream + (IF block % 2 = 0 THEN 1 ELSE 0)

-----------------------------------------------------------------------------
(* Capture: of a frame's two blocks, the first is the right channel.       *)

(* The k-th of a stream's four bytes in a block, its check byte first.     *)
CaptureByte(packet, block, stream, k) == packet[8 * block + 2 * k + stream + 1]

CaptureSample(packet, block, stream) ==
  from_be24(<<CaptureByte(packet, block, stream, 1), CaptureByte(packet, block, stream, 2),
              CaptureByte(packet, block, stream, 3)>>)

(* Bytes after the last whole frame are ignored.                           *)
decode_capture(packet) ==
  LET frames == Len(packet) \div 16
      checks == (0..(2 * frames - 1)) \X Streams
      check(c) == CaptureByte(packet, c[1], c[2], 0)
  IN  [frames |-> [i \in 1..frames |->
                     [c \in Channels |-> CaptureSample(packet, 2 * i - 1 - (c % 2), c \div 2)]],
       check_errors |-> Cardinality({c \in checks : check(c) % 64 # check_byte(c[2], c[1])}),
       output_rejected |-> \E c \in checks : check(c) >= 128]

-----------------------------------------------------------------------------
(* Playback: the left channel first; a sample begins in a block and ends   *)
(* in the next one, which may be in the next packet.                       *)

NoTail == [stream \in Streams |-> <<0, 0>>]

(* The bytes of the sample that a block begins.                            *)
Begun(frames, block, stream) == to_be24(frames[block \div 2 + 1][2 * stream + (block % 2)])

(* Those that it ends, of the sample begun in the block before.            *)
Ended(tail, frames, block, stream) ==
  IF block = 0 THEN tail[stream]
  ELSE <<Begun(frames, block - 1, stream)[2], Begun(frames, block - 1, stream)[3]>>

PlaybackByte(tail, frames, block, stream, k) ==
  CASE k = 0 -> Ended(tail, frames, block, stream)[1]
    [] k = 1 -> Ended(tail, frames, block, stream)[2]
    [] k = 2 -> check_byte(stream, block)
    [] k = 3 -> Begun(frames, block, stream)[1]

encode(tail, frames) ==
  [packet |-> [n \in 1..(16 * Len(frames)) |->
                 PlaybackByte(tail, frames, (n - 1) \div 8, (n - 1) % 2, ((n - 1) % 8) \div 2)],
   tail |-> [stream \in Streams |-> Ended(tail, frames, 2 * Len(frames), stream)]]

-----------------------------------------------------------------------------
(* Frames that the card took in a microframe whose packet was lost; the    *)
(* remainder is in frames times 8000.                                      *)

MICROFRAMES_PER_SECOND == 8000
MAX_FRAMES_PER_PACKET == 512 \div 16

nominal_frames(remainder, rate_hz) ==
  [frames |-> (remainder + rate_hz) \div MICROFRAMES_PER_SECOND,
   remainder |-> (remainder + rate_hz) % MICROFRAMES_PER_SECOND]

-----------------------------------------------------------------------------
(* The card                                                                *)

(* A packet as it sends one, in the layout of mode2.rs:7-8; it rejects     *)
(* playback in every check byte, or in none.                               *)
SentSample(frames, block, stream) ==
  frames[block \div 2 + 1][2 * stream + 1 - (block % 2)]

SentByte(frames, rejects, block, stream, k) ==
  IF k = 0 THEN check_byte(stream, block) + (IF rejects THEN 128 ELSE 0)
  ELSE to_be24(SentSample(frames, block, stream))[k]

Captured(frames, rejects) ==
  [n \in 1..(16 * Len(frames)) |->
     SentByte(frames, rejects, (n - 1) \div 8, (n - 1) % 2, ((n - 1) % 8) \div 2)]

(* The sample it hears begin in a block of packets in a row.               *)
Heard(bytes, block, stream) ==
  from_be24(<<bytes[8 * block + 6 + stream + 1], bytes[8 * block + 8 + stream + 1],
              bytes[8 * block + 10 + stream + 1]>>)
=============================================================================
