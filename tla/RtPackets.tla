------------------------------- MODULE RtPackets ----------------------------
(***************************************************************************)
(* The packets of one realtime stream (driver/ak1-acx/src/rt.rs). The      *)
(* completion routine moves frames under the audio lock and, where a       *)
(* packet ends, stores the next packet's number, then the start of the one *)
(* that ended, then notifies Windows. Windows' audio engine asks for both  *)
(* numbers, and announces the packets it wrote, without any lock.          *)
(*                                                                         *)
(* RtStream puts the converter between these frames and the card's.        *)
(*                                                                         *)
(* Numbers are not reduced modulo 2^32: a stream is bounded far below.     *)
(* Times are the numbers of the packets whose start they are.              *)
(***************************************************************************)
EXTENDS Integers

CONSTANTS
  Count,         \* packets of the ring
  PacketFrames,  \* frames of a packet
  LastFrame,     \* bound: a stream moves no more frames than this
  NoTime, NoPacket

ASSUME RtPacketsAssumption ==
  /\ Count \in Nat \ {0} /\ PacketFrames \in Nat \ {0} /\ LastFrame \in Nat
  /\ NoTime \notin Nat /\ NoPacket \notin Nat

VARIABLES
  life,        \* the stream: created, with packets, prepared, running
  frames,      \* cursor.frames
  start,       \* cursor.packet_start_qpc
  current,     \* current_packet
  lastStart,   \* last_packet_start_qpc
  routine,     \* where the completion routine is
  client,      \* what the audio engine is asking
  packet,      \* the packet it asks about, or was told
  time,        \* the time it was told
  content,     \* which packet it last wrote into each place of the ring
  \* history
  told,        \* packets it was notified of
  accepted     \* the last packet announced in time

cursor == <<frames, start>>
request == <<client, packet, time>>
packets == <<life, frames, start, current, lastStart, routine, client, packet, time, content,
             told, accepted>>

Places == 0..(Count - 1)

InitPackets ==
  /\ life = "created"
  /\ frames = 0 /\ start = NoTime
  /\ current = 0 /\ lastStart = NoTime
  /\ routine = "away"
  /\ client = "idle" /\ packet = NoPacket /\ time = NoTime
  /\ content = [i \in Places |-> NoPacket]
  /\ told = 0 /\ accepted = NoPacket

-----------------------------------------------------------------------------
(* The stream's life, between requests                                     *)

AllocatePackets ==
  /\ life = "created"
  /\ life' = "allocated"
  /\ content' = [i \in Places |-> NoPacket]
  /\ UNCHANGED <<cursor, current, lastStart, routine, request, told, accepted>>

FreePackets ==
  /\ life = "allocated" /\ client = "idle"
  /\ life' = "created"
  /\ UNCHANGED <<cursor, current, lastStart, routine, request, content, told, accepted>>

(* Mutant: the numbers of the last run stay.                               *)
Prepare_KeepsCurrent ==
  /\ life = "allocated" /\ client = "idle"
  /\ life' = "prepared"
  /\ frames' = 0 /\ start' = NoTime
  /\ told' = 0 /\ accepted' = NoPacket
  /\ UNCHANGED <<current, lastStart, routine, request, content>>

(* prepare resets the stream, which is not running.                        *)
Prepare ==
  /\ life = "allocated" /\ client = "idle"
  /\ life' = "prepared"
  /\ frames' = 0 /\ start' = NoTime
  /\ current' = 0 /\ lastStart' = NoTime
  /\ told' = 0 /\ accepted' = NoPacket
  /\ UNCHANGED <<routine, request, content>>

Run ==
  /\ life = "prepared"
  /\ life' = "running"
  /\ UNCHANGED <<cursor, current, lastStart, routine, request, content, told, accepted>>

(* pause takes the audio lock: the routine is not in the stream.           *)
Pause ==
  /\ life = "running" /\ routine = "away"
  /\ life' = "prepared"
  /\ UNCHANGED <<cursor, current, lastStart, routine, request, content, told, accepted>>

Release ==
  /\ life = "prepared" /\ client = "idle"
  /\ life' = "allocated"
  /\ UNCHANGED <<cursor, current, lastStart, routine, request, content, told, accepted>>

-----------------------------------------------------------------------------
(* The completion routine                                                  *)

(* The packet the cursor is in.                                            *)
Playing == frames \div PacketFrames

(* Mutant: one frame ahead.                                                *)
frame_bytes_Ahead == ((frames + 1) \div PacketFrames) % Count

(* The place of the ring the next frame is in.                             *)
frame_bytes == Playing % Count

AtStart(f) == f % PacketFrames = 0

(* render_frame or capture_frame, up to advance.                           *)
Move ==
  /\ life = "running" /\ routine = "away"
  /\ frames < LastFrame
  /\ start' = IF AtStart(frames) THEN Playing ELSE start
  /\ frames' = frames + 1
  /\ routine' = IF AtStart(frames + 1) THEN "complete" ELSE "away"
  /\ UNCHANGED <<life, current, lastStart, request, content, told, accepted>>

(* Mutant: Windows is notified with the first store.                       *)
StoreCurrent_Notifies ==
  /\ routine = "complete"
  /\ current' = Playing
  /\ told' = Playing
  /\ routine' = "stored"
  /\ UNCHANGED <<life, cursor, lastStart, request, content, accepted>>

(* current_packet.store                                                    *)
StoreCurrent ==
  /\ routine = "complete"
  /\ current' = Playing
  /\ routine' = "stored"
  /\ UNCHANGED <<life, cursor, lastStart, request, content, told, accepted>>

(* last_packet_start_qpc.store                                             *)
StoreStart ==
  /\ routine = "stored"
  /\ lastStart' = start
  /\ routine' = "stamped"
  /\ UNCHANGED <<life, cursor, current, request, content, told, accepted>>

(* AcxRtStreamNotifyPacketComplete                                         *)
Notify ==
  /\ routine = "stamped"
  /\ told' = Playing
  /\ routine' = "away"
  /\ UNCHANGED <<life, cursor, current, lastStart, request, content, accepted>>

-----------------------------------------------------------------------------
(* The audio engine                                                        *)

Asks(c, p, t) == client' = c /\ packet' = p /\ time' = t

MayAsk == life \in {"prepared", "running"} /\ client = "idle"

(* GetCurrentPacket, before it writes the next packet; the packet itself   *)
(* takes it any time.                                                      *)
GetCurrent ==
  /\ MayAsk
  /\ Asks("writing", current + 1, NoTime)
  /\ UNCHANGED <<life, cursor, current, lastStart, routine, content, told, accepted>>

WritePacket ==
  /\ client = "writing"
  /\ content' = [content EXCEPT ![packet % Count] = packet]
  /\ Asks("written", packet, NoTime)
  /\ UNCHANGED <<life, cursor, current, lastStart, routine, told, accepted>>

(* Mutant: the packet that plays is not late.                              *)
SetRenderPacket_Playing ==
  /\ client = "written"
  /\ accepted' = IF packet < current \/ packet > current + 1 THEN accepted ELSE packet
  /\ Asks("idle", NoPacket, NoTime)
  /\ UNCHANGED <<life, cursor, current, lastStart, routine, content, told>>

(* It is late if it plays or has played, too early after the next one.     *)
SetRenderPacket ==
  /\ client = "written"
  /\ accepted' = IF packet <= current \/ packet > current + 1 THEN accepted ELSE packet
  /\ Asks("idle", NoPacket, NoTime)
  /\ UNCHANGED <<life, cursor, current, lastStart, routine, content, told>>

(* GetCapturePacket: the last complete packet (the code's -1 before the    *)
(* first), then its start.                                                 *)
GetCapturePacket ==
  /\ MayAsk
  /\ Asks("reading", current - 1, NoTime)
  /\ UNCHANGED <<life, cursor, current, lastStart, routine, content, told, accepted>>

(* Mutant: the start of the packet under way.                              *)
GetCaptureStart_Running ==
  /\ client = "reading"
  /\ Asks("read", packet, start)
  /\ UNCHANGED <<life, cursor, current, lastStart, routine, content, told, accepted>>

GetCaptureStart ==
  /\ client = "reading"
  /\ Asks("read", packet, lastStart)
  /\ UNCHANGED <<life, cursor, current, lastStart, routine, content, told, accepted>>

ReadPacket ==
  /\ client = "read"
  /\ Asks("idle", NoPacket, NoTime)
  /\ UNCHANGED <<life, cursor, current, lastStart, routine, content, told, accepted>>

(* What Windows does without the stream's frames or converter.             *)
Request ==
  \/ AllocatePackets \/ FreePackets \/ Run \/ Release
  \/ GetCurrent \/ WritePacket \/ SetRenderPacket
  \/ GetCapturePacket \/ GetCaptureStart \/ ReadPacket

(* The rest of advance, after a packet's last frame.                       *)
Advance == StoreCurrent \/ StoreStart \/ Notify

-----------------------------------------------------------------------------
(* Properties                                                              *)

(* A packet accepted in time is played as written: while the cursor is in  *)
(* it, its place holds it, whatever the engine writes meanwhile. (With one *)
(* packet in the ring the engine writes into the one that plays.)          *)
AcceptedIsHeard ==
  Count > 1 /\ life = "running" /\ accepted = Playing
    => content[frame_bytes] = accepted

(* A packet is accepted before any frame of it is played, except that the  *)
(* routine may not have stored the number of a packet it has reached.      *)
AcceptedBeforePlayed ==
  [][accepted' # accepted /\ accepted' # NoPacket
       => frames <= accepted' * PacketFrames]_packets

(* Every frame of the packet GetCapturePacket reports is captured.         *)
CapturedIsComplete ==
  client \in {"reading", "read"} => (packet + 1) * PacketFrames <= frames

(* Two loads and two stores (rt.rs:196-197, 378-379) may interleave: if the *)
(* engine asks within a packet's time, it is told the start of the packet  *)
(* it is told or of a neighbour. Before packet 0 there is none, so packet  *)
(* 0 may be reported with the time of reset, which is none.                *)
StartIsNear ==
  client = "read" /\ current <= packet + 2 =>
    IF time = NoTime THEN packet <= 0 ELSE time \in (packet - 1)..(packet + 1)

(* What GetCapturePacket answers fits together, although it takes no lock. *)
CaptureIsAnswered == CapturedIsComplete /\ StartIsNear

(* The engine may ask as soon as it is notified, on another processor: it  *)
(* is told the packet it was notified of, with its own start, until the    *)
(* next packet is complete; then that one or a later one, never an earlier *)
(* number or start. So the notification comes after both stores.           *)
NotifiedIsAnswered ==
  told > 0 => /\ current >= told
              /\ lastStart # NoTime /\ lastStart \in (told - 1)..(current - 1)
=============================================================================
