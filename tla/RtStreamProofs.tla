---------------------------- MODULE RtStreamProofs --------------------------
(***************************************************************************)
(* Proofs about one stream of Windows, in three parts.                     *)
(*                                                                         *)
(* The packets (RtPackets), for rings and packets of any length: what the  *)
(* audio engine was told grows stale only in ways its next request checks. *)
(*                                                                         *)
(* The converter (Resampler), for every kernel, history and ratio that     *)
(* reset's debug_assert allows, and for input of any length.               *)
(*                                                                         *)
(* The stream (RtStream), at whatever rates the card runs: it takes steps  *)
(* of the packets' and the converter's only, so theirs hold of it, and it  *)
(* forgets its frames when it is prepared again.                           *)
(***************************************************************************)
EXTENDS RtStream, TLAPS

-----------------------------------------------------------------------------
(* Arithmetic                                                              *)

(* What \div and % are.                                                    *)
LEMMA Division ==
  ASSUME NEW a \in Nat, NEW b \in Nat \ {0}
  PROVE  /\ a \div b \in Nat /\ a % b \in Nat
         /\ a % b < b
         /\ (a \div b) * b + (a % b) = a
  BY SMTT(20)

(* A product over a sum.                                                   *)
LEMMA Distributes ==
  ASSUME NEW x \in Int, NEW y \in Int, NEW z \in Int
  PROVE  (x + y) * z = x * z + y * z
  BY SMTT(20)

(* A product grows with its factor.                                        *)
LEMMA Grows ==
  ASSUME NEW x \in Int, NEW y \in Int, NEW z \in Nat, x <= y
  PROVE  x * z <= y * z
  BY SMTT(20)

(* A quotient grows with its dividend.                                     *)
LEMMA QuotientGrows ==
  ASSUME NEW a \in Nat, NEW c \in Nat, NEW b \in Nat \ {0}, a <= c
  PROVE  a \div b <= c \div b
<1> DEFINE q == a \div b
           d == c \div b
<1>1. /\ q \in Nat /\ d \in Nat
      /\ q * b <= a /\ c < d * b + b
  BY Division, SMTT(20)
<1> HIDE DEF q, d
<1>2. SUFFICES ASSUME d + 1 <= q PROVE FALSE
  BY <1>1 DEF q, d
<1>3. (d + 1) * b <= q * b
  BY <1>1, <1>2, Grows
<1>4. (d + 1) * b = d * b + b
  BY <1>1, Distributes
<1> QED BY <1>1, <1>3, <1>4, SMTT(20)

(* Division rounded up.                                                    *)
LEMMA CeilDivBounds ==
  ASSUME NEW a \in Nat, NEW b \in Nat \ {0}
  PROVE  CeilDiv(a, b) \in Nat /\ a <= CeilDiv(a, b) * b
<1>1. a + b - 1 \in Nat
  OBVIOUS
<1>2. /\ (a + b - 1) \div b \in Nat
      /\ (a + b - 1) % b < b /\ (a + b - 1) % b \in Nat
      /\ ((a + b - 1) \div b) * b + ((a + b - 1) % b) = a + b - 1
  BY <1>1, Division
<1> DEFINE p == ((a + b - 1) \div b) * b
           m == (a + b - 1) % b
<1>3. p \in Nat
  BY <1>2
<1> HIDE DEF p, m
<1>4. a <= p
  BY <1>2, <1>3 DEF p, m
<1> QED BY <1>2, <1>4 DEF CeilDiv, p

-----------------------------------------------------------------------------
(* The packets (RtPackets)                                                 *)

(* A quotient is found by its bounds.                                      *)
LEMMA Quotient ==
  ASSUME NEW a \in Nat, NEW b \in Nat \ {0}, NEW q \in Nat,
         q * b <= a, a < (q + 1) * b
  PROVE  a \div b = q
<1> DEFINE d == a \div b
<1>1. /\ d \in Nat /\ d * b <= a /\ a < d * b + b /\ d * b \in Nat
  BY Division, SMTT(20)
<1> HIDE DEF d
<1>2. (d + 1) * b = d * b + b
  <2>1. (d + 1) * b = d * b + 1 * b
    BY <1>1, Distributes
  <2> QED BY <2>1
<1>3. q * b \in Nat /\ (q + 1) * b \in Nat /\ (d + 1) * b \in Nat
  BY <1>1
<1>4. ~(d < q)
  <2>1. SUFFICES ASSUME d + 1 <= q PROVE FALSE
    BY <1>1
  <2>2. (d + 1) * b <= q * b
    BY <1>1, <2>1, Grows
  <2> QED BY <1>1, <1>2, <1>3, <2>2
<1>5. ~(q < d)
  <2>1. SUFFICES ASSUME q + 1 <= d PROVE FALSE
    BY <1>1
  <2>2. (q + 1) * b <= d * b
    BY <1>1, <2>1, Grows
  <2> QED BY <1>1, <1>3, <2>2
<1> QED BY <1>1, <1>4, <1>5 DEF d

(* The packet a frame is in, and the next frame.                           *)
LEMMA OneFrameOn ==
  ASSUME NEW f \in Nat
  PROVE  /\ f \div PacketFrames \in Nat
         /\ (f \div PacketFrames) * PacketFrames <= f
         /\ f < (f \div PacketFrames + 1) * PacketFrames
         /\ AtStart(f) => f = (f \div PacketFrames) * PacketFrames
         /\ (f + 1) \div PacketFrames
              = IF AtStart(f + 1) THEN f \div PacketFrames + 1 ELSE f \div PacketFrames
<1> DEFINE P == PacketFrames
           q == f \div P
           r == f % P
           d == (f + 1) \div P
           m == (f + 1) % P
<1>1. /\ P \in Nat \ {0} /\ f + 1 \in Nat
  BY RtPacketsAssumption
<1>2. /\ q \in Nat /\ r \in Nat /\ r < P /\ q * P + r = f
      /\ d \in Nat /\ m \in Nat /\ m < P /\ d * P + m = f + 1
  <2> HIDE DEF P
  <2> QED BY <1>1, Division
<1> HIDE DEF q, r, d, m
<1>3. q * P \in Nat /\ d * P \in Nat
  BY <1>1, <1>2
<1> HIDE DEF P
<1>4. (q + 1) * P = q * P + P
  <2>1. (q + 1) * P = q * P + 1 * P
    BY <1>1, <1>2, Distributes
  <2> QED BY <1>1, <2>1
<1>5. q * P <= f /\ f < (q + 1) * P
  BY <1>1, <1>2, <1>3, <1>4
<1>6. r = 0 => f = q * P
  BY <1>2, <1>3
<1>7. CASE m = 0
  <2>1. d > q
    <3>1. SUFFICES ASSUME d <= q PROVE FALSE
      BY <1>2
    <3>2. d * P <= q * P
      BY <1>1, <1>2, <3>1, Grows
    <3> QED BY <1>2, <1>3, <1>7, <3>2
  <2>2. d <= q + 1
    <3>1. SUFFICES ASSUME q + 2 <= d PROVE FALSE
      BY <1>2
    <3>2. (q + 2) * P <= d * P
      BY <1>1, <1>2, <3>1, Grows
    <3>3. (q + 2) * P = q * P + 2 * P
      BY <1>1, <1>2, Distributes
    <3> QED BY <1>1, <1>2, <1>3, <1>7, <3>2, <3>3
  <2>3. d = q + 1
    BY <1>2, <2>1, <2>2
  <2> QED BY <1>2, <1>5, <1>6, <1>7, <2>3 DEF AtStart, q, r, d, m, P
<1>8. CASE m # 0
  <2>1. d * P <= f
    BY <1>2, <1>3, <1>8
  <2>2. (d + 1) * P = d * P + 1 * P
    BY <1>1, <1>2, Distributes
  <2>3. f < (d + 1) * P
    BY <1>1, <1>2, <1>3, <2>2
  <2>4. q = d
    BY <1>1, <1>2, <2>1, <2>3, Quotient DEF q
  <2> QED BY <1>2, <1>5, <1>6, <1>8, <2>4 DEF AtStart, q, r, d, m, P
<1> QED BY <1>7, <1>8

(* Neighbours have different places in a ring of two or more.              *)
LEMMA NeighboursApart ==
  ASSUME NEW n \in Nat, Count > 1
  PROVE  n % Count \in Places /\ (n + 1) % Count \in Places /\ n % Count # (n + 1) % Count
<1> DEFINE q == n \div Count
           r == n % Count
           d == (n + 1) \div Count
           m == (n + 1) % Count
<1>1. Count \in Nat \ {0} /\ n + 1 \in Nat
  BY RtPacketsAssumption
<1>2. /\ q \in Nat /\ r \in Nat /\ r < Count /\ q * Count + r = n
      /\ d \in Nat /\ m \in Nat /\ m < Count /\ d * Count + m = n + 1
  BY <1>1, Division
<1> HIDE DEF q, r, d, m
<1>3. q * Count \in Nat /\ d * Count \in Nat
  BY <1>1, <1>2
<1>4. ASSUME r = m PROVE FALSE
  <2>1. d * Count = q * Count + 1
    BY <1>2, <1>3, <1>4
  <2>2. CASE d <= q
    <3>1. d * Count <= q * Count
      BY <1>1, <1>2, <2>2, Grows
    <3> QED BY <1>3, <2>1, <3>1
  <2>3. CASE q + 1 <= d
    <3>1. (q + 1) * Count <= d * Count
      BY <1>1, <1>2, <2>3, Grows
    <3>2. (q + 1) * Count = q * Count + 1 * Count
      BY <1>1, <1>2, Distributes
    <3> QED BY <1>1, <1>3, <2>1, <3>1, <3>2
  <2> QED BY <1>2, <2>2, <2>3
<1> QED BY <1>1, <1>2, <1>4 DEF Places, r, m

-----------------------------------------------------------------------------

(* What a stream does to its packets, whatever it converts.                *)
PacketNext == Request \/ Prepare \/ Pause \/ Move \/ Advance

PacketTypes ==
  /\ frames \in Nat /\ current \in Nat
  /\ routine \in {"away", "complete", "stored", "stamped"}
  /\ DOMAIN content = Places
  /\ accepted # NoPacket => accepted \in Nat

(* Where the routine is between two packets.                               *)
Numbered ==
  /\ current = IF routine = "complete" THEN Playing - 1 ELSE Playing
  /\ routine # "away" => life = "running" /\ frames > 0 /\ AtStart(frames)

(* Windows was notified of every packet but the one between two stores.    *)
Notified == told = IF routine = "away" THEN Playing ELSE Playing - 1

(* The starts are those of the packets: of the last frame's, and of the    *)
(* last one complete, but between the two stores.                          *)
Stamped ==
  /\ frames > 0 => start = (frames - 1) \div PacketFrames
  /\ LET last == IF routine = "stored" THEN current - 2 ELSE current - 1
     IN  lastStart = IF last < 0 THEN NoTime ELSE last

(* What the engine was told stays true while it acts on it.                *)
EngineKnows ==
  /\ client # "idle" => life \in {"prepared", "running"}
  /\ client \in {"writing", "written"} =>
       /\ packet \in Nat /\ packet <= current + 1
       /\ accepted # NoPacket => accepted <= packet
  /\ client = "written" => content[packet % Count] = packet
  /\ client \in {"reading", "read"} => packet + 1 \in Nat /\ packet \in Int /\ packet + 1 <= current
  /\ client = "read" /\ time # NoTime =>
       time \in Nat /\ packet - 1 <= time /\ time <= current - 1
  /\ client = "read" /\ time = NoTime => packet <= 0

(* An accepted packet is in its place until it has been played.            *)
AcceptedIsKept ==
  accepted # NoPacket =>
    /\ accepted <= current + 1
    /\ Count > 1 /\ life \in {"prepared", "running"} /\ accepted >= current
         => content[accepted % Count] = accepted

PacketInv ==
  PacketTypes /\ Numbered /\ Notified /\ Stamped /\ EngineKnows /\ AcceptedIsKept

LEMMA PacketFacts ==
  ASSUME PacketInv
  PROVE  /\ frames \in Nat /\ current \in Nat /\ Playing \in Nat /\ current <= Playing
         /\ PacketFrames \in Nat \ {0} /\ Count \in Nat \ {0} /\ NoTime \notin Nat
         /\ NoPacket \notin Nat
  BY RtPacketsAssumption, OneFrameOn
  DEF PacketInv, PacketTypes, Numbered, Playing

LEMMA PacketInit == InitPackets => PacketInv
<1> SUFFICES ASSUME InitPackets PROVE PacketInv
  OBVIOUS
<1>1. Playing = 0
  <2>1. 0 * PacketFrames <= 0 /\ 0 < (0 + 1) * PacketFrames
    BY RtPacketsAssumption
  <2> QED BY <2>1, Quotient, RtPacketsAssumption DEF Playing, InitPackets
<1> QED BY <1>1, RtPacketsAssumption
        DEF InitPackets, PacketInv, PacketTypes, Numbered, Notified, Stamped, EngineKnows, AcceptedIsKept

(* The stream's life: nothing moves, and prepare begins again.             *)
LEMMA LifeSteps ==
  ASSUME PacketInv,
         AllocatePackets \/ FreePackets \/ Prepare \/ Run \/ Pause \/ Release
  PROVE  PacketInv'
<1>1. CASE Prepare
  <2>1. Playing' = 0
    <3>1. 0 * PacketFrames <= 0 /\ 0 < (0 + 1) * PacketFrames
      BY RtPacketsAssumption
    <3> QED BY <1>1, <3>1, Quotient, RtPacketsAssumption DEF Playing, Prepare
  <2> QED BY <1>1, <2>1
          DEF Prepare, request, PacketInv, PacketTypes, Numbered, Notified, Stamped, EngineKnows,
              AcceptedIsKept
<1>2. CASE AllocatePackets \/ FreePackets \/ Run \/ Pause \/ Release
  <2>1. /\ UNCHANGED <<cursor, current, lastStart, routine, request, told, accepted>>
        /\ Playing' = Playing /\ (AtStart(frames)' <=> AtStart(frames))
        /\ client # "idle" => life' \in {"prepared", "running"} /\ content' = content
        /\ routine # "away" => life' = "running"
    BY <1>2 DEF PacketInv, Numbered, EngineKnows, AllocatePackets, FreePackets, Run, Pause, Release,
                cursor, request, Playing, AtStart
  <2>2. PacketTypes' /\ Numbered' /\ Notified' /\ Stamped' /\ EngineKnows'
    BY <1>2, <2>1 DEF PacketInv, PacketTypes, Numbered, Notified, Stamped, EngineKnows, cursor, request,
                      AllocatePackets, FreePackets, Run, Pause, Release
  <2>3. life' \in {"prepared", "running"} => life \in {"prepared", "running"} /\ content' = content
    BY <1>2 DEF AllocatePackets, FreePackets, Run, Pause, Release
  <2>4. AcceptedIsKept'
    BY <2>1, <2>3 DEF PacketInv, AcceptedIsKept
  <2> QED BY <2>2, <2>4 DEF PacketInv
<1> QED BY <1>1, <1>2

(* A frame moves.                                                          *)
LEMMA MoveStep ==
  ASSUME PacketInv, Move
  PROVE  PacketInv'
<1>1. /\ life = "running" /\ routine = "away" /\ frames' = frames + 1
      /\ start' = IF AtStart(frames) THEN Playing ELSE start
      /\ routine' = IF AtStart(frames + 1) THEN "complete" ELSE "away"
      /\ UNCHANGED <<life, current, lastStart, client, packet, time, content, told, accepted>>
  BY DEF Move, request
<1>2. frames \in Nat /\ current = Playing
  BY <1>1 DEF PacketInv, PacketTypes, Numbered
<1>3. Playing' = IF AtStart(frames + 1) THEN Playing + 1 ELSE Playing
  BY <1>1, <1>2, OneFrameOn DEF Playing
<1>4. start' = (frames' - 1) \div PacketFrames
  <2>1. frames' - 1 = frames
    BY <1>1, <1>2
  <2>2. CASE AtStart(frames)
    BY <1>1, <2>1, <2>2 DEF Playing
  <2>3. CASE ~AtStart(frames)
    <3>1. frames # 0
      <4>1. 0 % PacketFrames = 0
        BY RtPacketsAssumption, Division
      <4> QED BY <2>3, <4>1 DEF AtStart
    <3>2. frames - 1 \in Nat /\ (frames - 1) + 1 = frames
      BY <1>2, <3>1
    <3>3. frames \div PacketFrames = (frames - 1) \div PacketFrames
      BY <2>3, <3>2, OneFrameOn
    <3>4. start = (frames - 1) \div PacketFrames
      BY <1>2, <3>1 DEF PacketInv, Stamped
    <3> QED BY <1>1, <2>1, <2>3, <3>3, <3>4
  <2> QED BY <2>2, <2>3
<1>5. Numbered'
  <2>1. AtStart(frames)' <=> AtStart(frames + 1)
    BY <1>1 DEF AtStart
  <2>2. Playing \in Nat
    BY PacketFacts
  <2> QED BY <1>1, <1>2, <1>3, <2>1, <2>2 DEF Numbered
<1>6. Stamped'
  BY <1>1, <1>4 DEF Stamped, PacketInv
<1>7. Notified'
  BY <1>1, <1>2, <1>3, PacketFacts DEF Notified, PacketInv
<1> QED BY <1>1, <1>2, <1>5, <1>6, <1>7 DEF PacketInv, PacketTypes, EngineKnows, AcceptedIsKept

(* The routine stores a packet's number, then its start.                   *)
LEMMA AdvanceStep ==
  ASSUME PacketInv, Advance
  PROVE  PacketInv'
<1>1. /\ UNCHANGED <<life, frames, start, client, packet, time, content, accepted>>
      /\ Playing' = Playing /\ (AtStart(frames)' <=> AtStart(frames))
  BY DEF Advance, StoreCurrent, StoreStart, Notify, cursor, request, Playing, AtStart
<1>2. life = "running" /\ frames > 0 /\ AtStart(frames) /\ frames \in Nat /\ Playing \in Nat
      /\ start = Playing - 1 /\ start \in Nat
  <2>1. routine # "away"
    BY DEF Advance, StoreCurrent, StoreStart, Notify
  <2>2. frames > 0 /\ AtStart(frames) /\ frames \in Nat /\ life = "running"
    BY <2>1 DEF PacketInv, Numbered, PacketTypes
  <2>3. frames - 1 \in Nat /\ (frames - 1) + 1 = frames
    BY <2>2
  <2>4. Playing = (frames - 1) \div PacketFrames + 1 /\ (frames - 1) \div PacketFrames \in Nat
    BY <2>2, <2>3, OneFrameOn DEF Playing
  <2>5. start = (frames - 1) \div PacketFrames
    BY <2>2 DEF PacketInv, Stamped
  <2> QED BY <2>2, <2>4, <2>5
<1>3. Notified'
  BY <1>1, <1>2 DEF Advance, StoreCurrent, StoreStart, Notify, PacketInv, Notified
<1>4. CASE StoreCurrent
  <2>1. /\ current' = current + 1 /\ current' = Playing /\ routine' = "stored"
        /\ routine = "complete" /\ lastStart' = lastStart /\ current \in Nat
    BY <1>2, <1>4 DEF StoreCurrent, PacketInv, Numbered, PacketTypes
  <2>2. PacketTypes' /\ Numbered'
    BY <1>1, <1>2, <2>1 DEF PacketInv, PacketTypes, Numbered
  <2>3. Stamped'
    <3>1. current' - 2 = current - 1
      BY <2>1
    <3> QED BY <1>1, <2>1, <3>1 DEF PacketInv, Stamped
  <2>4. EngineKnows'
    BY <1>1, <2>1 DEF PacketInv, EngineKnows
  <2>5. AcceptedIsKept'
    BY <1>1, <2>1 DEF PacketInv, PacketTypes, AcceptedIsKept
  <2> QED BY <1>3, <2>2, <2>3, <2>4, <2>5 DEF PacketInv
<1>5. CASE StoreStart \/ Notify
  <2>1. /\ current' = current /\ current = Playing /\ routine' \in {"stamped", "away"}
        /\ lastStart' = IF StoreStart THEN start ELSE lastStart
        /\ ~StoreStart => routine = "stamped"
    BY <1>5 DEF StoreStart, Notify, PacketInv, Numbered
  <2>2. Stamped'
    <3>1. start \in Nat /\ start = current - 1 /\ ~(current - 1 < 0)
      BY <1>2, <2>1
    <3>2. CASE StoreStart
      BY <1>1, <2>1, <3>1, <3>2 DEF PacketInv, Stamped
    <3>3. CASE ~StoreStart
      BY <1>1, <2>1, <3>1, <3>3 DEF PacketInv, Stamped
    <3> QED BY <3>2, <3>3
  <2> QED BY <1>1, <1>2, <1>3, <2>1, <2>2 DEF PacketInv, PacketTypes, Numbered, EngineKnows, AcceptedIsKept
<1> QED BY <1>4, <1>5 DEF Advance

(* The engine asks, writes and announces.                                  *)
LEMMA EngineStep ==
  ASSUME PacketInv,
         \/ GetCurrent \/ WritePacket \/ SetRenderPacket
         \/ GetCapturePacket \/ GetCaptureStart \/ ReadPacket
  PROVE  PacketInv'
<1>1. /\ UNCHANGED <<life, frames, start, current, lastStart, routine, told>>
      /\ Playing' = Playing /\ (AtStart(frames)' <=> AtStart(frames))
      /\ current \in Nat /\ frames \in Nat
  BY PacketFacts DEF GetCurrent, WritePacket, SetRenderPacket, GetCapturePacket, GetCaptureStart,
     ReadPacket, cursor, Playing, AtStart
<1>2. Numbered' /\ Notified' /\ Stamped'
  BY <1>1 DEF PacketInv, Numbered, Notified, Stamped
<1>3. CASE GetCurrent
  <2>1. /\ life \in {"prepared", "running"} /\ client' = "writing" /\ packet' = current + 1
        /\ content' = content /\ accepted' = accepted
    BY <1>3 DEF GetCurrent, MayAsk, Asks
  <2> QED BY <1>1, <1>2, <2>1 DEF PacketInv, PacketTypes, EngineKnows, AcceptedIsKept
<1>4. CASE WritePacket
  <2>1. /\ client = "writing" /\ client' = "written" /\ packet' = packet
        /\ content' = [content EXCEPT ![packet % Count] = packet] /\ accepted' = accepted
    BY <1>4 DEF WritePacket, Asks
  <2>2. /\ life \in {"prepared", "running"} /\ packet \in Nat /\ packet <= current + 1
        /\ accepted # NoPacket => accepted <= packet
    BY <2>1 DEF PacketInv, EngineKnows
  <2>3. packet % Count \in Places
    BY <2>2, Division, RtPacketsAssumption DEF Places
  <2>4. /\ DOMAIN content' = Places /\ content'[packet % Count] = packet
        /\ \A i \in Places : i # packet % Count => content'[i] = content[i]
    BY <2>1, <2>3 DEF PacketInv, PacketTypes
  <2>5. EngineKnows'
    BY <1>1, <2>1, <2>2, <2>4 DEF EngineKnows
  <2>6. AcceptedIsKept'
    <3>1. SUFFICES ASSUME accepted # NoPacket
                   PROVE  /\ accepted <= current + 1
                          /\ Count > 1 /\ accepted >= current => content'[accepted % Count] = accepted
      BY <1>1, <2>1, <2>2 DEF AcceptedIsKept
    <3>2. accepted \in Nat /\ accepted <= packet /\ accepted <= current + 1
      BY <2>2, <3>1 DEF PacketInv, PacketTypes, AcceptedIsKept
    <3>3. ASSUME Count > 1, accepted >= current PROVE content'[accepted % Count] = accepted
      <4>1. CASE accepted = packet
        BY <2>4, <4>1
      <4>2. CASE accepted # packet
        <5>1. packet = accepted + 1
          BY <1>1, <2>2, <3>2, <3>3, <4>2
        <5>2. accepted % Count \in Places /\ accepted % Count # packet % Count
          BY <3>2, <3>3, <5>1, NeighboursApart
        <5>3. content[accepted % Count] = accepted
          BY <2>2, <3>1, <3>3 DEF PacketInv, AcceptedIsKept
        <5> QED BY <2>4, <5>2, <5>3
      <4> QED BY <4>1, <4>2
    <3> QED BY <3>2, <3>3
  <2> QED BY <1>1, <1>2, <2>1, <2>4, <2>5, <2>6 DEF PacketInv, PacketTypes
<1>5. CASE SetRenderPacket
  <2>1. /\ client = "written" /\ client' = "idle" /\ content' = content
        /\ accepted' = IF packet <= current \/ packet > current + 1 THEN accepted ELSE packet
    BY <1>5 DEF SetRenderPacket, Asks
  <2>2. packet \in Nat /\ packet <= current + 1 /\ content[packet % Count] = packet
    BY <2>1 DEF PacketInv, EngineKnows
  <2>3. accepted' = accepted \/ accepted' = packet
    BY <2>1
  <2>4. PacketTypes'
    BY <1>1, <2>1, <2>2, <2>3 DEF PacketInv, PacketTypes
  <2>5. AcceptedIsKept'
    BY <1>1, <2>1, <2>2, <2>3 DEF PacketInv, AcceptedIsKept
  <2> QED BY <1>2, <2>1, <2>4, <2>5 DEF PacketInv, EngineKnows
<1>6. CASE GetCapturePacket
  <2>1. /\ life \in {"prepared", "running"} /\ client' = "reading" /\ packet' = current - 1
        /\ content' = content /\ accepted' = accepted
    BY <1>6 DEF GetCapturePacket, MayAsk, Asks
  <2>2. (current - 1) + 1 = current /\ current - 1 \in Int
    BY <1>1
  <2> QED BY <1>1, <1>2, <2>1, <2>2 DEF PacketInv, PacketTypes, EngineKnows, AcceptedIsKept
<1>7. CASE GetCaptureStart
  <2>1. /\ client = "reading" /\ client' = "read" /\ packet' = packet /\ time' = lastStart
        /\ content' = content /\ accepted' = accepted
    BY <1>7 DEF GetCaptureStart, Asks
  <2>2. packet \in Int /\ packet + 1 \in Nat /\ packet + 1 <= current
    BY <2>1 DEF PacketInv, EngineKnows
  <2>3. /\ lastStart # NoTime =>
             lastStart \in Nat /\ packet - 1 <= lastStart /\ lastStart <= current - 1
        /\ lastStart = NoTime => packet <= 0
    BY <1>1, <2>2, PacketFacts DEF PacketInv, Stamped
  <2> QED BY <1>1, <1>2, <2>1, <2>2, <2>3 DEF PacketInv, PacketTypes, EngineKnows, AcceptedIsKept
<1>8. CASE ReadPacket
  <2>1. client' = "idle" /\ content' = content /\ accepted' = accepted
    BY <1>8 DEF ReadPacket, Asks
  <2> QED BY <1>1, <1>2, <2>1 DEF PacketInv, PacketTypes, EngineKnows, AcceptedIsKept
<1> QED BY <1>3, <1>4, <1>5, <1>6, <1>7, <1>8

LEMMA PacketStep == PacketInv /\ [PacketNext]_packets => PacketInv'
<1> SUFFICES ASSUME PacketInv, [PacketNext]_packets PROVE PacketInv'
  OBVIOUS
<1>1. CASE UNCHANGED packets
  BY <1>1 DEF packets, PacketInv, PacketTypes, Numbered, Notified, Stamped, EngineKnows, AcceptedIsKept, Playing,
     AtStart
<1> QED BY <1>1, LifeSteps, MoveStep, AdvanceStep, EngineStep DEF PacketNext, Request

(* The invariant says what the properties say.                             *)
LEMMA PacketsFollow ==
  PacketInv => AcceptedIsHeard /\ CaptureIsAnswered /\ NotifiedIsAnswered
<1> SUFFICES ASSUME PacketInv
             PROVE  AcceptedIsHeard /\ CaptureIsAnswered /\ NotifiedIsAnswered
  OBVIOUS
<1>1. /\ frames \in Nat /\ current \in Nat /\ Playing \in Nat /\ current <= Playing
      /\ PacketFrames \in Nat \ {0} /\ NoPacket \notin Nat /\ NoTime \notin Nat
  BY PacketFacts
<1>2. AcceptedIsHeard
  BY <1>1 DEF PacketInv, AcceptedIsKept, AcceptedIsHeard, frame_bytes
<1>3. CapturedIsComplete
  <2>1. SUFFICES ASSUME client \in {"reading", "read"}
                 PROVE  (packet + 1) * PacketFrames <= frames
    BY DEF CapturedIsComplete
  <2>2. packet + 1 \in Nat /\ packet + 1 <= current
    BY <2>1 DEF PacketInv, EngineKnows
  <2>3. (packet + 1) * PacketFrames <= Playing * PacketFrames
    BY <1>1, <2>2, Grows
  <2>4. Playing * PacketFrames <= frames
    BY <1>1, OneFrameOn DEF Playing
  <2>5. (packet + 1) * PacketFrames \in Nat /\ Playing * PacketFrames \in Nat
    BY <1>1, <2>2
  <2> QED BY <1>1, <2>3, <2>4, <2>5
<1>4. StartIsNear
  BY <1>1 DEF PacketInv, EngineKnows, StartIsNear
<1>5. NotifiedIsAnswered
  <2>1. told = IF routine = "away" THEN Playing ELSE Playing - 1
    BY DEF PacketInv, Notified
  <2>2. current = IF routine = "complete" THEN Playing - 1 ELSE Playing
    BY DEF PacketInv, Numbered
  <2>3. LET last == IF routine = "stored" THEN current - 2 ELSE current - 1
        IN  lastStart = IF last < 0 THEN NoTime ELSE last
    BY DEF PacketInv, Stamped
  <2> QED BY <1>1, <2>1, <2>2, <2>3 DEF NotifiedIsAnswered
<1> QED BY <1>2, <1>3, <1>4, <1>5 DEF CaptureIsAnswered

(* So does a step.                                                         *)
LEMMA AcceptedInTime ==
  ASSUME PacketInv, [PacketNext]_packets, accepted' # accepted, accepted' # NoPacket
  PROVE  frames <= accepted' * PacketFrames
<1>1. SetRenderPacket
  BY DEF PacketNext, packets, Request, Advance, AllocatePackets, FreePackets, Prepare, Run, Pause,
     Release, Move, StoreCurrent, StoreStart, Notify, GetCurrent, WritePacket, GetCapturePacket,
     GetCaptureStart, ReadPacket
<1>2. accepted' = packet /\ packet = current + 1 /\ current \in Nat
  <2>1. packet \in Nat /\ packet <= current + 1 /\ current \in Nat
    BY <1>1 DEF SetRenderPacket, PacketInv, EngineKnows, PacketTypes
  <2> QED BY <1>1, <2>1 DEF SetRenderPacket
<1>3. /\ frames \in Nat /\ Playing \in Nat /\ PacketFrames \in Nat
      /\ frames < (Playing + 1) * PacketFrames
      /\ AtStart(frames) => frames = Playing * PacketFrames
  BY PacketFacts, OneFrameOn DEF Playing
<1>4. CASE routine = "complete"
  BY <1>2, <1>3, <1>4 DEF PacketInv, Numbered
<1>5. CASE routine # "complete"
  <2>1. accepted' * PacketFrames = (Playing + 1) * PacketFrames
    BY <1>2, <1>5 DEF PacketInv, Numbered
  <2>2. (Playing + 1) * PacketFrames \in Nat
    BY <1>3
  <2> QED BY <1>3, <2>1, <2>2
<1> QED BY <1>4, <1>5

-----------------------------------------------------------------------------
(* Conversions (Resampler)                                                 *)

(* The kernel reaches at least down / up frames to each side: an output    *)
(* never needs to step over it.                                            *)
LEMMA TapsBounds ==
  ASSUME NEW r \in Conversions
  PROVE  /\ Taps(r) \in Nat /\ r.down <= Taps(r) * r.up
         /\ 2 * Taps(r) <= HISTORY
<1>1. /\ r.up \in Nat \ {0} /\ r.down \in Nat \ {0} /\ HISTORY \in Nat
      /\ ZERO_CROSSINGS \in Nat \ {0}
      /\ 2 * Taps(r) + CeilDiv(r.down, r.up) + 1 < HISTORY
  BY ResamplerAssumption
<1>2. Scale(r) \in Nat /\ r.down <= Scale(r)
  BY <1>1 DEF Scale
<1>3. 1 * Scale(r) <= ZERO_CROSSINGS * Scale(r)
  BY <1>1, <1>2, Grows
<1>4. ZERO_CROSSINGS * Scale(r) \in Nat
  BY <1>1, <1>2
<1>5. /\ Taps(r) \in Nat
      /\ ZERO_CROSSINGS * Scale(r) <= Taps(r) * r.up
  BY <1>1, <1>4, CeilDivBounds DEF Taps
<1>6. CeilDiv(r.down, r.up) \in Nat
  BY <1>1, CeilDivBounds
<1>7. r.down <= Taps(r) * r.up
  <2>1. Taps(r) * r.up \in Nat
    BY <1>1, <1>5
  <2> QED BY <1>1, <1>2, <1>3, <1>4, <1>5, <2>1
<1> QED BY <1>1, <1>5, <1>6, <1>7

-----------------------------------------------------------------------------
(* The invariant                                                           *)

(* The types, with which the steps compute.                                *)
TypeOK ==
  /\ rates \in Conversions \cup {NoRates}
  /\ pushed \in 0..LastPush
  /\ center \in Nat /\ popped \in Nat /\ phase \in Nat

(* No more is pushed than the next output needs: Push waits for pop to     *)
(* return nothing, and Pop only moves the position on. And no more is out  *)
(* than has gone in, at any time.                                          *)
Ahead == Converting => pushed <= center + Taps(rates) + 1

OutFollowsIn == Converting => popped * rates.down <= pushed * rates.up

IInv == TypeOK /\ NeverDrifts /\ Ahead /\ InputBounded /\ OutFollowsIn

(* What every step of a conversion starts from.                            *)
LEMMA ConvertingFacts ==
  ASSUME TypeOK, NeverDrifts, Converting
  PROVE  /\ rates \in Conversions
         /\ rates.up \in Nat \ {0} /\ rates.down \in Nat \ {0}
         /\ Taps(rates) \in Nat /\ rates.down <= Taps(rates) * rates.up
         /\ 2 * Taps(rates) <= HISTORY
         /\ CeilDiv(rates.down, rates.up) \in Nat
         /\ pushed \in Nat /\ center \in Nat /\ popped \in Nat /\ phase \in Nat
         /\ phase < rates.up
<1>1. rates \in Conversions
  BY DEF TypeOK, Converting
<1>2. rates.up \in Nat \ {0} /\ rates.down \in Nat \ {0}
  BY <1>1, ResamplerAssumption
<1>3. CeilDiv(rates.down, rates.up) \in Nat
  BY <1>2, CeilDivBounds
<1>4. LastPush \in Nat
  BY ResamplerAssumption
<1>5. pushed \in Nat /\ center \in Nat /\ popped \in Nat /\ phase \in Nat /\ phase < rates.up
  BY <1>4 DEF TypeOK, NeverDrifts
<1> QED BY <1>1, <1>2, <1>3, <1>5, TapsBounds

LEMMA InitIInv == Init => IInv
  BY ResamplerAssumption
  DEF Init, IInv, TypeOK, NeverDrifts, Ahead, InputBounded, OutFollowsIn, Converting, NoRates

(* A conversion begins with nothing in and nothing out.                    *)
LEMMA ResetIInv ==
  ASSUME IInv, NEW r \in Conversions, Reset(r)
  PROVE  IInv'
<1>1. /\ rates' = r /\ pushed' = 0 /\ center' = 0 /\ phase' = 0 /\ popped' = 0
  BY DEF Reset
<1>2. /\ r.up \in Nat \ {0} /\ r.down \in Nat \ {0} /\ LastPush \in Nat
  BY ResamplerAssumption
<1>3. Taps(r) \in Nat
  BY TapsBounds
<1>4. TypeOK'
  BY <1>1, <1>2 DEF TypeOK
<1>5. NeverDrifts'
  BY <1>1, <1>2 DEF NeverDrifts
<1>6. Ahead'
  BY <1>1, <1>3 DEF Ahead
<1>7. InputBounded' /\ OutFollowsIn'
  BY <1>1, <1>2 DEF InputBounded, OutFollowsIn
<1> QED BY <1>4, <1>5, <1>6, <1>7 DEF IInv

LEMMA PushIInv ==
  ASSUME IInv, Push
  PROVE  IInv'
<1>1. /\ Converting /\ TypeOK /\ NeverDrifts
      /\ rates' = rates /\ center' = center /\ phase' = phase /\ popped' = popped
      /\ pushed' = pushed + 1 /\ pushed < LastPush
  BY DEF IInv, Push
<1>2. /\ rates.up \in Nat \ {0} /\ rates.down \in Nat \ {0}
      /\ Taps(rates) \in Nat /\ CeilDiv(rates.down, rates.up) \in Nat
      /\ pushed \in Nat /\ center \in Nat /\ popped \in Nat /\ phase \in Nat
  BY <1>1, ConvertingFacts
<1>3. pushed <= center + Taps(rates)
  BY <1>1, <1>2 DEF Push, CanPop
<1>4. LastPush \in Nat
  BY ResamplerAssumption
<1>5. TypeOK'
  BY <1>1, <1>2, <1>4 DEF TypeOK, Converting
<1>6. NeverDrifts'
  BY <1>1 DEF IInv, NeverDrifts, Converting
<1>7. Ahead'
  BY <1>1, <1>2, <1>3 DEF Ahead
<1>8. InputBounded'
  <2>1. popped > 0 => center + Taps(rates) + 1 - pushed <= CeilDiv(rates.down, rates.up)
    BY <1>1 DEF IInv, InputBounded
  <2> QED BY <1>1, <1>2, <2>1 DEF InputBounded
<1>9. OutFollowsIn'
  <2>1. popped * rates.down <= pushed * rates.up
    BY <1>1 DEF IInv, OutFollowsIn
  <2>2. pushed * rates.up <= (pushed + 1) * rates.up
    BY <1>2, Grows
  <2>3. /\ popped * rates.down \in Nat /\ pushed * rates.up \in Nat
        /\ (pushed + 1) * rates.up \in Nat
    BY <1>2
  <2>4. popped * rates.down <= (pushed + 1) * rates.up
    BY <2>1, <2>2, <2>3
  <2> QED BY <1>1, <2>4 DEF OutFollowsIn
<1> QED BY <1>5, <1>6, <1>7, <1>8, <1>9 DEF IInv

(* The position moves on by down / up: whole frames in center, the rest in *)
(* phase.                                                                  *)
LEMMA PopIInv ==
  ASSUME IInv, Pop
  PROVE  IInv'
<1> DEFINE up == rates.up
           down == rates.down
           taps == Taps(rates)
           whole == (phase + down) \div up
           rest == (phase + down) % up
<1>1. /\ Converting /\ TypeOK /\ NeverDrifts
      /\ rates' = rates /\ center' = center + whole /\ phase' = rest
      /\ popped' = popped + 1 /\ pushed' = pushed
  BY DEF IInv, Pop, CanPop
<1>2. /\ up \in Nat \ {0} /\ down \in Nat \ {0}
      /\ taps \in Nat /\ down <= taps * up /\ CeilDiv(down, up) \in Nat
      /\ pushed \in Nat /\ center \in Nat /\ popped \in Nat /\ phase \in Nat
      /\ phase < up
  BY <1>1, ConvertingFacts
<1>3. pushed > center + taps
  BY DEF Pop, CanPop
<1>4. /\ whole \in Nat /\ rest \in Nat /\ rest < up
      /\ whole * up + rest = phase + down
  <2>1. phase + down \in Nat
    BY <1>2
  <2> HIDE DEF up, down
  <2> QED BY <1>2, <2>1, Division
<1>5. whole <= CeilDiv(down, up)
  <2>1. phase + down <= down + up - 1 /\ phase + down \in Nat /\ down + up - 1 \in Nat
    BY <1>2
  <2> QED BY <1>2, <2>1, QuotientGrows DEF CeilDiv
<1>6. center * up + phase = popped * down
  BY <1>1 DEF IInv, NeverDrifts
<1>7. Converting'
  BY <1>1 DEF Converting
<1>8. TypeOK'
  BY <1>1, <1>2, <1>4 DEF TypeOK, Converting
<1> HIDE DEF up, down, taps, whole, rest
<1>9. (center + whole) * up + rest = (popped + 1) * down
  <2>1. (center + whole) * up = center * up + whole * up
    BY <1>2, <1>4, Distributes
  <2>2. (popped + 1) * down = popped * down + 1 * down
    BY <1>2, Distributes
  <2>3. /\ center * up \in Nat /\ whole * up \in Nat /\ popped * down \in Nat
        /\ 1 * down = down
    BY <1>2, <1>4
  <2> QED BY <1>2, <1>4, <1>6, <2>1, <2>2, <2>3
<1>10. NeverDrifts'
  BY <1>1, <1>4, <1>9 DEF NeverDrifts, up, down
<1>11. Ahead'
  <2>1. pushed <= center + taps + 1
    BY <1>1 DEF IInv, Ahead, taps
  <2>2. pushed <= center + whole + taps + 1
    BY <1>2, <1>4, <2>1
  <2> QED BY <1>1, <2>2 DEF Ahead, taps
<1>12. InputBounded'
  <2>1. center + whole + taps + 1 - pushed <= CeilDiv(down, up)
    BY <1>2, <1>3, <1>4, <1>5
  <2> QED BY <1>1, <2>1 DEF InputBounded, taps, down, up
<1>13. (popped + 1) * down <= pushed * up
  <2>1. (center + taps + 1) * up <= pushed * up
    BY <1>2, <1>3, Grows
  <2>2. /\ (center + taps + 1) * up = (center + taps) * up + 1 * up
        /\ (center + taps) * up = center * up + taps * up
    BY <1>2, Distributes
  <2>3. (popped + 1) * down = popped * down + 1 * down
    BY <1>2, Distributes
  <2>4. /\ center * up \in Nat /\ taps * up \in Nat /\ popped * down \in Nat
        /\ pushed * up \in Nat /\ 1 * down = down /\ 1 * up = up
    BY <1>2
  <2> QED BY <1>2, <1>6, <2>1, <2>2, <2>3, <2>4
<1>14. OutFollowsIn'
  BY <1>1, <1>13 DEF OutFollowsIn, up, down
<1> QED BY <1>8, <1>10, <1>11, <1>12, <1>14 DEF IInv

LEMMA NextIInv == IInv /\ [Next]_vars => IInv'
<1> SUFFICES ASSUME IInv, [Next]_vars PROVE IInv'
  OBVIOUS
<1>1. ASSUME NEW r \in Conversions, Reset(r) PROVE IInv'
  BY <1>1, ResetIInv
<1>2. CASE Clear
  BY <1>2 DEF Clear, IInv, TypeOK, NeverDrifts, Ahead, InputBounded, OutFollowsIn, Converting
<1>3. CASE Push
  BY <1>3, PushIInv
<1>4. CASE Pop
  BY <1>4, PopIInv
<1>5. CASE UNCHANGED vars
  BY <1>5 DEF vars, IInv, TypeOK, NeverDrifts, Ahead, InputBounded, OutFollowsIn, Converting
<1> QED BY <1>1, <1>2, <1>3, <1>4, <1>5 DEF Next

LEMMA Inductive == Spec => []IInv
  BY InitIInv, NextIInv, PTL DEF Spec

-----------------------------------------------------------------------------
(* Theorems                                                                *)

(* The ratio is exact however long a stream runs.                          *)
THEOREM Drift == Spec => []NeverDrifts
<1>1. IInv => NeverDrifts
  BY DEF IInv
<1> QED BY <1>1, Inductive, PTL

(* What pop reads is there: pushed and not yet overwritten.                *)
THEOREM Window == Spec => []WindowKept
<1>1. IInv => WindowKept
  <2>1. SUFFICES ASSUME IInv, CanPop,
                        NEW frame \in {center - Taps(rates) + 1, center + Taps(rates)}
                 PROVE  frame < pushed /\ pushed <= frame + HISTORY
    BY DEF WindowKept
  <2>2. Converting /\ TypeOK /\ NeverDrifts /\ pushed > center + Taps(rates)
    BY <2>1 DEF CanPop, IInv
  <2>3. pushed <= center + Taps(rates) + 1
    BY <2>1, <2>2 DEF IInv, Ahead
  <2>4. /\ Taps(rates) \in Nat /\ 2 * Taps(rates) <= HISTORY
        /\ pushed \in Nat /\ center \in Nat /\ HISTORY \in Nat
        /\ rates \in Conversions /\ rates.up \in Nat \ {0} /\ rates.down \in Nat \ {0}
    BY <2>2, ConvertingFacts, ResamplerAssumption
  <2>5. Taps(rates) >= 1
    <3>1. Taps(rates) # 0
      <4>1. SUFFICES ASSUME Taps(rates) = 0 PROVE FALSE
        OBVIOUS
      <4>2. rates.down <= 0 * rates.up
        BY <2>4, <4>1, TapsBounds
      <4> QED BY <2>4, <4>2
    <3> QED BY <2>4, <3>1
  <2> QED BY <2>1, <2>2, <2>3, <2>4, <2>5
<1> QED BY <1>1, Inductive, PTL

(* render's loop ends within the input one output can take.                *)
THEOREM Input == Spec => []InputBounded
<1>1. IInv => InputBounded
  BY DEF IInv
<1> QED BY <1>1, Inductive, PTL

(* The output neither runs ahead of the input nor falls behind by more     *)
(* than half the kernel.                                                   *)
THEOREM Ratio == Spec => []FollowsRatio
<1>1. IInv => FollowsRatio
  <2>1. SUFFICES ASSUME IInv, Converting, ~CanPop
                 PROVE  /\ popped * rates.down <= pushed * rates.up
                        /\ (pushed - Taps(rates)) * rates.up <= popped * rates.down
    BY DEF FollowsRatio
  <2>2. /\ popped * rates.down <= pushed * rates.up
        /\ center * rates.up + phase = popped * rates.down
    BY <2>1 DEF IInv, OutFollowsIn, NeverDrifts
  <2>3. /\ rates.up \in Nat /\ rates.down \in Nat /\ Taps(rates) \in Nat
        /\ pushed \in Nat /\ center \in Nat /\ popped \in Nat /\ phase \in Nat
    BY <2>1, ConvertingFacts DEF IInv
  <2>4. pushed - Taps(rates) <= center
    BY <2>1, <2>3 DEF CanPop
  <2>5. (pushed - Taps(rates)) * rates.up <= center * rates.up
    BY <2>3, <2>4, Grows
  <2>6. center * rates.up <= popped * rates.down
    <3>1. center * rates.up \in Nat
      BY <2>3
    <3> QED BY <2>2, <2>3, <3>1
  <2>7. /\ center * rates.up \in Nat /\ popped * rates.down \in Nat
        /\ (pushed - Taps(rates)) * rates.up \in Int
    BY <2>3
  <2> QED BY <2>2, <2>5, <2>6, <2>7
<1> QED BY <1>1, Inductive, PTL

(* The ratio is exact for a stream of any length, and no frame is lost.    *)
THEOREM Exact == Spec => []RatioIsExact
BY Drift, Ratio, PTL DEF RatioIsExact

(* The history is long enough and the loop of render ends.                 *)
THEOREM Fits == Spec => []ConverterFits
BY Window, Input, PTL DEF ConverterFits

-----------------------------------------------------------------------------
(* The stream (RtStream)                                                   *)

(* The conversions render and capture ask for are among those assumed.     *)
LEMMA Asked ==
  ASSUME NEW from \in Rates, NEW to \in Rates, from # to
  PROVE  /\ Conversion(from, to) \in Conversions
         /\ Conversion(from, to) # NoRates
<1>1. <<from, to>> \in {q \in Rates \X Rates : q[1] # q[2]}
  OBVIOUS
<1>2. Conversion(<<from, to>>[1], <<from, to>>[2]) \in AllConversions
  BY <1>1 DEF AllConversions
<1>3. Conversion(from, to) \in Conversions
  BY <1>2, RtStreamAssumption
<1>4. Conversion(from, to).from \in Nat \ {0}
  BY <1>3, ResamplerAssumption
<1> QED BY <1>3, <1>4 DEF NoRates

-----------------------------------------------------------------------------
(* The invariant                                                           *)

StreamTypeOK ==
  /\ renders \in BOOLEAN /\ hz \in Rates /\ card_hz \in Rates
  /\ frames \in Nat
  /\ call \in {"away", "rendering", "pushing", "capturing"}

(* A call is made in a stream that runs, on the side it is for, and with   *)
(* a conversion under way.                                                 *)
CallsConvert ==
  /\ call # "away" => life = "running" /\ Converting
  /\ call = "rendering" => renders
  /\ call \in {"pushing", "capturing"} => ~renders

(* capture leaves no output behind.                                        *)
Drained == call = "pushing" \/ (call = "away" /\ ~renders) => ~CanPop

SInv == StreamTypeOK /\ CallsConvert /\ Drained /\ NothingOldIsHeard

LEMMA StreamInitInvariant == StreamInit => Init /\ SInv
  BY DEF StreamInit, InitPackets, Init, SInv, StreamTypeOK, CallsConvert, Drained,
         NothingOldIsHeard, CanPop, Converting

(* Nothing of the converter changes.                                       *)
LEMMA ConverterStays ==
  ASSUME UNCHANGED vars
  PROVE  (CanPop' <=> CanPop) /\ (Converting' <=> Converting)
  BY DEF vars, CanPop, Converting, NoRates, Taps, Scale, CeilDiv

(* A conversion that has just begun has nothing to pop.                    *)
LEMMA BeginsEmpty ==
  ASSUME NEW r \in Conversions, r # NoRates, Reset(r)
  PROVE  Converting' /\ ~CanPop'
<1>1. Taps(r) \in Nat
  BY TapsBounds
<1>2. rates' = r /\ pushed' = 0 /\ center' = 0
  BY DEF Reset
<1>3. Taps(rates)' = Taps(r)
  BY <1>2 DEF Taps, Scale, CeilDiv
<1>4. Converting'
  BY <1>2 DEF Converting, NoRates
<1>5. ~(0 > 0 + Taps(r))
  BY <1>1
<1> QED BY <1>2, <1>3, <1>4, <1>5 DEF CanPop

(* Windows' requests leave the frames and a stream that runs alone.        *)
LEMMA RequestKeeps ==
  ASSUME Request \/ Advance
  PROVE  frames' = frames /\ (life = "running" => life' = "running")
  BY DEF Request, Advance, AllocatePackets, FreePackets, Run, Release, GetCurrent, WritePacket,
         SetRenderPacket, GetCapturePacket, GetCaptureStart, ReadPacket, StoreCurrent, StoreStart,
         Notify, cursor, Asks, MayAsk

-----------------------------------------------------------------------------
(* Steps: each is one of the converter's, or leaves it alone               *)

(* Everything but render and capture.                                      *)
LEMMA OutsideKeeps ==
  ASSUME SInv,
         \/ WindowsRequests \/ StreamPrepares \/ StreamPauses
         \/ \E r \in Rates \ {card_hz} : EngineRestarts(r)
         \/ PacketCompletes
  PROVE  [Next]_vars /\ SInv'
<1>1. CASE WindowsRequests \/ PacketCompletes
  <2>1. UNCHANGED <<vars, stream, call>> /\ frames' = frames
        /\ (life = "running" => life' = "running")
    BY <1>1, RequestKeeps DEF WindowsRequests, PacketCompletes
  <2>2. /\ CanPop' <=> CanPop
        /\ Converting' <=> Converting
        /\ pushed' = pushed /\ popped' = popped
    BY <2>1, ConverterStays DEF vars
  <2> QED BY <2>1, <2>2 DEF SInv, StreamTypeOK, CallsConvert, Drained, NothingOldIsHeard, stream
<1>2. CASE StreamPrepares
  <2>1. /\ life = "allocated" /\ frames' = 0
        /\ Clear /\ UNCHANGED <<stream, call>>
    BY <1>2 DEF StreamPrepares, Prepare
  <2>2. ~Converting' /\ ~CanPop'
    BY <2>1 DEF Clear, CanPop, Converting, NoRates
  <2>3. call = "away"
    BY <2>1 DEF SInv, CallsConvert
  <2> QED BY <2>1, <2>2, <2>3
      DEF SInv, StreamTypeOK, CallsConvert, Drained, NothingOldIsHeard, stream, Next
<1>3. CASE StreamPauses \/ \E r \in Rates \ {card_hz} : EngineRestarts(r)
  <2>1. /\ call = "away" /\ call' = "away"
        /\ UNCHANGED vars /\ frames' = frames
        /\ renders' = renders /\ hz' = hz /\ card_hz' \in Rates
    BY <1>3 DEF SInv, StreamTypeOK, StreamPauses, Pause, EngineRestarts, packets, stream, cursor
  <2>2. /\ CanPop' <=> CanPop
        /\ Converting' <=> Converting
        /\ pushed' = pushed /\ popped' = popped
    BY <2>1, ConverterStays DEF vars
  <2> QED BY <2>1, <2>2 DEF SInv, StreamTypeOK, CallsConvert, Drained, NothingOldIsHeard
<1> QED BY <1>1, <1>2, <1>3

(* The beginning of a call at two rates.                                   *)
LEMMA BeginKeeps ==
  ASSUME SInv, BeginRender \/ BeginCapture
  PROVE  [Next]_vars /\ SInv'
<1> DEFINE r == IF renders THEN Conversion(hz, card_hz) ELSE Conversion(card_hz, hz)
<1>1. /\ life = "running" /\ call = "away" /\ StartsOver(r) /\ UNCHANGED <<packets, stream>>
      /\ call' = IF renders THEN "rendering" ELSE "pushing"
      /\ hz # card_hz
  BY DEF BeginRender, BeginCapture, Called
<1>2. r \in Conversions /\ r # NoRates
  BY <1>1, Asked DEF SInv, StreamTypeOK
<1>3. life' = "running" /\ frames' = frames /\ renders' = renders /\ hz' = hz /\ card_hz' = card_hz
  BY <1>1 DEF packets, stream
<1> HIDE DEF r
<1>4. CASE rates = r
  <2>1. UNCHANGED vars
    BY <1>1, <1>4 DEF StartsOver
  <2>2. /\ CanPop' <=> CanPop
        /\ Converting' /\ Converting
        /\ pushed' = pushed /\ popped' = popped
    BY <2>1, <1>2, <1>4, ConverterStays DEF vars, Converting
  <2> QED BY <1>1, <1>3, <2>1, <2>2 DEF SInv, StreamTypeOK, CallsConvert, Drained, NothingOldIsHeard
<1>5. CASE rates # r
  <2>1. Reset(r) /\ Converting' /\ ~CanPop' /\ pushed' = 0 /\ popped' = 0
    BY <1>1, <1>2, <1>5, BeginsEmpty DEF StartsOver, Reset
  <2>2. [Next]_vars
    BY <1>2, <2>1 DEF Next
  <2>3. 0 <= frames
    BY DEF SInv, StreamTypeOK
  <2>4. StreamTypeOK' /\ CallsConvert' /\ Drained'
    BY <1>1, <1>3, <2>1 DEF SInv, StreamTypeOK, CallsConvert, Drained
  <2>5. NothingOldIsHeard'
    BY <1>3, <2>1, <2>3 DEF NothingOldIsHeard
  <2> QED BY <2>2, <2>4, <2>5 DEF SInv
<1> QED BY <1>4, <1>5

(* Frames on their way.                                                    *)
LEMMA FramesKeep ==
  ASSUME SInv, TypeOK,
         Direct \/ RenderPop \/ RenderPush \/ CapturePush \/ CapturePop \/ CaptureReturns
  PROVE  [Next]_vars /\ SInv'
<1>0. frames \in Nat /\ pushed \in Nat /\ popped \in Nat
  BY ResamplerAssumption DEF SInv, StreamTypeOK, TypeOK
<1>1. CASE Direct
  <2>1. UNCHANGED <<vars, stream, call>> /\ frames' = frames + 1 /\ life' = life /\ call = "away"
    BY <1>1 DEF Direct, Move
  <2>2. /\ CanPop' <=> CanPop
        /\ Converting' <=> Converting
        /\ pushed' = pushed /\ popped' = popped
    BY <2>1, ConverterStays DEF vars
  <2> QED BY <1>0, <2>1, <2>2
      DEF SInv, StreamTypeOK, CallsConvert, Drained, NothingOldIsHeard, stream
<1>2. CASE RenderPop
  <2>1. /\ call = "rendering" /\ call' = "away" /\ renders /\ Pop
        /\ UNCHANGED <<packets, stream>>
    BY <1>2 DEF RenderPop, SInv, CallsConvert
  <2>2. pushed' = pushed /\ (Converting' <=> Converting)
    BY <2>1 DEF Pop, Converting, NoRates
  <2> QED BY <2>1, <2>2
      DEF SInv, StreamTypeOK, CallsConvert, Drained, NothingOldIsHeard, stream, packets, Next
<1>3. CASE RenderPush
  <2>1. /\ call = "rendering" /\ call' = call /\ renders /\ Converting /\ ~CanPop
        /\ PushFrame /\ UNCHANGED stream /\ frames' = frames + 1 /\ life' = life
    BY <1>3 DEF RenderPush, Move, SInv, CallsConvert
  <2>2. Push /\ pushed' = pushed + 1 /\ Converting'
    BY <2>1 DEF Push, PushFrame, Converting, NoRates
  <2>3. pushed <= frames
    BY <2>1 DEF SInv, NothingOldIsHeard
  <2>4. pushed' <= frames' /\ frames' \in Nat
    BY <1>0, <2>1, <2>2, <2>3
  <2> QED BY <2>1, <2>2, <2>4
      DEF SInv, StreamTypeOK, CallsConvert, Drained, NothingOldIsHeard, stream, Next
<1>4. CASE CapturePush
  <2>1. /\ call = "pushing" /\ call' = "capturing" /\ ~renders /\ Converting /\ ~CanPop
        /\ PushFrame /\ UNCHANGED <<packets, stream>>
    BY <1>4 DEF CapturePush, SInv, CallsConvert, Drained
  <2>2. Push /\ popped' = popped /\ Converting'
    BY <2>1 DEF Push, PushFrame, Converting, NoRates
  <2> QED BY <2>1, <2>2
      DEF SInv, StreamTypeOK, CallsConvert, Drained, NothingOldIsHeard, stream, packets, Next
<1>5. CASE CapturePop
  <2>1. /\ call = "capturing" /\ call' = call /\ ~renders /\ Converting
        /\ Pop /\ UNCHANGED stream /\ frames' = frames + 1 /\ life' = life
    BY <1>5 DEF CapturePop, Move, SInv, CallsConvert
  <2>2. popped' = popped + 1 /\ Converting'
    BY <2>1 DEF Pop, Converting, NoRates
  <2>3. popped <= frames
    BY <2>1 DEF SInv, NothingOldIsHeard
  <2>4. popped' <= frames' /\ frames' \in Nat
    BY <1>0, <2>1, <2>2, <2>3
  <2> QED BY <2>1, <2>2, <2>4
      DEF SInv, StreamTypeOK, CallsConvert, Drained, NothingOldIsHeard, stream, Next
<1>6. CASE CaptureReturns
  <2>1. /\ call = "capturing" /\ call' = "away" /\ ~CanPop
        /\ UNCHANGED <<packets, vars, stream>>
    BY <1>6 DEF CaptureReturns
  <2>2. /\ CanPop' <=> CanPop
        /\ Converting' <=> Converting
        /\ pushed' = pushed /\ popped' = popped
    BY <2>1, ConverterStays DEF vars
  <2> QED BY <2>1, <2>2
      DEF SInv, StreamTypeOK, CallsConvert, Drained, NothingOldIsHeard, stream, packets
<1> QED BY <1>1, <1>2, <1>3, <1>4, <1>5, <1>6

LEMMA StreamNextInvariant ==
  SInv /\ IInv /\ [StreamNext]_streamVars => [Next]_vars /\ SInv'
<1> SUFFICES ASSUME SInv, IInv, [StreamNext]_streamVars PROVE [Next]_vars /\ SInv'
  OBVIOUS
<1>1. CASE StreamNext
  <2>1. TypeOK
    BY DEF IInv
  <2> QED BY <1>1, <2>1, OutsideKeeps, BeginKeeps, FramesKeep DEF StreamNext, RoutineSteps
<1>2. CASE UNCHANGED streamVars
  <2>1. UNCHANGED <<packets, vars, stream, call>>
    BY <1>2 DEF streamVars
  <2>2. /\ CanPop' <=> CanPop
        /\ Converting' <=> Converting
        /\ pushed' = pushed /\ popped' = popped
    BY <2>1, ConverterStays DEF vars
  <2> QED BY <2>1, <2>2
      DEF SInv, StreamTypeOK, CallsConvert, Drained, NothingOldIsHeard, stream, packets
<1> QED BY <1>1, <1>2

LEMMA StreamInvariance == StreamSpec => []SInv /\ []IInv /\ [][Next]_vars
<1>1. StreamInit => SInv /\ IInv
  BY StreamInitInvariant, InitIInv
<1>2. SInv /\ IInv /\ [StreamNext]_streamVars => SInv' /\ IInv' /\ [Next]_vars
  BY StreamNextInvariant, NextIInv
<1> QED BY <1>1, <1>2, PTL DEF StreamSpec

-----------------------------------------------------------------------------

(* render and capture are a correct user of the converter, whatever the    *)
(* card's rate becomes: they implement the specification its theorems are  *)
(* about, which so hold of the stream.                                     *)
THEOREM StreamUsesConverter == StreamSpec => ConverterUsedInTurn
<1>1. StreamInit => Init
  BY StreamInitInvariant
<1> QED BY <1>1, StreamInvariance, PTL DEF StreamSpec, ConverterUsedInTurn, Spec

(* The converter never holds a frame of the run before the last prepare.   *)
THEOREM StreamForgets == StreamSpec => []NothingOldIsHeard
<1>1. SInv => NothingOldIsHeard
  BY DEF SInv
<1> QED BY <1>1, StreamInvariance, PTL

(* The ratio is exact in every stream, of any rates and length.            *)
THEOREM StreamIsExact == StreamSpec => []RatioIsExact
<1>1. StreamSpec => Spec
  BY StreamUsesConverter DEF ConverterUsedInTurn
<1> QED BY <1>1, Exact

(* The history suffices in every stream, and render's loop ends.           *)
THEOREM StreamFits == StreamSpec => []ConverterFits
<1>1. StreamSpec => Spec
  BY StreamUsesConverter DEF ConverterUsedInTurn
<1> QED BY <1>1, Fits

-----------------------------------------------------------------------------
(* Its packets                                                             *)

(* The frames of render and capture, and Windows' requests, are steps of   *)
(* the packets; the converter's leave them alone.                          *)
LEMMA StreamMovesPackets == [StreamNext]_streamVars => [PacketNext]_packets
<1> SUFFICES ASSUME [StreamNext]_streamVars PROVE [PacketNext]_packets
  OBVIOUS
<1>1. CASE WindowsRequests \/ StreamPrepares \/ StreamPauses
  BY <1>1 DEF WindowsRequests, StreamPrepares, StreamPauses, PacketNext
<1>2. CASE Direct \/ RenderPush \/ CapturePop \/ PacketCompletes
  BY <1>2 DEF Direct, RenderPush, CapturePop, PacketCompletes, PacketNext
<1>3. CASE \/ \E r \in Rates \ {card_hz} : EngineRestarts(r)
           \/ BeginRender \/ RenderPop \/ BeginCapture \/ CapturePush \/ CaptureReturns
           \/ UNCHANGED streamVars
  <2>1. UNCHANGED packets
    BY <1>3 DEF EngineRestarts, BeginRender, RenderPop, BeginCapture, CapturePush, CaptureReturns,
                streamVars
  <2> QED BY <2>1
<1> QED BY <1>1, <1>2, <1>3 DEF StreamNext, RoutineSteps

LEMMA PacketInvariance == StreamSpec => []PacketInv /\ [][PacketNext]_packets
<1>1. StreamInit => PacketInv
  BY PacketInit DEF StreamInit
<1>2. PacketInv /\ [StreamNext]_streamVars => PacketInv' /\ [PacketNext]_packets
  BY PacketStep, StreamMovesPackets
<1> QED BY <1>1, <1>2, PTL DEF StreamSpec

(* A packet accepted in time is played as written, in a ring of any size   *)
(* and however late the engine writes the ones after it.                   *)
THEOREM AcceptedPlays == StreamSpec => []AcceptedIsHeard
<1>1. PacketInv => AcceptedIsHeard
  BY PacketsFollow
<1> QED BY <1>1, PacketInvariance, PTL

(* The packet GetCapturePacket reports is complete, and its start is that  *)
(* packet's or a neighbour's, without a lock; only packet 0, and what is   *)
(* reported before it, may have none.                                      *)
THEOREM CaptureAnswers == StreamSpec => []CaptureIsAnswered
<1>1. PacketInv => CaptureIsAnswered
  BY PacketsFollow
<1> QED BY <1>1, PacketInvariance, PTL

(* Once Windows is notified of a packet, requests find its number and      *)
(* start, and no earlier ones.                                             *)
THEOREM NotifiedAnswers == StreamSpec => []NotifiedIsAnswered
<1>1. PacketInv => NotifiedIsAnswered
  BY PacketsFollow
<1> QED BY <1>1, PacketInvariance, PTL

(* SetRenderPacket accepts no packet of which a frame has been played.     *)
THEOREM AcceptedEarly == StreamSpec => AcceptedBeforePlayed
<1>1. PacketInv /\ [PacketNext]_packets
        => [accepted' # accepted /\ accepted' # NoPacket
              => frames <= accepted' * PacketFrames]_packets
  BY AcceptedInTime
<1> QED BY <1>1, PacketInvariance, PTL DEF AcceptedBeforePlayed
=============================================================================
