--------------------------------- MODULE Fifo -------------------------------
(***************************************************************************)
(* The ring behind the buffers of an ASIO session (`Fifo` in               *)
(* crates/ak1-proto/src/asio.rs). SessionBuffers keeps its length only.    *)
(* The vector is a sequence, so the place that the code counts from 0 is   *)
(* one more here.                                                          *)
(***************************************************************************)
EXTENDS Integers, Sequences

NewFifo(capacity, silence) ==
  [frames |-> [i \in 1..capacity |-> silence], start |-> 0, len |-> 0]

IsFull(ring) == ring.len = Len(ring.frames)

Slot(ring, i) == ((ring.start + i) % Len(ring.frames)) + 1

(* The code's result says whether there was room.                          *)
Push(ring, frame) ==
  IF IsFull(ring) THEN ring
  ELSE [frames |-> [ring.frames EXCEPT ![Slot(ring, ring.len)] = frame],
        start |-> ring.start, len |-> ring.len + 1]

Oldest(ring) == ring.frames[ring.start + 1]

Pop(ring) ==
  IF ring.len = 0 THEN ring
  ELSE [frames |-> ring.frames, start |-> (ring.start + 1) % Len(ring.frames),
        len |-> ring.len - 1]

PushOver(ring, frame) ==
  IF IsFull(ring) THEN Push(Pop(ring), frame) ELSE Push(ring, frame)

-----------------------------------------------------------------------------
(* What a ring promises                                                    *)

Rings(S) ==
  {ring \in [frames : Seq(S), start : Nat, len : Nat] :
     ring.start < Len(ring.frames) /\ ring.len <= Len(ring.frames)}

(* The queue it stands for, the oldest frame first.                        *)
Queue(ring) == [i \in 1..ring.len |-> ring.frames[Slot(ring, i - 1)]]
=============================================================================
