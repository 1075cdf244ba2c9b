------------------------------ MODULE MCSession -----------------------------
(* A session, whose two rings only have levels, and what many frames in a  *)
(* row do to the ring itself: the queue and the levels that SessionBuffers *)
(* counts in one step. One frame is proved for every ring.                 *)
EXTENDS SessionBuffers, Fifo, SequencesExt

(* Rings of up to four places, filled and turned at every place, whose     *)
(* frames have numbers.                                                    *)
SomeRings ==
  {[frames |-> [i \in 1..c |-> i], start |-> s, len |-> l] : c \in 1..4, s \in 0..3, l \in 0..4}
    \cap Rings(1..4)

PushAll(ring, frames) == FoldLeft(PushOver, ring, frames)

Newest(frames, capacity) ==
  SubSeq(frames, AtLeastZero(Len(frames) - capacity) + 1, Len(frames))

ASSUME WritesKeepNewest ==
  \A ring \in SomeRings, n \in 0..9 :
    LET frames == [i \in 1..n |-> 10 + i]
        after == PushAll(ring, frames)
    IN  /\ Queue(after) = Newest(Queue(ring) \o frames, Len(ring.frames))
        /\ after.len = AtMost(ring.len + n, Len(ring.frames))

ASSUME RendersTakeOldest ==
  \A ring \in SomeRings, n \in 0..9 :
    LET after == FoldLeft(LAMBDA r, i : Pop(r), ring, [i \in 1..n |-> i])
    IN  /\ Queue(after) = SubSeq(Queue(ring), n + 1, ring.len)
        /\ after.len = AtLeastZero(ring.len - n)
=============================================================================
