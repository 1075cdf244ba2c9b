------------------------ MODULE SessionBuffersProofs ------------------------
(* Proofs about SessionBuffers, for every period, transfer, packet size    *)
(* and counter width. IInv is inductive; the properties follow from it.    *)
(* The last part is about the ring whose level SessionBuffers keeps.       *)
EXTENDS SessionBuffers, Fifo, TLAPS

(* The count of the period under way stays inside the period, and only     *)
(* whole periods are cut off it (`captured` in Buffers::capture).          *)
LEMMA CapturedWraps ==
  ASSUME NEW x \in Nat
  PROVE  /\ x % Period \in 0..Period - 1
         /\ x \div Period \in Nat
         /\ x = Period * (x \div Period) + (x % Period)
         /\ x < Period => (x % Period) = x
  BY SessionAssumption, SMTT(20) DEF SessionAssumption

(* A period whose frames are all unread leaves whole periods behind when   *)
(* it is read, and the quotient of the frames captured since joins those   *)
(* already complete.                                                       *)
LEMMA WholePeriods ==
  ASSUME NEW k \in Nat, NEW q \in Nat, NEW c \in Nat
  PROVE  /\ (k + q) * Period = k * Period + Period * q
         /\ k \in 0..(c + k * Period)
         /\ k > 0 => (k - 1) * Period = k * Period - Period
  BY SessionAssumption, SMTT(20) DEF SessionAssumption

(* n frames in, n frames out or played as silence: what the latency gains  *)
(* is what the silence gains.                                              *)
LEMMA Balance ==
  ASSUME NEW i \in Nat, NEW o \in Nat, NEW s \in Nat, NEW h \in Nat, NEW b \in Nat,
         NEW i1 \in Nat, NEW o1 \in Nat, NEW s1 \in Nat, NEW n \in Nat,
         i + h + o <= b + s,
         i1 <= i + n,
         o1 + s + n <= o + s1
  PROVE  i1 + h + o1 <= b + s1
  OBVIOUS

-----------------------------------------------------------------------------

LEMMA InitInvariant == Init => IInv
<1> SUFFICES ASSUME Init PROVE IInv
  OBVIOUS
<1> USE SessionAssumption DEF SessionAssumption, Init
<1>0. InputCapacity \in Nat /\ OutputCapacity \in Nat
  BY DEF InputCapacity, OutputCapacity
<1>1. TypeOK
  <2>1. /\ input \in 0..InputCapacity /\ output \in 0..OutputCapacity
        /\ captured \in 0..Period - 1 /\ silent \in 0..CountMax
        /\ dropped \in 0..CountMax /\ left \in 0..Packets
    BY <1>0
  <2>2. event \in BOOLEAN /\ answered \in BOOLEAN /\ overrun \in BOOLEAN
    BY Zenon
  <2>3. QED
    BY <2>1, <2>2 DEF TypeOK
<1>2. LatencyNeverShrinks /\ LatencyGrowsBySilence /\ DropsFollowSilence
  BY DEF LatencyNeverShrinks, LatencyGrowsBySilence, DropsFollowSilence,
         Latency, Held, OutputCapacity
<1>3. BacklogBounded
  BY DEF BacklogBounded
<1>4. Aligned
  <2>1. 0 \in 0..input /\ input = captured + 0 * Period
    OBVIOUS
  <2>2. QED
    BY <2>1 DEF Aligned
<1>5. OverrunSeen
  BY DEF OverrunSeen
<1>6. QED
  BY <1>1, <1>2, <1>3, <1>4, <1>5 DEF IInv

(* The one step that moves frames both ways, under the audio lock.         *)
LEMMA PacketInvariant ==
  ASSUME IInv, NEW n \in 0..PacketMax, Packet(n)
  PROVE  IInv'
<1> USE SessionAssumption DEF SessionAssumption
<1>0. n \in Nat /\ captured \in Nat /\ captured + n \in Nat
  BY DEF IInv, TypeOK
<1>1. /\ captured' \in 0..Period - 1
      /\ captured + n = Period * ((captured + n) \div Period) + captured'
      /\ (captured + n) \div Period \in Nat
      /\ captured + n < Period => captured' = captured + n
  BY <1>0, CapturedWraps DEF Packet, Capture
<1>2. TypeOK'
  BY <1>0, <1>1 DEF IInv, TypeOK, Packet, Capture, Render, AtMost, AtLeastZero,
                    InputCapacity, OutputCapacity
<1>3. LatencyNeverShrinks'
  BY <1>0 DEF IInv, TypeOK, LatencyNeverShrinks, Packet, Capture, Render, AtMost,
              AtLeastZero, InputCapacity, OutputCapacity, Latency, Held
<1>4. LatencyGrowsBySilence'
  <2> SUFFICES ASSUME ~overrun', silent' < CountMax
               PROVE  Latency' <= OutputCapacity + silent'
    BY DEF LatencyGrowsBySilence
  <2>1. ~overrun /\ silent <= silent'
    BY <1>0 DEF IInv, TypeOK, Packet, Render, AtMost, AtLeastZero, OutputCapacity
  <2>2. answered
    BY <2>1 DEF IInv, OverrunSeen, Packet
  <2>3. Latency <= OutputCapacity + silent
    <3>1. silent < CountMax
      BY <1>2, <2>1 DEF IInv, TypeOK
    <3>2. QED
      BY <2>1, <3>1 DEF IInv, LatencyGrowsBySilence
  <2>4. input' <= input + n /\ Held' = Held
    BY <1>0 DEF IInv, TypeOK, Packet, Capture, AtMost, InputCapacity, Held
  <2>5. output' + silent + n <= output + silent'
    <3>1. output \in Nat /\ silent \in Nat
      BY DEF IInv, TypeOK, OutputCapacity
    <3>2. /\ output' = AtLeastZero(output - n)
          /\ silent' = AtMost(silent + AtLeastZero(n - output), CountMax)
      BY <2>2 DEF Packet, Render
    <3>3. silent' = silent + AtLeastZero(n - output)
      BY <1>0, <3>1, <3>2 DEF AtMost, AtLeastZero
    <3>4. QED
      BY <1>0, <3>1, <3>2, <3>3 DEF AtLeastZero
  <2>6. /\ input \in Nat /\ output \in Nat /\ silent \in Nat /\ Held \in Nat
        /\ input' \in Nat /\ output' \in Nat /\ silent' \in Nat
        /\ OutputCapacity \in Nat
    BY <1>2 DEF IInv, TypeOK, Held, InputCapacity, OutputCapacity
  <2>7. Latency = input + Held + output /\ Latency' = input' + Held' + output'
    BY DEF Latency
  <2>8. input' + Held + output' <= OutputCapacity + silent'
    <3>1. input + Held + output <= OutputCapacity + silent
      BY <2>3, <2>7
    <3>2. QED
      BY <1>0, <2>4, <2>5, <2>6, <3>1, Balance
  <2>9. QED
    BY <2>4, <2>7, <2>8
<1>5. DropsFollowSilence'
  BY <1>0 DEF IInv, TypeOK, LatencyGrowsBySilence, DropsFollowSilence, Packet, Capture,
              Render, AtMost, AtLeastZero, InputCapacity, OutputCapacity, Latency, Held
<1>6. BacklogBounded'
  <2> SUFFICES ASSUME worker' = "wait", ~event'
               PROVE  input' <= Period - 1 + captured'
    BY DEF BacklogBounded
  <2>1. worker = "wait" /\ ~event /\ captured + n < Period
    <3>1. event' = (event \/ captured + n >= Period) /\ worker = "wait"
      BY DEF Packet, Capture
    <3>2. worker = "wait" /\ ~event /\ ~(captured + n >= Period)
      BY <3>1, Zenon
    <3>3. ~(captured + n >= Period) => captured + n < Period
      BY <1>0
    <3>4. QED
      BY <3>2, <3>3, Zenon
  <2>2. captured' = captured + n /\ input' <= input + n
    BY <1>0, <1>1, <2>1 DEF IInv, TypeOK, Packet, Capture, AtMost, InputCapacity
  <2>3. QED
    BY <1>0, <1>2, <2>1, <2>2 DEF IInv, TypeOK, BacklogBounded, InputCapacity
<1>7. Aligned'
  <2> SUFFICES ASSUME dropped' = 0
               PROVE  \E k \in 0..input' : input' = captured' + k * Period
    BY DEF Aligned
  <2>1. dropped = 0 /\ input' = input + n
    BY <1>0 DEF IInv, TypeOK, Packet, Capture, AtMost, AtLeastZero, InputCapacity
  <2>2. PICK k \in 0..input : input = captured + k * Period
    BY <2>1 DEF IInv, Aligned
  <2> DEFINE q == (captured + n) \div Period
  <2>3. k \in Nat /\ q \in Nat
    BY <1>1 DEF IInv, TypeOK
  <2> HIDE DEF q
  <2>4. input' = captured' + (k * Period + Period * q)
    <3>1. captured + n = Period * q + captured'
      BY <1>1 DEF q
    <3>2. k * Period \in Nat /\ Period * q \in Nat
      BY <2>3
    <3>3. QED
      BY <1>0, <1>1, <2>1, <2>2, <3>1, <3>2
  <2>5. input' = captured' + (k + q) * Period
    BY <2>3, <2>4, WholePeriods
  <2>6. k + q \in 0..input'
    <3>1. k + q \in Nat /\ captured' \in Nat
      BY <1>1, <2>3
    <3>2. k + q \in 0..(captured' + (k + q) * Period)
      BY <3>1, WholePeriods
    <3>3. QED
      BY <2>5, <3>2
  <2>7. QED
    BY <2>5, <2>6
<1>8. OverrunSeen'
  BY <1>0 DEF IInv, TypeOK, OverrunSeen, Packet
<1>9. QED
  BY <1>2, <1>3, <1>4, <1>5, <1>6, <1>7, <1>8 DEF IInv

(* Reading a complete period moves it from the ring to the thread.         *)
LEMMA ReadInvariant == IInv /\ Read => IInv'
<1> SUFFICES ASSUME IInv, Read PROVE IInv'
  OBVIOUS
<1> USE SessionAssumption DEF SessionAssumption
<1>1. TypeOK'
  BY DEF IInv, TypeOK, Read, InputCapacity, OutputCapacity
<1>2. LatencyNeverShrinks' /\ LatencyGrowsBySilence' /\ DropsFollowSilence'
  BY DEF IInv, TypeOK, LatencyNeverShrinks, LatencyGrowsBySilence, DropsFollowSilence,
         Read, Latency, Held, OutputCapacity
<1>3. BacklogBounded'
  BY DEF IInv, TypeOK, BacklogBounded, Read, InputCapacity
<1>4. Aligned'
  <2> SUFFICES ASSUME dropped' = 0
               PROVE  \E k \in 0..input' : input' = captured' + k * Period
    BY DEF Aligned
  <2>1. PICK k \in 0..input : input = captured + k * Period
    BY DEF IInv, Aligned, Read
  <2>2. k \in Nat /\ captured \in 0..Period - 1 /\ captured' = captured /\ input \in Nat
    BY DEF IInv, TypeOK, Read
  <2>3. CASE input < Period
    <3>1. input' = input
      BY <2>2, <2>3 DEF Read
    <3>2. QED
      BY <2>1, <2>2, <3>1
  <2>4. CASE input >= Period
    <3>1. k > 0
      <4>1. k = 0 => k * Period = 0
        OBVIOUS
      <4>2. QED
        BY <2>1, <2>2, <2>4, <4>1
    <3>2. k - 1 \in Nat /\ k * Period \in Nat
      BY <2>2, <3>1
    <3>3. (k - 1) * Period = k * Period - Period
      BY <2>2, <3>1, WholePeriods
    <3>4. input' = captured' + (k - 1) * Period
      BY <2>1, <2>2, <2>4, <3>2, <3>3 DEF Read
    <3>5. k - 1 \in 0..(captured' + (k - 1) * Period)
      BY <2>2, <3>2, WholePeriods
    <3>6. QED
      BY <3>4, <3>5
  <2>5. QED
    BY <2>2, <2>3, <2>4
<1>5. OverrunSeen'
  BY DEF IInv, OverrunSeen, Read
<1>6. QED
  BY <1>1, <1>2, <1>3, <1>4, <1>5 DEF IInv

(* Queueing the answer puts it back, dropping what the ring cannot hold.   *)
LEMMA WriteInvariant == IInv /\ Write => IInv'
<1> SUFFICES ASSUME IInv, Write PROVE IInv'
  OBVIOUS
<1> USE SessionAssumption DEF SessionAssumption
<1>1. TypeOK'
  BY DEF IInv, TypeOK, Write, AtMost, InputCapacity, OutputCapacity
<1>2. LatencyNeverShrinks' /\ LatencyGrowsBySilence' /\ DropsFollowSilence'
  BY DEF IInv, TypeOK, LatencyNeverShrinks, LatencyGrowsBySilence, DropsFollowSilence,
         Write, AtMost, Latency, Held, OutputCapacity, InputCapacity
<1>3. BacklogBounded' /\ Aligned' /\ OverrunSeen'
  BY DEF IInv, BacklogBounded, Aligned, OverrunSeen, Write
<1>4. QED
  BY <1>1, <1>2, <1>3 DEF IInv

LEMMA NextInvariant == IInv /\ [Next]_vars => IInv'
<1> SUFFICES ASSUME IInv, [Next]_vars PROVE IInv'
  OBVIOUS
<1>1. CASE Answer
  <2> USE SessionAssumption DEF SessionAssumption
  <2>1. left' \in 0..Packets /\ answered' \in BOOLEAN /\ overrun' \in BOOLEAN
    BY <1>1 DEF Answer
  <2>2. overrun' = (overrun \/ ~answered')
    BY <1>1 DEF Answer
  <2>3. (~overrun' => ~overrun) /\ (~answered' => overrun')
    BY <2>2, Zenon
  <2>4. TypeOK'
    BY <1>1, <2>1 DEF IInv, TypeOK, Answer, InputCapacity, OutputCapacity
  <2>5. Latency' = Latency
    BY <1>1 DEF Answer, Latency, Held
  <2>6. /\ LatencyNeverShrinks' /\ LatencyGrowsBySilence' /\ DropsFollowSilence'
        /\ BacklogBounded' /\ Aligned' /\ OverrunSeen'
    BY <1>1, <2>3, <2>5
       DEF IInv, LatencyNeverShrinks, LatencyGrowsBySilence, DropsFollowSilence,
           BacklogBounded, Aligned, OverrunSeen, Answer, OutputCapacity
  <2>7. QED
    BY <2>4, <2>6 DEF IInv
<1>2. ASSUME NEW n \in 0..PacketMax, Packet(n) PROVE IInv'
  BY <1>2, PacketInvariant
<1>3. CASE Wake
  BY <1>3 DEF IInv, TypeOK, LatencyNeverShrinks, LatencyGrowsBySilence, DropsFollowSilence,
              BacklogBounded, Aligned, OverrunSeen, Wake, Latency, Held, OutputCapacity, InputCapacity
<1>4. CASE Read
  BY <1>4, ReadInvariant
<1>5. CASE Write
  BY <1>5, WriteInvariant
<1>6. CASE UNCHANGED vars
  BY <1>6 DEF vars, IInv, TypeOK, LatencyNeverShrinks, LatencyGrowsBySilence,
              DropsFollowSilence, BacklogBounded, Aligned, OverrunSeen, Latency, Held,
              OutputCapacity, InputCapacity
<1>7. QED
  BY <1>1, <1>2, <1>3, <1>4, <1>5, <1>6 DEF Next

(* The inductive invariant holds of every behaviour of a session.          *)
THEOREM Invariance == Spec => []IInv
<1>1. QED
  BY InitInvariant, NextInvariant, PTL DEF Spec

-----------------------------------------------------------------------------

(* The rings, counters and the period count stay within their ranges.      *)
THEOREM TypeCorrect == Spec => []TypeOK
<1>1. IInv => TypeOK
  BY DEF IInv
<1>2. QED
  BY <1>1, Invariance, PTL

(* Output is never played before its turn, whatever is dropped, and later  *)
(* only by the silence that was heard, for every period, transfer and      *)
(* packet size (Buffers::capture, render, write).                          *)
THEOREM LatencyIsSilence == Spec => []LatencyBounded
<1>1. IInv => LatencyBounded
  BY DEF IInv, LatencyBounded
<1>2. QED
  BY <1>1, Invariance, PTL

(* Input is dropped only after silence was heard: Buffers' input ring      *)
(* outlasts its output ring for every period and transfer.                 *)
THEOREM SilenceFirst == Spec => []DropsFollowSilence
<1>1. IInv => DropsFollowSilence
  BY DEF IInv
<1>2. QED
  BY <1>1, Invariance, PTL

(* A thread that waits with the event clear has no more than the frames of *)
(* the period under way unread, as long as none was dropped.               *)
LEMMA WaitingMeansDrained ==
  ASSUME IInv, worker = "wait", ~event, dropped = 0
  PROVE  input = captured
<1> USE SessionAssumption DEF SessionAssumption
<1>1. PICK k \in 0..input : input = captured + k * Period
  BY DEF IInv, Aligned
<1>2. k \in Nat /\ captured \in Nat /\ input \in Nat /\ k * Period \in Nat
  BY <1>1 DEF IInv, TypeOK
<1>3. k * Period < Period
  BY <1>1, <1>2 DEF IInv, BacklogBounded
<1>4. k = 0
  <2>1. k > 0 => (k - 1) \in Nat /\ (k - 1) * Period \in Nat
    BY <1>2
  <2>2. k > 0 => (k - 1) * Period = k * Period - Period
    BY <1>2, WholePeriods
  <2>3. QED
    BY <1>2, <1>3, <2>1, <2>2
<1>5. k * Period = 0
  BY <1>4
<1>6. QED
  BY <1>1, <1>2, <1>5

(* The auto-reset event of a session loses no wake-up, for every period    *)
(* and packet size (Session::capture, Worker::run and drain).              *)
THEOREM NoLostWakeup == Spec => []NoPeriodForgotten
<1>1. IInv => NoPeriodForgotten
  BY WaitingMeansDrained DEF IInv, BacklogBounded, NoPeriodForgotten
<1>2. QED
  BY <1>1, Invariance, PTL

(* After silence the session returns to the latency it started with, as    *)
(* long as no input frame was dropped (Buffers' doc).                      *)
THEOREM SameLatencyWithoutDrops == Spec => []LatencyRestored
<1>1. ASSUME IInv PROVE LatencyRestored
  <2> SUFFICES ASSUME dropped = 0, worker = "wait", ~event, captured = 0
               PROVE  Latency = OutputCapacity
    BY DEF LatencyRestored
  <2>1. input = 0
    BY <1>1, WaitingMeansDrained
  <2>2. QED
    BY <1>1, <2>1, SessionAssumption
       DEF IInv, TypeOK, LatencyNeverShrinks, Latency, Held, OutputCapacity, SessionAssumption
<1>2. QED
  BY <1>1, Invariance, PTL

(* A step that plays silence ends with more than a period beyond the one   *)
(* the host may hold waiting to be read: silence is the host's lateness.   *)
THEOREM SilenceIsLateness == Spec => SilenceMeansLate
<1>1. ASSUME IInv, [Next]_vars, silent' # silent
      PROVE  input' + Held >= OutputCapacity
  <2>1. PICK n \in 0..PacketMax : Packet(n) /\ answered
    BY <1>1 DEF Next, vars, Answer, Wake, Read, Write, Packet
  <2>2. output' = 0
    BY <1>1, <2>1, SessionAssumption
       DEF IInv, TypeOK, Packet, Render, AtMost, AtLeastZero, SessionAssumption,
           OutputCapacity
  <2>3. IInv'
    BY <1>1, NextInvariant
  <2>4. Held' = Held
    BY <2>1 DEF Packet, Held
  <2>5. input' + Held' + output' >= OutputCapacity
    BY <2>3 DEF IInv, LatencyNeverShrinks, Latency, Held, OutputCapacity
  <2>6. input' \in Nat /\ Held \in Nat
    BY <1>1, <2>3, SessionAssumption DEF IInv, TypeOK, Held, SessionAssumption
  <2>7. QED
    BY <2>2, <2>4, <2>5, <2>6
<1>2. QED
  BY <1>1, Invariance, PTL DEF Spec, SilenceMeansLate

-----------------------------------------------------------------------------
(* The ring behind the levels                                              *)

(* Places are found by one wrap at most.                                   *)
WrapsOnce(a, n) == (a < n => a % n = a) /\ (a >= n => a % n = a - n)

LEMMA Wraps ==
  ASSUME NEW n \in Nat \ {0}, NEW a \in 0..(2 * n - 1)
  PROVE  WrapsOnce(a, n)
<1>1. a \div n \in Int /\ a % n \in 0..(n - 1) /\ a = n * (a \div n) + (a % n)
  OBVIOUS
<1>2. ASSUME a < n PROVE a % n = a
  BY <1>2, SMTT(20)
<1>3. ASSUME a >= n PROVE a % n = a - n
  <2>1. a - n \in 0..(n - 1) /\ a = n + (a - n)
    BY <1>3
  <2>2. (a - n) % n = a - n
    BY <2>1, SMTT(20)
  <2>3. a % n = (a - n) % n
    BY <2>1, SMTT(20)
  <2> QED BY <2>2, <2>3
<1> QED BY <1>2, <1>3 DEF WrapsOnce

LEMMA Slots ==
  ASSUME NEW S, NEW ring \in Rings(S), NEW i \in 0..(Len(ring.frames) - 1)
  PROVE  /\ Slot(ring, i) \in 1..Len(ring.frames)
         /\ ring.start + i < Len(ring.frames) => Slot(ring, i) = ring.start + i + 1
         /\ ring.start + i >= Len(ring.frames)
              => Slot(ring, i) = ring.start + i - Len(ring.frames) + 1
<1>1. /\ Len(ring.frames) \in Nat \ {0} /\ ring.start \in 0..(Len(ring.frames) - 1)
      /\ ring.start + i \in 0..(2 * Len(ring.frames) - 1)
  BY DEF Rings
<1>2. WrapsOnce(ring.start + i, Len(ring.frames))
  BY <1>1, Wraps
<1>3. /\ ring.start + i < Len(ring.frames)
           => (ring.start + i) % Len(ring.frames) = ring.start + i
      /\ ring.start + i >= Len(ring.frames)
           => (ring.start + i) % Len(ring.frames) = ring.start + i - Len(ring.frames)
  BY <1>1, <1>2 DEF WrapsOnce
<1> DEFINE rest == (ring.start + i) % Len(ring.frames)
<1>4. Slot(ring, i) = rest + 1
  BY DEF Slot
<1>5. /\ ring.start + i < Len(ring.frames) => rest = ring.start + i
      /\ ring.start + i >= Len(ring.frames) => rest = ring.start + i - Len(ring.frames)
  BY <1>3
<1> HIDE DEF rest
<1>6. CASE ring.start + i < Len(ring.frames)
  <2>1. Slot(ring, i) = ring.start + i + 1
    BY <1>1, <1>4, <1>5, <1>6
  <2> QED BY <1>1, <1>6, <2>1
<1>7. CASE ring.start + i >= Len(ring.frames)
  <2>1. Slot(ring, i) = ring.start + i - Len(ring.frames) + 1
    BY <1>1, <1>4, <1>5, <1>7
  <2> QED BY <1>1, <1>7, <2>1
<1> QED BY <1>1, <1>6, <1>7

LEMMA SlotsDiffer ==
  ASSUME NEW S, NEW ring \in Rings(S), NEW i \in 0..(Len(ring.frames) - 1),
         NEW j \in 0..(Len(ring.frames) - 1), Slot(ring, i) = Slot(ring, j)
  PROVE  i = j
<1>1. Len(ring.frames) \in Nat /\ ring.start \in 0..(Len(ring.frames) - 1)
  BY DEF Rings
<1>2. /\ ring.start + i < Len(ring.frames) => Slot(ring, i) = ring.start + i + 1
      /\ ring.start + i >= Len(ring.frames)
           => Slot(ring, i) = ring.start + i - Len(ring.frames) + 1
  BY Slots
<1>3. /\ ring.start + j < Len(ring.frames) => Slot(ring, j) = ring.start + j + 1
      /\ ring.start + j >= Len(ring.frames)
           => Slot(ring, j) = ring.start + j - Len(ring.frames) + 1
  BY Slots
<1>4. CASE ring.start + i < Len(ring.frames) /\ ring.start + j < Len(ring.frames)
  BY <1>1, <1>2, <1>3, <1>4
<1>5. CASE ring.start + i >= Len(ring.frames) /\ ring.start + j >= Len(ring.frames)
  BY <1>1, <1>2, <1>3, <1>5
<1>6. CASE ring.start + i < Len(ring.frames) /\ ring.start + j >= Len(ring.frames)
  BY <1>1, <1>2, <1>3, <1>6
<1>7. CASE ring.start + i >= Len(ring.frames) /\ ring.start + j < Len(ring.frames)
  BY <1>1, <1>2, <1>3, <1>7
<1> QED BY <1>1, <1>4, <1>5, <1>6, <1>7

LEMMA SameFrames ==
  ASSUME NEW S, NEW f \in Seq(S), NEW g \in Seq(S), Len(f) = Len(g),
         \A i \in 1..Len(f) : f[i] = g[i]
  PROVE  f = g
  OBVIOUS

(* The queue of a ring has the length that SessionBuffers counts           *)
(* (`Fifo::len`).                                                          *)
LEMMA QueueLength ==
  ASSUME NEW S, NEW ring \in Rings(S)
  PROVE  Queue(ring) \in Seq(S) /\ Len(Queue(ring)) = ring.len
<1>1. ring.len \in Nat /\ ring.len <= Len(ring.frames) /\ Len(ring.frames) \in Nat
      /\ ring.frames \in Seq(S)
  BY DEF Rings
<1>2. ASSUME NEW i \in 1..ring.len
      PROVE  ring.frames[Slot(ring, i - 1)] \in S
  <2>1. i - 1 \in 0..(Len(ring.frames) - 1)
    BY <1>1
  <2>2. Slot(ring, i - 1) \in 1..Len(ring.frames)
    BY <2>1, Slots
  <2> QED BY <1>1, <2>2
<1> QED BY <1>1, <1>2 DEF Queue

(* A frame is appended to the queue if there is room (`Fifo::push`).       *)
THEOREM PushAppends ==
  ASSUME NEW S, NEW ring \in Rings(S), NEW frame \in S, ~IsFull(ring)
  PROVE  /\ Push(ring, frame) \in Rings(S)
         /\ Queue(Push(ring, frame)) = Append(Queue(ring), frame)
<1> DEFINE n == Len(ring.frames)
           after == Push(ring, frame)
           place == Slot(ring, ring.len)
<1>1. /\ n \in Nat /\ ring.len \in 0..(n - 1) /\ ring.start \in 0..(n - 1)
      /\ ring.frames \in Seq(S)
  BY DEF Rings, IsFull
<1>2. place \in 1..n
  BY <1>1, Slots
<1>3. after = [frames |-> [ring.frames EXCEPT ![place] = frame],
               start |-> ring.start, len |-> ring.len + 1]
  BY DEF Push
<1> HIDE DEF after, place
<1>4. /\ after.frames \in Seq(S) /\ Len(after.frames) = n
      /\ after.start = ring.start /\ after.len = ring.len + 1
      /\ after.frames[place] = frame
      /\ \A k \in 1..n : k # place => after.frames[k] = ring.frames[k]
  BY <1>1, <1>2, <1>3
<1>5. after \in Rings(S)
  BY <1>1, <1>3, <1>4 DEF Rings
<1>6. Queue(ring) \in Seq(S) /\ Len(Queue(ring)) = ring.len
  BY QueueLength
<1>7. Queue(after) \in Seq(S) /\ Len(Queue(after)) = ring.len + 1
  BY <1>4, <1>5, QueueLength
<1>8. ASSUME NEW i \in 1..(ring.len + 1)
      PROVE  Queue(after)[i] = Append(Queue(ring), frame)[i]
  <2>1. i - 1 \in 0..(n - 1) /\ ring.len \in 0..(n - 1)
    BY <1>1
  <2>2. Slot(after, i - 1) = Slot(ring, i - 1) /\ Slot(ring, i - 1) \in 1..n
    BY <1>4, <2>1, Slots DEF Slot
  <2>3. Queue(after)[i] = after.frames[Slot(ring, i - 1)]
    BY <1>4, <2>2 DEF Queue
  <2>4. CASE i = ring.len + 1
    <3>1. Slot(ring, i - 1) = place
      BY <1>1, <2>4 DEF place
    <3>2. Append(Queue(ring), frame)[i] = frame
      BY <1>6, <2>4
    <3> QED BY <1>4, <2>3, <3>1, <3>2
  <2>5. CASE i # ring.len + 1
    <3>1. i \in 1..ring.len
      BY <1>1, <2>5
    <3>2. Slot(ring, i - 1) # place
      <4>1. i - 1 # ring.len
        BY <1>1, <2>5
      <4> QED BY <2>1, <4>1, SlotsDiffer DEF place
    <3>3. Append(Queue(ring), frame)[i] = Queue(ring)[i]
      BY <1>6, <3>1
    <3>4. Queue(ring)[i] = ring.frames[Slot(ring, i - 1)]
      BY <3>1 DEF Queue
    <3> QED BY <1>4, <2>2, <2>3, <3>2, <3>3, <3>4
  <2> QED BY <2>4, <2>5
<1>9. Append(Queue(ring), frame) \in Seq(S) /\ Len(Append(Queue(ring), frame)) = ring.len + 1
  BY <1>6
<1>10. Queue(after) = Append(Queue(ring), frame)
  BY <1>1, <1>7, <1>8, <1>9, SameFrames
<1> QED BY <1>5, <1>10 DEF after

(* The oldest frame leaves the queue (`Fifo::pop`).                        *)
THEOREM PopTakesOldest ==
  ASSUME NEW S, NEW ring \in Rings(S), ring.len > 0
  PROVE  /\ Pop(ring) \in Rings(S)
         /\ Oldest(ring) = Head(Queue(ring))
         /\ Queue(Pop(ring)) = Tail(Queue(ring))
<1> DEFINE n == Len(ring.frames)
           after == Pop(ring)
<1>1. /\ n \in Nat \ {0} /\ ring.len \in 1..n /\ ring.start \in 0..(n - 1)
      /\ ring.frames \in Seq(S) /\ 0 \in 0..(n - 1)
  BY DEF Rings
<1>2. after = [frames |-> ring.frames, start |-> (ring.start + 1) % n, len |-> ring.len - 1]
  BY <1>1 DEF Pop
<1>3. /\ ring.start + 1 < n => (ring.start + 1) % n = ring.start + 1
      /\ ring.start + 1 >= n => (ring.start + 1) % n = 0
  <2>1. ring.start + 1 \in 0..(2 * n - 1)
    BY <1>1
  <2>2. WrapsOnce(ring.start + 1, n)
    BY <1>1, <2>1, Wraps
  <2>3. /\ ring.start + 1 < n => (ring.start + 1) % n = ring.start + 1
        /\ ring.start + 1 >= n => (ring.start + 1) % n = ring.start + 1 - n
    BY <1>1, <2>2 DEF WrapsOnce
  <2>4. ring.start + 1 >= n => ring.start + 1 - n = 0
    BY <1>1
  <2> QED BY <2>3, <2>4
<1> HIDE DEF after
<1>4. /\ after.frames = ring.frames /\ after.len = ring.len - 1
      /\ ring.start + 1 < n => after.start = ring.start + 1
      /\ ring.start + 1 >= n => after.start = 0
  BY <1>2, <1>3
<1>5. after \in Rings(S)
  BY <1>1, <1>2, <1>3 DEF Rings
<1>6. Queue(ring) \in Seq(S) /\ Len(Queue(ring)) = ring.len
  BY QueueLength
<1>7. Queue(after) \in Seq(S) /\ Len(Queue(after)) = ring.len - 1
  BY <1>4, <1>5, QueueLength
<1>8. Oldest(ring) = Head(Queue(ring))
  <2>1. Slot(ring, 0) = ring.start + 1
    <3>1. ring.start + 0 = ring.start /\ ring.start + 0 < n
      BY <1>1
    <3>2. ring.start + 0 < n => Slot(ring, 0) = ring.start + 0 + 1
      BY <1>1, Slots
    <3> QED BY <3>1, <3>2
  <2>2. Queue(ring)[1] = ring.frames[Slot(ring, 0)]
    BY <1>1 DEF Queue
  <2> QED BY <1>6, <1>1, <2>1, <2>2 DEF Oldest
<1>9. ASSUME NEW i \in 1..(ring.len - 1)
      PROVE  Queue(after)[i] = Tail(Queue(ring))[i]
  <2>1. i - 1 \in 0..(n - 1) /\ i \in 0..(n - 1)
    BY <1>1
  <2>2. Slot(after, i - 1) = Slot(ring, i)
    <3>1. /\ ring.start + i < n => Slot(ring, i) = ring.start + i + 1
          /\ ring.start + i >= n => Slot(ring, i) = ring.start + i - n + 1
      BY <2>1, Slots
    <3>2. /\ after.start + (i - 1) < n => Slot(after, i - 1) = after.start + (i - 1) + 1
          /\ after.start + (i - 1) >= n
               => Slot(after, i - 1) = after.start + (i - 1) - n + 1
      BY <1>4, <1>5, <2>1, Slots
    <3>3. n \in Nat /\ ring.start \in 0..(n - 1) /\ i \in 1..(n - 1)
      BY <1>1
    <3> HIDE DEF n
    <3>4. CASE ring.start + 1 < n
      BY <1>4, <3>1, <3>2, <3>3, <3>4
    <3>5. CASE ring.start + 1 >= n
      BY <1>4, <3>1, <3>2, <3>3, <3>5
    <3> QED BY <3>3, <3>4, <3>5
  <2>3. Queue(after)[i] = ring.frames[Slot(ring, i)]
    BY <1>4, <2>2 DEF Queue
  <2>4. i + 1 \in 1..ring.len /\ (i + 1) - 1 = i
    BY <1>1
  <2>5. Queue(ring)[i + 1] = ring.frames[Slot(ring, i)]
    BY <2>4 DEF Queue
  <2>6. Tail(Queue(ring))[i] = Queue(ring)[i + 1]
    BY <1>1, <1>6
  <2> QED BY <2>3, <2>5, <2>6
<1>10. Tail(Queue(ring)) \in Seq(S) /\ Len(Tail(Queue(ring))) = ring.len - 1
  BY <1>1, <1>6
<1>11. Queue(after) = Tail(Queue(ring))
  BY <1>1, <1>7, <1>9, <1>10
<1> QED BY <1>5, <1>8, <1>11 DEF after

(* A full ring makes room by dropping its oldest frame, and is full again  *)
(* (`Fifo::push_over`): what Capture and Write of SessionBuffers count.    *)
THEOREM PushOverDropsOldest ==
  ASSUME NEW S, NEW ring \in Rings(S), NEW frame \in S
  PROVE  /\ PushOver(ring, frame) \in Rings(S)
         /\ Queue(PushOver(ring, frame))
              = Append(IF IsFull(ring) THEN Tail(Queue(ring)) ELSE Queue(ring), frame)
         /\ PushOver(ring, frame).len = AtMost(ring.len + 1, Len(ring.frames))
<1>1. ring.len \in Nat /\ Len(ring.frames) \in Nat /\ ring.len <= Len(ring.frames)
      /\ Len(ring.frames) > 0
  BY DEF Rings
<1>2. CASE IsFull(ring)
  <2> DEFINE room == Pop(ring)
  <2>1. ring.len > 0
    BY <1>1, <1>2 DEF IsFull
  <2>2. room \in Rings(S) /\ Queue(room) = Tail(Queue(ring))
    BY <2>1, PopTakesOldest
  <2>3. room.len = ring.len - 1 /\ Len(room.frames) = Len(ring.frames)
    BY <2>1 DEF Pop
  <2>4. ~IsFull(room)
    BY <1>1, <1>2, <2>3 DEF IsFull
  <2> HIDE DEF room
  <2>5. Push(room, frame) \in Rings(S)
        /\ Queue(Push(room, frame)) = Append(Tail(Queue(ring)), frame)
    BY <2>2, <2>4, PushAppends
  <2>6. Push(room, frame).len = ring.len
    BY <1>1, <2>3, <2>4 DEF Push
  <2>7. PushOver(ring, frame) = Push(room, frame)
    BY <1>2 DEF PushOver, room
  <2> QED BY <1>1, <1>2, <2>5, <2>6, <2>7 DEF IsFull, AtMost
<1>3. CASE ~IsFull(ring)
  <2>1. PushOver(ring, frame) = Push(ring, frame)
    BY <1>3 DEF PushOver
  <2>2. Push(ring, frame).len = ring.len + 1 /\ ring.len + 1 <= Len(ring.frames)
    BY <1>1, <1>3 DEF Push, IsFull
  <2> QED BY <1>1, <1>3, <2>1, <2>2, PushAppends DEF AtMost
<1> QED BY <1>2, <1>3
=============================================================================
