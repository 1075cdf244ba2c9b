--------------------------- MODULE SessionBuffers ---------------------------
(***************************************************************************)
(* The frames of one ASIO session on their way between the card and the    *)
(* host (crates/ak1-proto/src/asio.rs, `Buffers`), together with the two   *)
(* threads that move them:                                                 *)
(*   - the completion routine of a capture transfer, which holds the audio *)
(*     lock for the whole transfer, captures the frames of each packet and *)
(*     renders as many (driver/ak1-acx/src/stream.rs, `answer`);           *)
(*   - the streaming thread of the ASIO driver, which waits for the period *)
(*     event and reads, switches and writes until no period is complete    *)
(*     (asio/src/duplex.rs, `run` and `drain`).                            *)
(* Only the number of frames in each ring is kept: both are FIFOs whose    *)
(* oldest frame makes room, so the latency of a frame is the number of     *)
(* frames ahead of it.                                                     *)
(***************************************************************************)
EXTENDS Integers

CONSTANTS
  Period,      \* frames per period, chosen by the host
  Transfer,    \* frames a transfer holds at the nominal rate
  PacketMax,   \* most frames one packet holds
  Packets,     \* packets per transfer (PACKETS_PER_TRANSFER)
  CountMax     \* where the counters saturate (u32::MAX)

ASSUME SessionAssumption ==
  /\ Period \in Nat \ {0}
  /\ Transfer \in Nat
  /\ PacketMax \in Nat /\ PacketMax <= Transfer
  /\ Packets \in Nat \ {0}
  /\ CountMax \in Nat \ {0}

VARIABLES
  input,      \* frames captured and not read (input.len)
  output,     \* frames written and not played (output.len)
  captured,   \* frames captured of the period under way
  silent,     \* silent_frames
  dropped,    \* dropped_frames
  event,      \* whether the period event is signalled
  worker,     \* where the streaming thread is
  left,       \* packets left of the transfer being answered; > 0: the lock is held
  answered,   \* whether that transfer found a free playback transfer
  overrun     \* ghost: some transfer found none

vars == <<input, output, captured, silent, dropped, event, worker, left, answered, overrun>>

(* Mutant: an input ring without room for the periods of a late host.      *)
InputCapacity_TwoPeriods == 2 * Period

InputCapacity == 4 * Period + 2 * Transfer

OutputCapacity == 2 * Period + Transfer

(* The period the streaming thread has read and not written back. *)
Held == IF worker = "write" THEN Period ELSE 0

(* Frames between the one captured next and its answer, the latency of     *)
(* the session in frames.                                                  *)
Latency == input + Held + output

AtMost(n, bound) == IF n <= bound THEN n ELSE bound

AtLeastZero(n) == IF n >= 0 THEN n ELSE 0

LockFree == left = 0

-----------------------------------------------------------------------------

(* Mutant: the output ring starts without the transfer.                    *)
Init_ShortStart ==
  /\ input = 0
  /\ output = 2 * Period
  /\ captured = 0
  /\ silent = 0
  /\ dropped = 0
  /\ event = FALSE
  /\ worker = "wait"
  /\ left = 0
  /\ answered = FALSE
  /\ overrun = FALSE

Init ==
  /\ input = 0
  /\ output = OutputCapacity
  /\ captured = 0
  /\ silent = 0
  /\ dropped = 0
  /\ event = FALSE
  /\ worker = "wait"
  /\ left = 0
  /\ answered = FALSE
  /\ overrun = FALSE

(* A capture transfer completes; it may find every playback transfer busy. *)
Answer ==
  /\ LockFree
  /\ left' = Packets
  /\ answered' \in BOOLEAN
  /\ overrun' = (overrun \/ ~answered')
  /\ UNCHANGED <<input, output, captured, silent, dropped, event, worker>>

(* Captures n frames, dropping the oldest when the ring is full; each      *)
(* completed period signals the event.                                     *)
Capture(n) ==
  /\ input' = AtMost(input + n, InputCapacity)
  /\ dropped' = AtMost(dropped + AtLeastZero(input + n - InputCapacity), CountMax)
  /\ captured' = (captured + n) % Period
  /\ event' = (event \/ captured + n >= Period)

(* Mutant: silence is not counted.                                         *)
Render_Uncounted(n) == output' = AtLeastZero(output - n) /\ UNCHANGED silent

(* Plays n frames, silence once the host has written no more.              *)
Render(n) ==
  /\ output' = AtLeastZero(output - n)
  /\ silent' = AtMost(silent + AtLeastZero(n - output), CountMax)

(* A packet of n frames: all are captured, then as many are rendered if    *)
(* there is a playback transfer to put them in.                            *)
Packet(n) ==
  /\ left > 0
  /\ left' = left - 1
  /\ Capture(n)
  /\ IF answered THEN Render(n) ELSE UNCHANGED <<output, silent>>
  /\ UNCHANGED <<worker, answered, overrun>>

-----------------------------------------------------------------------------

(* The wait for the auto-reset event ends.                                 *)
Wake ==
  /\ worker = "wait"
  /\ event
  /\ event' = FALSE
  /\ worker' = "read"
  /\ UNCHANGED <<input, output, captured, silent, dropped, left, answered, overrun>>

(* The streaming thread takes the oldest complete period, or waits again.  *)
Read ==
  /\ worker = "read"
  /\ LockFree
  /\ IF input >= Period
       THEN input' = input - Period /\ worker' = "write"
       ELSE worker' = "wait" /\ UNCHANGED input
  /\ UNCHANGED <<output, captured, silent, dropped, event, left, answered, overrun>>

(* Mutant: late output is queued behind the frames already there.          *)
Write_KeepsOldest ==
  /\ worker = "write"
  /\ LockFree
  /\ output' = output + Period
  /\ worker' = "read"
  /\ UNCHANGED <<input, captured, silent, dropped, event, left, answered, overrun>>

(* Mutant: one period is handled per wake-up.                              *)
Write_OncePerEvent ==
  /\ worker = "write"
  /\ LockFree
  /\ output' = AtMost(output + Period, OutputCapacity)
  /\ worker' = "wait"
  /\ UNCHANGED <<input, captured, silent, dropped, event, left, answered, overrun>>

(* After the buffer switch, which takes as long as the host likes, the     *)
(* period is queued; a full ring loses its oldest frames, uncounted.       *)
Write ==
  /\ worker = "write"
  /\ LockFree
  /\ output' = AtMost(output + Period, OutputCapacity)
  /\ worker' = "read"
  /\ UNCHANGED <<input, captured, silent, dropped, event, left, answered, overrun>>

Next ==
  \/ Answer
  \/ \E n \in 0..PacketMax : Packet(n)
  \/ Wake
  \/ Read
  \/ Write

Spec == Init /\ [][Next]_vars

-----------------------------------------------------------------------------

TypeOK ==
  /\ input \in 0..InputCapacity
  /\ output \in 0..OutputCapacity
  /\ captured \in 0..Period - 1
  /\ silent \in 0..CountMax
  /\ dropped \in 0..CountMax
  /\ event \in BOOLEAN
  /\ worker \in {"wait", "read", "write"}
  /\ left \in 0..Packets
  /\ answered \in BOOLEAN
  /\ overrun \in BOOLEAN

(* The latency never falls below the two periods and a transfer the        *)
(* session starts with, whatever is dropped on either side: output is      *)
(* never played before its turn (Buffers' doc: "Every captured frame is    *)
(* answered by one played frame").                                         *)
LatencyNeverShrinks == Latency >= OutputCapacity

(* While every transfer was answered, the latency has grown by no more     *)
(* than the silence that was played.                                       *)
LatencyGrowsBySilence ==
  ~overrun /\ silent < CountMax => Latency <= OutputCapacity + silent

(* Lateness costs latency, and no more than the silence it was heard as:   *)
(* the latency only grows while the session is late, in both directions.   *)
LatencyBounded == LatencyNeverShrinks /\ LatencyGrowsBySilence

(* The card plays silence only when the host is late: more than a whole    *)
(* period beyond the one it may be working on is waiting for it ("the      *)
(* output level only drops when the host is late").                        *)
SilenceMeansLate ==
  [][silent' # silent => input' + Held >= OutputCapacity]_vars

(* Input is dropped only after the host has been late enough to hear       *)
(* silence, unless the USB stack kept every playback transfer: the input   *)
(* ring outlasts the output ring.                                          *)
DropsFollowSilence == dropped > 0 /\ ~overrun => silent > 0

(* No wake-up is lost: a streaming thread that waits with the event clear  *)
(* has at most one complete period unread, and none while no input frame   *)
(* was dropped, because the event is signalled where the periods end.      *)
NoPeriodForgotten ==
  worker = "wait" /\ ~event =>
    /\ input <= Period - 1 + captured
    /\ dropped = 0 => input = captured

(* Silence does not change the latency for good: once the streaming        *)
(* thread has answered everything up to the end of a period, the output    *)
(* ring is as full as at the start - while no input frame was dropped.     *)
LatencyRestored ==
  dropped = 0 /\ worker = "wait" /\ ~event /\ captured = 0
    => Latency = OutputCapacity

(* What the doc of Buffers (crates/ak1-proto/src/asio.rs:56-57) and the    *)
(* test a_late_host_gets_silence_and_then_the_same_latency_again say       *)
(* without that condition. Dropped input shifts the frames against the     *)
(* count of `captured`, so the event no longer comes where periods end.    *)
SameLatencyAgain ==
  ~overrun /\ worker = "wait" /\ ~event /\ captured = 0
    => Latency = OutputCapacity

-----------------------------------------------------------------------------

(* While no input frame was dropped, the unread frames are whole periods   *)
(* and the part of the period under way: events come where periods end.    *)
Aligned ==
  dropped = 0 => \E k \in 0..input : input = captured + k * Period

(* Bound on the unread frames of a thread that waits with the event clear. *)
BacklogBounded == worker = "wait" /\ ~event => input <= Period - 1 + captured

(* A transfer under way that is not answered has been noted.               *)
OverrunSeen == left > 0 /\ ~answered => overrun

(* The inductive invariant of the proofs.                                  *)
IInv ==
  /\ TypeOK
  /\ LatencyNeverShrinks
  /\ LatencyGrowsBySilence
  /\ DropsFollowSilence
  /\ BacklogBounded
  /\ Aligned
  /\ OverrunSeen

=============================================================================
