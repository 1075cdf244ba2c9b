------------------------------- MODULE Resampler ----------------------------
(***************************************************************************)
(* The positions of the sample rate converter                              *)
(* (crates/ak1-proto/src/resample.rs): which input frames each output is   *)
(* made of and when it can be made. Coefficients and samples are left out. *)
(*                                                                         *)
(* It is used in two ways (rt.rs): `render` pushes input only when no      *)
(* output can be made, `capture` pushes one frame and takes every output   *)
(* there is. Either way a frame is pushed only when pop returned nothing.  *)
(***************************************************************************)
EXTENDS Integers

CONSTANTS
  ZERO_CROSSINGS,  \* of the kernel, at the lower of the rates
  HISTORY,         \* input frames kept
  Conversions,     \* what a stream may need: the rates, and their ratio in lowest terms
  LastPush         \* bound on the input frames of a run

CeilDiv(a, b) == (a + b - 1) \div b

Scale(r) == IF r.up > r.down THEN r.up ELSE r.down

(* Input frames used on each side of an output.                            *)
Taps(r) == CeilDiv(ZERO_CROSSINGS * Scale(r), r.up)

(* The last conjunct is reset's debug_assert.                              *)
ASSUME ResamplerAssumption ==
  /\ ZERO_CROSSINGS \in Nat \ {0} /\ HISTORY \in Nat /\ LastPush \in Nat
  /\ Conversions \subseteq [from : Nat \ {0}, to : Nat \ {0}, up : Nat \ {0}, down : Nat \ {0}]
  /\ \A r \in Conversions : 2 * Taps(r) + CeilDiv(r.down, r.up) + 1 < HISTORY

VARIABLES
  rates,    \* the conversion under way: rates, up and down
  pushed,   \* input frames so far
  center,   \* input frame at or before the next output
  phase,    \* its distance past it, in 1/up
  popped    \* history: output frames so far

vars == <<rates, pushed, center, phase, popped>>

NoRates == [from |-> 0, to |-> 0, up |-> 0, down |-> 0]

Converting == rates # NoRates

(* Mutant: an output is made one input frame early.                        *)
CanPop_Early == Converting /\ pushed >= center + Taps(rates)

(* An output needs the input up to half the kernel past its position.      *)
CanPop == Converting /\ pushed > center + Taps(rates)

(* boxed: converts nothing until the first reset.                          *)
Init ==
  /\ rates = NoRates
  /\ pushed = 0 /\ center = 0 /\ phase = 0
  /\ popped = 0

(* Mutant: the position of the last conversion stays.                      *)
Reset_KeepsPhase(r) ==
  /\ rates # r
  /\ rates' = r
  /\ pushed' = 0 /\ center' = 0 /\ popped' = 0
  /\ UNCHANGED phase

(* render or capture meet rates other than the last.                       *)
Reset(r) ==
  /\ rates # r
  /\ rates' = r
  /\ pushed' = 0 /\ center' = 0 /\ phase' = 0
  /\ popped' = 0

(* The stream is reset.                                                    *)
Clear ==
  /\ rates' = NoRates
  /\ UNCHANGED <<pushed, center, phase, popped>>

Push ==
  /\ Converting /\ ~CanPop
  /\ pushed < LastPush
  /\ pushed' = pushed + 1
  /\ UNCHANGED <<rates, center, phase, popped>>

(* Mutant: the remainder is lost.                                          *)
Pop_Rounds ==
  /\ CanPop
  /\ center' = center + (phase + rates.down) \div rates.up
  /\ phase' = 0
  /\ popped' = popped + 1
  /\ UNCHANGED <<rates, pushed>>

(* Mutant: the output moves on by the inverse of the ratio.                *)
Pop_Inverse ==
  /\ CanPop
  /\ center' = center + (phase + rates.up) \div rates.down
  /\ phase' = (phase + rates.up) % rates.down
  /\ popped' = popped + 1
  /\ UNCHANGED <<rates, pushed>>

Pop ==
  /\ CanPop
  /\ center' = center + (phase + rates.down) \div rates.up
  /\ phase' = (phase + rates.down) % rates.up
  /\ popped' = popped + 1
  /\ UNCHANGED <<rates, pushed>>

Next == (\E r \in Conversions : Reset(r)) \/ Clear \/ Push \/ Pop

Spec == Init /\ [][Next]_vars

-----------------------------------------------------------------------------
(* Properties                                                              *)

(* The ratio is exact and never drifts (resample.rs:2-3): output n lies at *)
(* input n * down / up, with no error that outputs could add up.           *)
NeverDrifts ==
  Converting => phase < rates.up /\ center * rates.up + phase = popped * rates.down

(* What pop reads, taps frames on either side of its position, is pushed   *)
(* and not overwritten; what is before the first frame is the silence of a *)
(* place not yet written (resample.rs:151-152).                            *)
WindowKept ==
  CanPop =>
    \A frame \in {center - Taps(rates) + 1, center + Taps(rates)} :
      frame < pushed /\ pushed <= frame + HISTORY

(* render's loop ends: an output takes at most down / up frames, rounded   *)
(* up, after the one before it (resample.rs:19-20).                        *)
InputBounded ==
  Converting /\ popped > 0
    => center + Taps(rates) + 1 - pushed <= CeilDiv(rates.down, rates.up)

(* Once pop returns nothing, as many frames are out as have gone in, at    *)
(* the ratio, but for those half the kernel holds back                     *)
(* (output_frames_follow_the_ratio).                                       *)
FollowsRatio ==
  Converting /\ ~CanPop =>
    /\ popped * rates.down <= pushed * rates.up
    /\ (pushed - Taps(rates)) * rates.up <= popped * rates.down

(* No frame more or less than the ratio says, and no drift, for ever.      *)
RatioIsExact == NeverDrifts /\ FollowsRatio

(* An output reads what the history holds, and is there after a bounded    *)
(* number of frames: neither reads old memory nor loops.                   *)
ConverterFits == WindowKept /\ InputBounded
=============================================================================
