------------------------------- MODULE RtStream -----------------------------
(***************************************************************************)
(* One stream of Windows (driver/ak1-acx/src/rt.rs): its packets, the      *)
(* converter, and `render` and `capture`, which move frames from one to    *)
(* the other for the completion routine, under the audio lock. The rate of *)
(* the card changes while the stream runs, with an ASIO session or another *)
(* stream, whenever the engine starts again.                               *)
(***************************************************************************)
EXTENDS RtPackets, Resampler

CONSTANT Rates

VARIABLES
  renders,  \* the stream plays, or else it records
  hz,       \* its rate
  card_hz,  \* the card's
  call      \* where the routine is in render or capture

stream == <<renders, hz, card_hz>>
streamVars == <<packets, vars, stream, call>>

gcd[a \in Nat, b \in Nat] == IF b = 0 THEN a ELSE gcd[b, a % b]

(* reset: the rates of a conversion and their ratio in lowest terms.       *)
Conversion(from, to) ==
  LET common == gcd[from, to]
  IN  [from |-> from, to |-> to, up |-> to \div common, down |-> from \div common]

AllConversions ==
  {Conversion(p[1], p[2]) : p \in {q \in Rates \X Rates : q[1] # q[2]}}

ASSUME RtStreamAssumption == AllConversions \subseteq Conversions

StreamInit ==
  /\ InitPackets /\ Init
  /\ renders \in BOOLEAN /\ hz \in Rates /\ card_hz \in Rates
  /\ call = "away"

-----------------------------------------------------------------------------
(* Windows and the engine                                                  *)

WindowsRequests ==
  /\ Request
  /\ UNCHANGED <<vars, stream, call>>

(* Mutant: the converter keeps what the last run left in it.               *)
StreamPrepares_Packets ==
  /\ Prepare
  /\ UNCHANGED <<vars, stream, call>>

(* reset: the cursor, the numbers and the converter.                       *)
StreamPrepares ==
  /\ Prepare /\ Clear
  /\ UNCHANGED <<stream, call>>

(* pause takes the audio lock, which the routine holds through a call.     *)
StreamPauses ==
  /\ call = "away" /\ Pause
  /\ UNCHANGED <<vars, stream, call>>

(* The engine has no routine under way when it starts at another rate.     *)
EngineRestarts(r) ==
  /\ call = "away" /\ routine = "away"
  /\ card_hz' = r
  /\ UNCHANGED <<packets, vars, renders, hz, call>>

-----------------------------------------------------------------------------
(* render and capture                                                      *)

Called == life = "running" /\ routine = "away"

(* Both rates are the same.                                                *)
Direct ==
  /\ Called /\ call = "away" /\ hz = card_hz
  /\ Move
  /\ UNCHANGED <<vars, stream, call>>

(* The converter starts over if its last rates were others.                *)
StartsOver(r) == IF rates = r THEN UNCHANGED vars ELSE Reset(r)

BeginRender ==
  /\ Called /\ call = "away" /\ hz # card_hz /\ renders
  /\ StartsOver(Conversion(hz, card_hz))
  /\ call' = "rendering"
  /\ UNCHANGED <<packets, stream>>

RenderPop ==
  /\ call = "rendering" /\ routine = "away"
  /\ Pop
  /\ call' = "away"
  /\ UNCHANGED <<packets, stream>>

PushFrame ==
  /\ pushed < LastPush
  /\ pushed' = pushed + 1
  /\ UNCHANGED <<rates, center, phase, popped>>

RenderPush ==
  /\ call = "rendering" /\ routine = "away" /\ ~CanPop
  /\ Move /\ PushFrame
  /\ UNCHANGED <<stream, call>>

BeginCapture ==
  /\ Called /\ call = "away" /\ hz # card_hz /\ ~renders
  /\ StartsOver(Conversion(card_hz, hz))
  /\ call' = "pushing"
  /\ UNCHANGED <<packets, stream>>

CapturePush ==
  /\ call = "pushing"
  /\ PushFrame
  /\ call' = "capturing"
  /\ UNCHANGED <<packets, stream>>

(* Mutant: one output for each frame.                                      *)
CapturePop_Once ==
  /\ call = "capturing" /\ routine = "away"
  /\ Pop /\ Move
  /\ call' = "away"
  /\ UNCHANGED stream

CapturePop ==
  /\ call = "capturing" /\ routine = "away"
  /\ Pop /\ Move
  /\ UNCHANGED <<stream, call>>

CaptureReturns ==
  /\ call = "capturing" /\ routine = "away" /\ ~CanPop
  /\ call' = "away"
  /\ UNCHANGED <<packets, vars, stream>>

(* advance notifies Windows of the packet before the call goes on.         *)
PacketCompletes ==
  /\ Advance
  /\ UNCHANGED <<vars, stream, call>>

RoutineSteps ==
  \/ Direct \/ BeginRender \/ RenderPop \/ RenderPush
  \/ BeginCapture \/ CapturePush \/ CapturePop \/ CaptureReturns \/ PacketCompletes

StreamNext ==
  \/ WindowsRequests \/ StreamPrepares \/ StreamPauses
  \/ \E r \in Rates \ {card_hz} : EngineRestarts(r)
  \/ RoutineSteps

StreamSpec == StreamInit /\ [][StreamNext]_streamVars

-----------------------------------------------------------------------------
(* Properties                                                              *)

(* What the converter holds was moved since the stream was prepared: a     *)
(* stream that runs again neither plays nor records frames of its last     *)
(* run, at whatever rates the card was in between (rt.rs:213).             *)
NothingOldIsHeard ==
  Converting => (IF renders THEN pushed ELSE popped) <= frames

(* render and capture use the converter as its properties need: through    *)
(* every change of rates and every end of a run they start it over before  *)
(* they use it, and push a frame only when it has no output left.          *)
ConverterUsedInTurn == Spec
=============================================================================
