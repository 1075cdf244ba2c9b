------------------------------- MODULE Engine -------------------------------
(***************************************************************************)
(* The USB transfers of driver/ak1-acx/src/stream.rs: `Engine::start` and  *)
(* `Engine::stop`, which the control lock serialises, and the completion   *)
(* routines, which the USB stack calls on any processor.                   *)
(*                                                                         *)
(* A capture transfer that completes is answered by a playback transfer    *)
(* and sent again by its own routine, which then still has to give back    *)
(* its share of `in_flight`: by that time the transfer may complete again  *)
(* and a second routine run for it. `leaving` counts the routines that     *)
(* have only that left to do; they touch no transfer any more, but the     *)
(* engine, which must not be freed before them.                            *)
(***************************************************************************)
EXTENDS Integers, FiniteSets

CONSTANTS
  Captures,      \* capture transfers
  PlaybackCount, \* playback transfers, tried in this order
  Processors     \* completion routines that can run at once

ASSUME EngineAssumption ==
  /\ IsFiniteSet(Captures)
  /\ PlaybackCount \in Nat \ {0}
  /\ Processors \in Nat \ {0}

Playbacks == 1..PlaybackCount

Pipes == {"capture", "playback"}

VARIABLES
  phase,      \* where start or stop is; "none": there is no engine
  toSubmit,   \* capture transfers start has not sent yet
  submitting, \* the one it is sending: counted in in_flight already
  running,    \* Engine.running
  in_flight,  \* Engine.in_flight
  target,     \* state of each pipe's I/O target
  capture,    \* where each capture transfer or its routine is
  next,       \* playback transfer the routine of a capture tries next
  mine,       \* playback transfer it has claimed, 0 if none
  playback,   \* where each playback transfer is
  busy,       \* Transfer.busy of the playback transfers
  leaving     \* routines left with the final decrement of in_flight

control == <<phase, toSubmit, submitting, running, target>>
routines == <<capture, next, mine>>
playbacks == <<playback, busy>>
vars == <<phase, toSubmit, submitting, running, in_flight, target, capture, next, mine,
          playback, busy, leaving>>

Init ==
  /\ phase = "none"
  /\ toSubmit = {}
  /\ submitting = {}
  /\ running = FALSE
  /\ in_flight = 0
  /\ target = [pipe \in Pipes |-> "started"]
  /\ capture = [c \in Captures |-> "unsent"]
  /\ next = [c \in Captures |-> 1]
  /\ mine = [c \in Captures |-> 0]
  /\ playback = [p \in Playbacks |-> "unsent"]
  /\ busy = [p \in Playbacks |-> FALSE]
  /\ leaving = 0

-----------------------------------------------------------------------------
(* start and stop                                                          *)

(* start, up to the first transfer; its transfers are new.                 *)
StartEngine ==
  /\ phase = "none"
  /\ phase' = "submit"
  /\ toSubmit' = Captures
  /\ running' = TRUE
  /\ UNCHANGED <<submitting, in_flight, target, routines, playbacks, leaving>>

(* The first half of submit_capture: the request is formatted and counted. *)
Submit(c) ==
  /\ phase = "submit"
  /\ submitting = {}
  /\ c \in toSubmit
  /\ toSubmit' = toSubmit \ {c}
  /\ submitting' = {c}
  /\ in_flight' = in_flight + 1
  /\ UNCHANGED <<phase, running, target, routines, playbacks, leaving>>

(* WdfRequestSend; the engine runs once every transfer is sent.            *)
SubmitSent(c) ==
  /\ c \in submitting
  /\ target["capture"] = "started"
  /\ submitting' = {}
  /\ capture' = [capture EXCEPT ![c] = "sent"]
  /\ phase' = IF toSubmit = {} THEN "run" ELSE phase
  /\ UNCHANGED <<toSubmit, running, in_flight, target, next, mine, playbacks, leaving>>

(* A transfer cannot be formatted or sent: start stops what it has sent.   *)
SubmitFails(c) ==
  /\ phase = "submit"
  /\ \/ c \in submitting /\ in_flight' = in_flight - 1
     \/ submitting = {} /\ c \in toSubmit /\ UNCHANGED in_flight
  /\ submitting' = {}
  /\ toSubmit' = {}
  /\ phase' = "stop"
  /\ UNCHANGED <<running, target, routines, playbacks, leaving>>

StopEngine ==
  /\ phase = "run"
  /\ phase' = "stop"
  /\ UNCHANGED <<toSubmit, submitting, running, in_flight, target, routines, playbacks, leaving>>

ClearRunning ==
  /\ phase = "stop"
  /\ phase' = "purge capture"
  /\ running' = FALSE
  /\ target' = [target EXCEPT !["capture"] = "purged"]
  /\ UNCHANGED <<toSubmit, submitting, in_flight, routines, playbacks, leaving>>

(* A purge returns when the target has no request left; their completion   *)
(* routines may still be running.                                          *)
CapturePurged ==
  /\ phase = "purge capture"
  /\ \A c \in Captures : capture[c] # "sent"
  /\ phase' = "purge playback"
  /\ target' = [target EXCEPT !["playback"] = "purged"]
  /\ UNCHANGED <<toSubmit, submitting, running, in_flight, routines, playbacks, leaving>>

PlaybackPurged ==
  /\ phase = "purge playback"
  /\ \A p \in Playbacks : playback[p] # "sent"
  /\ phase' = "wait"
  /\ UNCHANGED <<toSubmit, submitting, running, in_flight, target, routines, playbacks, leaving>>

(* Mutant: stop trusts the purges and does not wait for the routines.      *)
Drained_AtOnce ==
  /\ phase = "wait"
  /\ phase' = "restart"
  /\ target' = [pipe \in Pipes |-> "started"]
  /\ UNCHANGED <<toSubmit, submitting, running, in_flight, routines, playbacks, leaving>>

(* The loop that polls in_flight ends and the targets take requests again. *)
Drained ==
  /\ phase = "wait"
  /\ in_flight = 0
  /\ phase' = "restart"
  /\ target' = [pipe \in Pipes |-> "started"]
  /\ UNCHANGED <<toSubmit, submitting, running, in_flight, routines, playbacks, leaving>>

(* Drop: the transfers are freed, the next engine has its own.             *)
FreeEngine ==
  /\ phase = "restart"
  /\ phase' = "none"
  /\ capture' = [c \in Captures |-> "unsent"]
  /\ next' = [c \in Captures |-> 1]
  /\ mine' = [c \in Captures |-> 0]
  /\ playback' = [p \in Playbacks |-> "unsent"]
  /\ busy' = [p \in Playbacks |-> FALSE]
  /\ UNCHANGED <<toSubmit, submitting, running, in_flight, target, leaving>>

-----------------------------------------------------------------------------
(* capture_complete                                                        *)

Working == {"check", "claim", "process", "answer", "answering", "resend", "resending"}

(* A completion routine is a DPC: each processor runs one at a time.       *)
ProcessorFree ==
  Cardinality({c \in Captures : capture[c] \in Working})
    + Cardinality({p \in Playbacks : playback[p] = "completed"}) + leaving < Processors

(* The USB stack completes a transfer: with data, or without if it failed  *)
(* or was cancelled. A transfer that failed is not sent again.             *)
CaptureCompletes(c) ==
  /\ ProcessorFree
  /\ capture[c] = "sent"
  /\ \/ capture' = [capture EXCEPT ![c] = "check"] /\ UNCHANGED leaving
     \/ capture' = [capture EXCEPT ![c] = "unsent"] /\ leaving' = leaving + 1
  /\ UNCHANGED <<control, in_flight, next, mine, playbacks>>

(* The routine looks at `running`, once.                                   *)
CheckRunning(c) ==
  /\ capture[c] = "check"
  /\ IF running
       THEN capture' = [capture EXCEPT ![c] = "claim"] /\ UNCHANGED leaving
       ELSE capture' = [capture EXCEPT ![c] = "unsent"] /\ leaving' = leaving + 1
  /\ UNCHANGED <<control, in_flight, next, mine, playbacks>>

(* Mutant: the transfer is claimed without looking whether it is busy.     *)
TryClaim_Unchecked(c) ==
  /\ capture[c] = "claim"
  /\ capture' = [capture EXCEPT ![c] = "process"]
  /\ mine' = [mine EXCEPT ![c] = next[c]]
  /\ busy' = [busy EXCEPT ![next[c]] = TRUE]
  /\ UNCHANGED <<control, in_flight, next, playback, leaving>>

(* answer looks for a free playback transfer, one after the other; without *)
(* one the captured frames are not answered.                               *)
TryClaim(c) ==
  /\ capture[c] = "claim"
  /\ \/ /\ next[c] > PlaybackCount
        /\ capture' = [capture EXCEPT ![c] = "process"]
        /\ next' = [next EXCEPT ![c] = 1]
        /\ UNCHANGED <<mine, busy>>
     \/ /\ next[c] <= PlaybackCount /\ busy[next[c]]
        /\ next' = [next EXCEPT ![c] = @ + 1]
        /\ UNCHANGED <<capture, mine, busy>>
     \/ /\ next[c] <= PlaybackCount /\ ~busy[next[c]]
        /\ capture' = [capture EXCEPT ![c] = "process"]
        /\ mine' = [mine EXCEPT ![c] = next[c]]
        /\ busy' = [busy EXCEPT ![next[c]] = TRUE]
        /\ next' = [next EXCEPT ![c] = 1]
  /\ UNCHANGED <<control, in_flight, playback, leaving>>

(* The packets are processed under the audio lock; a playback transfer     *)
(* that got no frame is given back.                                        *)
Process(c) ==
  /\ capture[c] = "process"
  /\ \/ /\ mine[c] # 0
        /\ capture' = [capture EXCEPT ![c] = "answer"]
        /\ UNCHANGED <<mine, busy>>
     \/ /\ capture' = [capture EXCEPT ![c] = "resend"]
        /\ busy' = [p \in Playbacks |-> busy[p] /\ p # mine[c]]
        /\ mine' = [mine EXCEPT ![c] = 0]
  /\ UNCHANGED <<control, in_flight, next, playback, leaving>>

(* Mutant: the answer is sent without being counted.                       *)
CountAnswer_Uncounted(c) ==
  /\ capture[c] = "answer"
  /\ capture' = [capture EXCEPT ![c] = "answering"]
  /\ UNCHANGED <<control, in_flight, next, mine, playbacks, leaving>>

(* send, in halves: the request is counted before it is sent.              *)
CountAnswer(c) ==
  /\ capture[c] = "answer"
  /\ capture' = [capture EXCEPT ![c] = "answering"]
  /\ in_flight' = in_flight + 1
  /\ UNCHANGED <<control, next, mine, playbacks, leaving>>

SendAnswer(c) ==
  /\ capture[c] = "answering"
  /\ target["playback"] = "started"
  /\ capture' = [capture EXCEPT ![c] = "resend"]
  /\ playback' = [playback EXCEPT ![mine[c]] = "sent"]
  /\ mine' = [mine EXCEPT ![c] = 0]
  /\ UNCHANGED <<control, in_flight, next, busy, leaving>>

(* Mutant: an answer that could not be sent stays counted.                 *)
AnswerFails_StaysCounted(c) ==
  /\ capture[c] \in {"answer", "answering"}
  /\ capture' = [capture EXCEPT ![c] = "resend"]
  /\ busy' = [busy EXCEPT ![mine[c]] = FALSE]
  /\ mine' = [mine EXCEPT ![c] = 0]
  /\ UNCHANGED <<control, in_flight, next, playback, leaving>>

AnswerFails(c) ==
  /\ \/ capture[c] = "answering" /\ in_flight' = in_flight - 1
     \/ capture[c] = "answer" /\ UNCHANGED in_flight
  /\ capture' = [capture EXCEPT ![c] = "resend"]
  /\ busy' = [busy EXCEPT ![mine[c]] = FALSE]
  /\ mine' = [mine EXCEPT ![c] = 0]
  /\ UNCHANGED <<control, next, playback, leaving>>

CountCapture(c) ==
  /\ capture[c] = "resend"
  /\ capture' = [capture EXCEPT ![c] = "resending"]
  /\ in_flight' = in_flight + 1
  /\ UNCHANGED <<control, next, mine, playbacks, leaving>>

(* From here the transfer may complete again before this routine ends.     *)
SendCapture(c) ==
  /\ capture[c] = "resending"
  /\ target["capture"] = "started"
  /\ capture' = [capture EXCEPT ![c] = "sent"]
  /\ leaving' = leaving + 1
  /\ UNCHANGED <<control, in_flight, next, mine, playbacks>>

CaptureFails(c) ==
  /\ \/ capture[c] = "resending" /\ in_flight' = in_flight - 1
     \/ capture[c] = "resend" /\ UNCHANGED in_flight
  /\ capture' = [capture EXCEPT ![c] = "unsent"]
  /\ leaving' = leaving + 1
  /\ UNCHANGED <<control, next, mine, playbacks>>

(* playback_complete: the transfer is free before the routine has ended.   *)
PlaybackCompletes(p) ==
  /\ ProcessorFree
  /\ playback[p] = "sent"
  /\ playback' = [playback EXCEPT ![p] = "completed"]
  /\ UNCHANGED <<control, in_flight, routines, busy, leaving>>

FreePlayback(p) ==
  /\ playback[p] = "completed"
  /\ playback' = [playback EXCEPT ![p] = "unsent"]
  /\ busy' = [busy EXCEPT ![p] = FALSE]
  /\ leaving' = leaving + 1
  /\ UNCHANGED <<control, in_flight, routines>>

(* The last access of a routine to the engine.                             *)
Leave ==
  /\ leaving > 0
  /\ leaving' = leaving - 1
  /\ in_flight' = in_flight - 1
  /\ UNCHANGED <<control, routines, playbacks>>

-----------------------------------------------------------------------------

Control ==
  \/ \E c \in Captures : Submit(c) \/ SubmitSent(c) \/ SubmitFails(c)
  \/ ClearRunning \/ CapturePurged \/ PlaybackPurged \/ Drained \/ FreeEngine

Routine(c) ==
  \/ CheckRunning(c) \/ TryClaim(c) \/ Process(c)
  \/ CountAnswer(c) \/ SendAnswer(c) \/ AnswerFails(c)
  \/ CountCapture(c) \/ SendCapture(c) \/ CaptureFails(c)

Next ==
  \/ StartEngine \/ StopEngine \/ Control
  \/ \E c \in Captures : CaptureCompletes(c) \/ Routine(c)
  \/ \E p \in Playbacks : PlaybackCompletes(p) \/ FreePlayback(p)
  \/ Leave

Spec == Init /\ [][Next]_vars

(* A thread that has begun to start or stop runs on, a routine is a DPC and runs to *)
(* its end, and the USB stack completes a transfer or cancels it when its  *)
(* target is purged.                                                       *)
Fairness ==
  /\ WF_vars(Control)
  /\ WF_vars(Leave)
  /\ \A c \in Captures :
       /\ WF_vars(Routine(c))
       /\ WF_vars(CaptureCompletes(c))
  /\ \A p \in Playbacks :
       /\ WF_vars(FreePlayback(p))
       /\ WF_vars(PlaybackCompletes(p))

FairSpec == Spec /\ Fairness

-----------------------------------------------------------------------------

TypeOK ==
  /\ phase \in {"none", "submit", "run", "stop", "purge capture", "purge playback", "wait",
                "restart"}
  /\ toSubmit \subseteq Captures
  /\ submitting \subseteq Captures
  /\ running \in BOOLEAN
  /\ in_flight \in Nat
  /\ target \in [Pipes -> {"started", "purged"}]
  /\ capture \in [Captures -> {"unsent", "sent"} \cup Working]
  /\ next \in [Captures -> 1..PlaybackCount + 1]
  /\ mine \in [Captures -> 0..PlaybackCount]
  /\ playback \in [Playbacks -> {"unsent", "sent", "completed"}]
  /\ busy \in [Playbacks -> BOOLEAN]
  /\ leaving \in Nat

(* Transfers the stack has or is being given, and routines that run.       *)
Outstanding ==
  Cardinality(submitting)
    + Cardinality({c \in Captures : capture[c] # "unsent"})
    + Cardinality({c \in Captures : capture[c] \in {"answering", "resending"}})
    + Cardinality({p \in Playbacks : playback[p] # "unsent"})
    + leaving

(* in_flight counts every transfer the USB stack holds and every routine   *)
(* that has not made its last access, so that waiting for 0 waits for all. *)
InFlightCounts == in_flight = Outstanding

(* Once stop has stopped waiting, no transfer is with the stack and no     *)
(* routine touches the engine or a transfer: both are about to be freed,   *)
(* and a transfer sent to a restarted target would outlive them.           *)
FreedWhenQuiet == phase \in {"restart", "none"} => Outstanding = 0

(* The count is right at every step, and when it is 0 all is quiet.        *)
CountedUntilQuiet == InFlightCounts /\ FreedWhenQuiet

(* A playback transfer is used by one party at a time - the routine that   *)
(* claimed it, the stack, its completion - and marked busy throughout: a   *)
(* second answer would overwrite a URB the stack is reading.               *)
PlaybackExclusive ==
  \A p \in Playbacks :
    LET claims == {c \in Captures : mine[c] = p}
    IN  /\ Cardinality(claims) <= 1
        /\ claims # {} => playback[p] = "unsent"
        /\ busy[p] <=> claims # {} \/ playback[p] # "unsent"

(* stop returns, whatever the routines are doing when it is called; so     *)
(* does the start that had to stop again.                                  *)
StopReturns == phase = "stop" ~> phase = "none"

=============================================================================
