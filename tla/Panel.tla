-------------------------------- MODULE Panel -------------------------------
(***************************************************************************)
(* The threads of the control panel (panel/src/main.rs, audio.rs): the     *)
(* dialog, the output test and the input meter. The dialog's thread runs   *)
(* one handler at a time and meets the others in a flag, two errors, the   *)
(* peaks and the join of the meter's thread. One of the two channels is    *)
(* modelled. The settings are in BufferSizes.                              *)
(***************************************************************************)
EXTENDS Integers

CONSTANTS
  Meters,    \* meters and their threads
  NoMeter,
  Loudest,   \* peaks are 0..Loudest
  METER_FALL \* of the level shown, per tick

ASSUME PanelAssumption ==
  /\ NoMeter \notin Meters /\ Loudest \in Nat /\ METER_FALL \in Nat \ {0}

VARIABLES
  ui,        \* where the dialog's thread is
  buttons,   \* the test buttons are enabled
  message,   \* what the message line is about
  checked,   \* the box of the meter
  meter,     \* panel.meter
  shown,     \* panel.shown_db
  running,   \* TEST_RUNNING
  failure,   \* TEST_ERROR holds one
  tester,    \* where the thread of the test is
  thread,    \* where each meter's thread is
  stop, peak, error, \* MeterShared
  loud, seen,        \* of the packet under way: its peak, and the bits it found
  \* history
  measured   \* the loudest frame a meter has counted since its peak was taken

dialog == <<ui, buttons, message, checked, meter, shown>>
test == <<running, failure, tester>>
measuring == <<thread, stop, peak, error, loud, seen, measured>>
panelVars == <<dialog, test, measuring>>

Max2(a, b) == IF a > b THEN a ELSE b

Levels == 0..Loudest

PanelInit ==
  /\ ui = "waiting" /\ buttons = TRUE /\ message = "none"
  /\ checked = FALSE /\ meter = NoMeter /\ shown = 0
  /\ running = FALSE /\ failure = FALSE /\ tester = "away"
  /\ thread = [m \in Meters |-> "away"]
  /\ stop = [m \in Meters |-> FALSE] /\ error = [m \in Meters |-> FALSE]
  /\ peak = [m \in Meters |-> 0] /\ measured = [m \in Meters |-> 0]
  /\ loud = [m \in Meters |-> 0] /\ seen = [m \in Meters |-> 0]

-----------------------------------------------------------------------------
(* The test                                                                *)

(* A disabled button is not pressed.                                       *)
StartTest ==
  /\ ui = "waiting" /\ buttons
  /\ IF running
       THEN UNCHANGED <<buttons, message, test>>
       ELSE /\ running' = TRUE /\ tester' = "playing"
            /\ buttons' = FALSE /\ message' = "none"
            /\ UNCHANGED failure
  /\ UNCHANGED <<ui, checked, meter, shown, measuring>>

(* play_test returns, with an error or not.                                *)
TestPlayed ==
  /\ tester = "playing"
  /\ tester' = "done"
  /\ UNCHANGED <<dialog, running, failure, measuring>>

TestFailed ==
  /\ tester = "playing"
  /\ failure' = TRUE
  /\ tester' = "done"
  /\ UNCHANGED <<dialog, running, measuring>>

(* Mutant: the flag before the error.                                      *)
TestDone_First ==
  /\ tester \in {"playing", "done"}
  /\ running' = FALSE
  /\ tester' = IF tester = "done" THEN "away" ELSE tester
  /\ UNCHANGED <<dialog, failure, measuring>>

TestDone ==
  /\ tester = "done"
  /\ running' = FALSE
  /\ tester' = "away"
  /\ UNCHANGED <<dialog, failure, measuring>>

-----------------------------------------------------------------------------
(* The thread of a meter                                                   *)

At(m, from, to) == thread[m] = from /\ thread' = [thread EXCEPT ![m] = to]

(* Opens the inputs and starts the stream, or returns an error, as every   *)
(* later call on them may.                                                 *)
MeasureFails(m) ==
  /\ thread[m] \in {"opening", "draining", "counted"}
  /\ thread' = [thread EXCEPT ![m] = "away"]
  /\ error' = [error EXCEPT ![m] = TRUE]
  /\ UNCHANGED <<dialog, test, stop, peak, loud, seen, measured>>

Opened(m) ==
  /\ At(m, "opening", "between")
  /\ UNCHANGED <<dialog, test, stop, peak, error, loud, seen, measured>>

(* The stop flag is looked at once in 10 ms.                               *)
CheckStop(m) ==
  /\ At(m, "between", IF stop[m] THEN "away" ELSE "draining")
  /\ UNCHANGED <<dialog, test, stop, peak, error, loud, seen, measured>>

GetBuffer(m, level) ==
  /\ At(m, "draining", "packet")
  /\ loud' = [loud EXCEPT ![m] = level]
  /\ UNCHANGED <<dialog, test, stop, peak, error, seen, measured>>

NoMorePackets(m) ==
  /\ At(m, "draining", "between")
  /\ UNCHANGED <<dialog, test, stop, peak, error, loud, seen, measured>>

(* fetch_update: loads the peak, and exchanges it if it is still the same. *)
LoadPeak(m) ==
  /\ At(m, "packet", "loaded")
  /\ seen' = [seen EXCEPT ![m] = peak[m]]
  /\ UNCHANGED <<dialog, test, stop, peak, error, loud, measured>>

(* Mutant: a plain store.                                                  *)
ExchangePeak_Stores(m) ==
  /\ At(m, "loaded", "counted")
  /\ peak' = [peak EXCEPT ![m] = Max2(seen[m], loud[m])]
  /\ measured' = [measured EXCEPT ![m] = Max2(@, loud[m])]
  /\ loud' = [loud EXCEPT ![m] = 0] /\ seen' = [seen EXCEPT ![m] = 0]
  /\ UNCHANGED <<dialog, test, stop, error>>

ExchangePeak(m) ==
  /\ At(m, "loaded", "counted")
  /\ peak[m] = seen[m]
  /\ peak' = [peak EXCEPT ![m] = Max2(@, loud[m])]
  /\ measured' = [measured EXCEPT ![m] = Max2(@, loud[m])]
  /\ loud' = [loud EXCEPT ![m] = 0] /\ seen' = [seen EXCEPT ![m] = 0]
  /\ UNCHANGED <<dialog, test, stop, error>>

ExchangeFails(m) ==
  /\ At(m, "loaded", "packet")
  /\ peak[m] # seen[m]
  /\ UNCHANGED <<dialog, test, stop, peak, error, loud, seen, measured>>

ReleaseBuffer(m) ==
  /\ At(m, "counted", "draining")
  /\ UNCHANGED <<dialog, test, stop, peak, error, loud, seen, measured>>

-----------------------------------------------------------------------------
(* The dialog                                                              *)

(* The box is checked: Meter::start.                                       *)
StartMeter(m) ==
  /\ ui = "waiting" /\ ~checked
  /\ thread[m] = "away"
  /\ checked' = TRUE /\ meter' = m
  /\ thread' = [thread EXCEPT ![m] = "opening"]
  /\ stop' = [stop EXCEPT ![m] = FALSE] /\ error' = [error EXCEPT ![m] = FALSE]
  /\ peak' = [peak EXCEPT ![m] = 0] /\ measured' = [measured EXCEPT ![m] = 0]
  /\ UNCHANGED <<ui, buttons, message, shown, test, loud, seen>>

(* Mutant: the join without the flag.                                      *)
BeginDrop_Unflagged(then) == ui' = then /\ UNCHANGED stop

(* Drop of the meter, if there is one: the flag, then the join.            *)
BeginDrop(then) ==
  /\ ui' = then
  /\ stop' = [m \in Meters |-> stop[m] \/ m = meter]

(* Mutant: the thread is left to itself.                                   *)
Joined_AtOnce == TRUE

Joined == \A m \in Meters : m = meter => thread[m] = "away"

StopMeter ==
  /\ ui = "waiting" /\ checked
  /\ BeginDrop("switching off")
  /\ checked' = FALSE
  /\ UNCHANGED <<buttons, message, meter, shown, test, thread, peak, error, loud, seen, measured>>

MeterStopped ==
  /\ ui = "switching off" /\ Joined
  /\ ui' = "waiting" /\ meter' = NoMeter
  /\ UNCHANGED <<buttons, message, checked, shown, test, measuring>>

(* update_meter, in the order of its accesses to what threads share.       *)
TickRunning ==
  /\ ui = "waiting"
  /\ buttons' = (buttons \/ ~running)
  /\ ui' = "test error"
  /\ UNCHANGED <<message, checked, meter, shown, test, measuring>>

TickTestError ==
  /\ ui = "test error"
  /\ failure' = FALSE
  /\ message' = IF failure THEN "test" ELSE message
  /\ ui' = IF meter = NoMeter THEN "waiting" ELSE "meter error"
  /\ UNCHANGED <<buttons, checked, meter, shown, running, tester, measuring>>

(* An error of the meter drops it, and unchecks its box.                   *)
TickMeterFailed ==
  /\ ui = "meter error" /\ error[meter]
  /\ error' = [error EXCEPT ![meter] = FALSE]
  /\ BeginDrop("meter failed")
  /\ UNCHANGED <<buttons, message, checked, meter, shown, test, thread, peak, loud, seen, measured>>

MeterDropped ==
  /\ ui = "meter failed" /\ Joined
  /\ ui' = "waiting" /\ meter' = NoMeter
  /\ checked' = FALSE /\ message' = "meter"
  /\ UNCHANGED <<buttons, shown, test, measuring>>

TickMeterRuns ==
  /\ ui = "meter error" /\ ~error[meter]
  /\ ui' = "peaks"
  /\ UNCHANGED <<buttons, message, checked, meter, shown, test, measuring>>

TakePeaks ==
  /\ ui = "peaks"
  /\ shown' = Max2(peak[meter], Max2(shown - METER_FALL, 0))
  /\ peak' = [peak EXCEPT ![meter] = 0] /\ measured' = [measured EXCEPT ![meter] = 0]
  /\ ui' = "waiting"
  /\ UNCHANGED <<buttons, message, checked, meter, test, thread, stop, error, loud, seen>>

Close ==
  /\ ui = "waiting"
  /\ BeginDrop("closing")
  /\ UNCHANGED <<buttons, message, checked, meter, shown, test, thread, peak, error, loud, seen, measured>>

(* EndDialog: main returns, and the process ends with a test that plays.   *)
Closed ==
  /\ ui = "closing" /\ Joined
  /\ ui' = "closed" /\ meter' = NoMeter
  /\ tester' = "away"
  /\ UNCHANGED <<buttons, message, checked, shown, running, failure, measuring>>

-----------------------------------------------------------------------------
Tester == TestPlayed \/ TestFailed \/ TestDone

Measurer(m) ==
  \/ MeasureFails(m) \/ Opened(m) \/ CheckStop(m) \/ NoMorePackets(m)
  \/ \E level \in Levels : GetBuffer(m, level)
  \/ LoadPeak(m) \/ ExchangePeak(m) \/ ExchangeFails(m) \/ ReleaseBuffer(m)

Tick == TickRunning \/ TickTestError \/ TickMeterFailed \/ TickMeterRuns \/ TakePeaks

Handlers == MeterStopped \/ MeterDropped \/ Closed \/ Tick

PanelNext ==
  \/ StartTest \/ StopMeter \/ Close \/ \E m \in Meters : StartMeter(m)
  \/ Handlers
  \/ Tester \/ \E m \in Meters : Measurer(m)

PanelSpec == PanelInit /\ [][PanelNext]_panelVars

(* Timer and threads go on, whatever the user clicks in between; the test  *)
(* is played by a card that moves; there are fewer packets than the thread *)
(* can take, in the end.                                                   *)
Fairness ==
  /\ SF_panelVars(TickRunning) /\ WF_panelVars(Handlers) /\ WF_panelVars(Tester)
  /\ \A m \in Meters : WF_panelVars(Measurer(m)) /\ SF_panelVars(NoMorePackets(m))

FairSpec == PanelSpec /\ Fairness

-----------------------------------------------------------------------------
(* Properties                                                              *)

(* No frame the meter's thread has counted is missing in the next peak     *)
(* taken, and none is in two, however their exchanges interleave.          *)
PeaksAreKept == \A m \in Meters : peak[m] = measured[m]

(* A test begins only when the dialog has shown how the last one failed.   *)
OutcomeIsShown == [][~running /\ running' => ~failure]_panelVars

(* The inputs are open only for the meter whose box is checked: the box    *)
(* keeps the card at its rate while on (main.rs), and no longer.           *)
MeasuredWhileOn ==
  /\ \A m \in Meters : thread[m] # "away" => m = meter
  /\ ui = "waiting" => (checked <=> meter # NoMeter)

(* Switching the meter off, or closing, never hangs the dialog, and the    *)
(* test buttons come back.                                                 *)
DialogAnswers ==
  /\ (ui # "waiting") ~> (ui \in {"waiting", "closed"})
  /\ ~buttons ~> (buttons \/ ui = "closed")
=============================================================================
