------------------------------ MODULE BufferSizes ----------------------------
(***************************************************************************)
(* Sample rates and buffer sizes on their way from the control panel       *)
(* (panel/src/main.rs) through the registry (asio/src/settings.rs) to a    *)
(* host of the ASIO driver and into a session (asio/src/driver.rs), whose  *)
(* start the kernel driver checks (driver/ak1-acx/src/asio.rs).            *)
(*                                                                         *)
(* Three threads: the panel's, which writes two values one after the       *)
(* other; the settings thread of the ASIO driver, which is notified of     *)
(* changes of the key; and the host's, which lists the sizes, sets the     *)
(* rate, creates buffers and starts in the order it likes.                 *)
(***************************************************************************)
EXTENDS Integers, FiniteSetsExt

CONSTANTS
  RATES,
  BUFFER_MULTIPLES,
  Default,           \* Settings::default
  TRANSFER_MS,
  MAX_PERIOD_FRAMES,
  UsedRates,         \* what the user and the host choose from
  UsedMultiples,
  Missing,           \* a value the registry does not have
  NoRate, NoSession

ASSUME SizesAssumption ==
  /\ RATES \subseteq Nat /\ \E top \in RATES : \A r \in RATES : top >= r
  /\ BUFFER_MULTIPLES \subseteq Nat \ {0}
  /\ \E top \in BUFFER_MULTIPLES : \A m \in BUFFER_MULTIPLES : top >= m
  /\ Default \in [rate : RATES, multiple : BUFFER_MULTIPLES]
  /\ UsedRates \subseteq RATES /\ UsedMultiples \subseteq BUFFER_MULTIPLES
  /\ TRANSFER_MS \in Nat /\ MAX_PERIOD_FRAMES \in Nat
  /\ NoRate \notin RATES

VARIABLES
  stored,     \* the two values of the registry key
  panel,      \* Panel.settings
  saving,     \* the value that save writes next
  object,     \* life of the AsioObject
  rate,       \* Driver.rate
  listed,     \* Driver.listed_rate
  session,    \* Driver.session
  asked,      \* the host was asked to build the session again
  watch,      \* where the settings thread is
  last,       \* the multiple it loaded last
  notified,   \* its `changed` event
  armed       \* RegNotifyChangeKeyValue on its key handle

settings == <<stored, panel, saving>>
driver == <<object, rate, listed, session, asked>>
thread == <<watch, last, notified, armed>>
vars == <<stored, panel, saving, object, rate, listed, session, asked, watch, last, notified,
          armed>>

-----------------------------------------------------------------------------
(* settings.rs                                                             *)

DivCeil(n, d) == (n + d - 1) \div d

Exponents == 0..20

NextPowerOfTwo(n) == 2 ^ Min({k \in Exponents : 2 ^ k >= n})

(* A transfer and some slack.                                              *)
TransferFrames(r) == DivCeil((r * TRANSFER_MS * 9) \div 8, 1000)

min_buffer_frames(r) == NextPowerOfTwo(TransferFrames(r))

buffer_frames(multiple, r) == min_buffer_frames(r) * multiple

max_buffer_frames(r) == buffer_frames(Max(BUFFER_MULTIPLES), r)

(* The exponents do for every rate, and the card's period for every size.  *)
ASSUME PeriodAssumption ==
  /\ \A r \in RATES : TransferFrames(r) <= 2 ^ 20
  /\ max_buffer_frames(Max(RATES)) <= MAX_PERIOD_FRAMES

(* A missing or invalid value stands for its default.                      *)
Load == [rate |-> IF stored.rate \in RATES THEN stored.rate ELSE Default.rate,
         multiple |-> IF stored.multiple \in BUFFER_MULTIPLES THEN stored.multiple
                      ELSE Default.multiple]

Init ==
  /\ stored = [rate |-> Missing, multiple |-> Missing]
  /\ panel = Default
  /\ saving = "nothing"
  /\ object = "none"
  /\ rate = NoRate /\ listed = NoRate
  /\ session = NoSession
  /\ asked = FALSE
  /\ watch = "none"
  /\ last = Default.multiple
  /\ notified = FALSE
  /\ armed = "never"

(* The key changes: the event is set once for each call of                 *)
(* RegNotifyChangeKeyValue; what changes between two calls on one handle   *)
(* sets it at the second.                                                  *)
KeyChanges ==
  /\ notified' = (notified \/ armed = "armed")
  /\ armed' = CASE armed = "armed" -> "fired"
                [] armed = "fired" -> "missed"
                [] OTHER -> armed
  /\ UNCHANGED <<watch, last>>

-----------------------------------------------------------------------------
(* The control panel                                                       *)

PanelOpens ==
  /\ saving = "nothing"
  /\ panel' = Load /\ panel' # panel
  /\ UNCHANGED <<stored, saving, driver, thread>>

(* change_settings: a rate or a multiple is chosen, and save begins.       *)
ChangeSettings(new) ==
  /\ saving = "nothing"
  /\ new # panel /\ (new.rate = panel.rate \/ new.multiple = panel.multiple)
  /\ panel' = new
  /\ saving' = "rate"
  /\ UNCHANGED <<stored, driver, thread>>

SaveRate ==
  /\ saving = "rate"
  /\ stored' = [stored EXCEPT !.rate = panel.rate]
  /\ saving' = "multiple"
  /\ KeyChanges
  /\ UNCHANGED <<panel, driver>>

SaveMultiple ==
  /\ saving = "multiple"
  /\ stored' = [stored EXCEPT !.multiple = panel.multiple]
  /\ saving' = "nothing"
  /\ KeyChanges
  /\ UNCHANGED <<panel, driver>>

(* A write fails; the rest is not written, and the panel says so.          *)
SaveFails ==
  /\ saving # "nothing"
  /\ saving' = "nothing"
  /\ UNCHANGED <<stored, panel, driver, thread>>

-----------------------------------------------------------------------------
(* The host and the ASIO driver                                            *)

Create ==
  /\ object = "none"
  /\ object' = "created"
  /\ rate' = Load.rate
  /\ listed' = NoRate
  /\ UNCHANGED <<settings, session, asked, thread>>

(* init: spawns the settings thread, if there is none and that succeeds,   *)
(* and looks for the device.                                               *)
InitObject ==
  /\ object # "none"
  /\ object' \in {object, "open"}
  /\ watch' \in IF watch = "none" THEN {"none", "starting"} ELSE {watch}
  /\ UNCHANGED <<settings, rate, listed, session, asked, last, notified, armed>>

(* The last release: the settings thread ends, the session is dropped.     *)
Release ==
  /\ object # "none" /\ watch \in {"none", "waiting", "ended"}
  /\ object' = "none"
  /\ rate' = NoRate /\ listed' = NoRate
  /\ session' = NoSession /\ asked' = FALSE
  /\ watch' = "none" /\ notified' = FALSE /\ armed' = "never"
  /\ UNCHANGED <<settings, last>>

GetBufferSize ==
  /\ object # "none"
  /\ listed' = rate
  /\ UNCHANGED <<settings, object, rate, session, asked, thread>>

(* Mutant: only the driver learns of the new rate.                         *)
SetSampleRate_Silent(r) ==
  /\ object # "none" /\ r # rate
  /\ rate' = r
  /\ UNCHANGED <<settings, object, listed, session, asked, thread>>

(* Streams are opened at one rate: the host is asked to build them again.  *)
SetSampleRate(r) ==
  /\ object # "none" /\ r # rate
  /\ rate' = r
  /\ asked' = (session # NoSession)
  /\ UNCHANGED <<settings, object, listed, session, thread>>

(* Mutant: the size has to suit the rate.                                  *)
Accepts_AtRate(frames) ==
  /\ frames >= min_buffer_frames(rate)
  /\ frames <= max_buffer_frames(Max(RATES))

(* create_buffers takes any size that suits the rate, or the rate that the *)
(* host read the sizes at.                                                 *)
Accepts(frames) ==
  /\ \/ frames >= min_buffer_frames(rate)
     \/ listed # NoRate /\ frames >= min_buffer_frames(listed)
  /\ frames <= max_buffer_frames(Max(RATES))

UpToDate == watch = "waiting" /\ ~notified

CreateBuffers(frames) ==
  /\ object = "open" /\ session = NoSession
  /\ Accepts(frames)
  /\ session' = [frames |-> frames, rate |-> rate, running |-> FALSE,
                 stale |-> frames < min_buffer_frames(rate),
                 \* history: the settings, and whether the settings thread knew them
                 multiple |-> Load.multiple,
                 followed |-> UpToDate /\ last = Load.multiple]
  /\ asked' = FALSE
  /\ UNCHANGED <<settings, object, rate, listed, thread>>

(* Mutant: the flag is taken, and the host not asked.                      *)
Start_Silent ==
  /\ session # NoSession /\ ~session.running
  /\ session' = [session EXCEPT !.running = TRUE, !.stale = FALSE]
  /\ UNCHANGED <<settings, object, rate, listed, asked, thread>>

(* The device starts. A size that suits only the rate the sizes were read  *)
(* at will do for the moment.                                              *)
Start ==
  /\ session # NoSession /\ ~session.running
  /\ session' = [session EXCEPT !.running = TRUE, !.stale = FALSE]
  /\ asked' = (asked \/ session.stale)
  /\ UNCHANGED <<settings, object, rate, listed, thread>>

Stop ==
  /\ session # NoSession /\ session.running
  /\ session' = [session EXCEPT !.running = FALSE]
  /\ UNCHANGED <<settings, object, rate, listed, asked, thread>>

DisposeBuffers ==
  /\ session # NoSession
  /\ session' = NoSession /\ asked' = FALSE
  /\ UNCHANGED <<settings, object, rate, listed, thread>>

-----------------------------------------------------------------------------
(* The settings thread                                                     *)

(* The key cannot be opened or watched.                                    *)
WatchEnds ==
  /\ watch \in {"starting", "arming"}
  /\ watch' = "ended"
  /\ UNCHANGED <<settings, driver, last, notified, armed>>

WatchLoads ==
  /\ watch = "starting"
  /\ watch' = "arming"
  /\ last' = Load.multiple
  /\ UNCHANGED <<settings, driver, notified, armed>>

(* Mutant: the settings are read before each wait.                         *)
WatchArms_Loads ==
  /\ watch = "arming"
  /\ watch' = "waiting"
  /\ notified' = (notified \/ armed = "missed")
  /\ armed' = IF armed = "missed" THEN "fired" ELSE "armed"
  /\ last' = Load.multiple
  /\ UNCHANGED <<settings, driver>>

WatchArms ==
  /\ watch = "arming"
  /\ watch' = "waiting"
  /\ notified' = (notified \/ armed = "missed")
  /\ armed' = IF armed = "missed" THEN "fired" ELSE "armed"
  /\ UNCHANGED <<settings, driver, last>>

WatchWakes ==
  /\ watch = "waiting" /\ notified
  /\ watch' = "woken"
  /\ notified' = FALSE
  /\ UNCHANGED <<settings, driver, last, armed>>

WatchCompares ==
  /\ watch = "woken"
  /\ watch' = IF Load.multiple # last THEN "applying" ELSE "arming"
  /\ last' = Load.multiple
  /\ UNCHANGED <<settings, driver, notified, armed>>

(* apply_buffer_size: looks at the session with the driver locked, and     *)
(* asks without the lock.                                                  *)
WatchApplies ==
  /\ watch = "applying"
  /\ watch' = IF session # NoSession /\ session.frames # buffer_frames(last, rate)
                THEN "asking" ELSE "arming"
  /\ UNCHANGED <<settings, driver, last, notified, armed>>

WatchAsks ==
  /\ watch = "asking"
  /\ watch' = "arming"
  /\ asked' = (session # NoSession)
  /\ UNCHANGED <<settings, object, rate, listed, session, last, notified, armed>>

-----------------------------------------------------------------------------
(* The sizes offered at rate r: the powers of two from min to max.         *)
Sizes(r) == {buffer_frames(m, r) : m \in BUFFER_MULTIPLES}

Panel ==
  \/ PanelOpens
  \/ \E r \in UsedRates, m \in UsedMultiples : ChangeSettings([rate |-> r, multiple |-> m])
  \/ SaveRate \/ SaveMultiple \/ SaveFails

Host ==
  \/ Create \/ InitObject \/ Release \/ GetBufferSize
  \/ \E r \in UsedRates : SetSampleRate(r)
  \/ \E r \in UsedRates, m \in UsedMultiples : CreateBuffers(buffer_frames(m, r))
  \/ Start \/ Stop \/ DisposeBuffers

Watch ==
  \/ WatchEnds \/ WatchLoads \/ WatchArms \/ WatchWakes
  \/ WatchCompares \/ WatchApplies \/ WatchAsks

Next == Panel \/ Host \/ Watch

Spec == Init /\ [][Next]_vars
-----------------------------------------------------------------------------
(* Properties                                                              *)

(* Whatever size the host was offered when it last asked, the driver still *)
(* takes, although the rate has changed since (driver.rs:439-442), and the *)
(* kernel driver takes the period of every session (asio.rs:160).          *)
SizesFit ==
  /\ listed # NoRate => \A frames \in Sizes(listed) : Accepts(frames)
  /\ session # NoSession => session.frames \in 1..MAX_PERIOD_FRAMES

(* A host whose session runs at another rate than the driver reports has   *)
(* been asked to build it again, and so has one whose size is too small    *)
(* for its rate, from the first start on, however starts, stops, listings  *)
(* and changes of rate are mixed.                                          *)
MismatchIsReported ==
  session # NoSession =>
    /\ session.rate # rate => asked
    /\ session.frames < min_buffer_frames(session.rate)
         => asked \/ (session.stale /\ ~session.running)

(* driver.rs:79: when the settings thread has caught up with the panel, a  *)
(* host whose session was built under another multiple, and has not the    *)
(* new size already, has been asked to build it again: no change is missed *)
(* while the thread compares, asks or has not registered again - given     *)
(* that it knew the settings when the session was built.                   *)
ChangeIsAsked ==
  /\ session # NoSession /\ UpToDate
  /\ session.followed
  /\ Load.multiple # session.multiple
  /\ session.frames # buffer_frames(Load.multiple, rate)
  => asked

-----------------------------------------------------------------------------

Frames == {buffer_frames(m, r) : m \in UsedMultiples, r \in UsedRates}

TypeOK ==
  /\ rate \in RATES \cup {NoRate} /\ listed \in RATES \cup {NoRate}
  /\ session \in [frames : Frames, rate : RATES \cup {NoRate}, running : BOOLEAN,
                  stale : BOOLEAN, multiple : BUFFER_MULTIPLES, followed : BOOLEAN]
                \cup {NoSession}
  /\ asked \in BOOLEAN /\ notified \in BOOLEAN
  /\ last \in BUFFER_MULTIPLES
  /\ object \in {"none", "created", "open"}
  /\ watch \in {"none", "starting", "arming", "waiting", "woken", "applying", "asking", "ended"}
  /\ armed \in {"never", "armed", "fired", "missed"}

(* A thread that waits unnotified will hear of the next change.            *)
WaitsArmed == watch = "waiting" /\ ~notified => armed = "armed"

Followed == session # NoSession /\ session.followed /\ watch # "ended"

(* What is between a change and the request that follows from it.          *)
ChangeIsOnItsWay ==
  Followed =>
    /\ watch \notin {"none", "starting"} /\ armed # "never"
    /\ last = Load.multiple \/ notified \/ armed = "missed" \/ watch = "woken"
    /\ \/ asked
       \/ last = session.multiple
       \/ session.frames = buffer_frames(last, rate)
       \/ watch \in {"applying", "asking"}

SessionHasObject == session # NoSession => object # "none"

IInv ==
  /\ TypeOK /\ SessionHasObject
  /\ MismatchIsReported
  /\ WaitsArmed /\ ChangeIsOnItsWay

=============================================================================
