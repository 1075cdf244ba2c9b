-------------------------------- MODULE Audio -------------------------------
(***************************************************************************)
(* The control plane of the kernel driver: driver/ak1-acx/src/audio.rs     *)
(* with its callers, the stream callbacks (rt.rs, circuit.rs), the         *)
(* requests of the ASIO driver (asio.rs) and the device's power callbacks  *)
(* (lib.rs).                                                               *)
(*                                                                         *)
(* Two locks: the control lock is held across starting and stopping the    *)
(* engine, the audio (spin) lock for single accesses to `shared`,          *)
(* `running` and `asio`. An action is a piece of code between two points   *)
(* where another thread can change what it reads next: holding the control *)
(* lock, that is only the start of the engine, during which streams are    *)
(* still created, destroyed, run and paused.                               *)
(***************************************************************************)
EXTENDS Integers, FiniteSets

CONSTANTS
  Streams,   \* stream objects; one is reused after it was destroyed
  Slots,     \* Slot: the circuits, one running stream each
  SlotOf,    \* the slot of each stream
  Files,     \* file objects of the ASIO driver's handles
  Calls,     \* requests to stop one file may have under way at once
  Rates,     \* sample rates
  NoRate, NoStream, NoFile

ASSUME AudioAssumption ==
  /\ SlotOf \in [Streams -> Slots]
  /\ IsFiniteSet(Streams)
  /\ NoRate \notin Rates /\ NoStream \notin Streams /\ NoFile \notin Files

VARIABLES
  streams,    \* shared.streams: counts the streams and the session
  rate,       \* shared.rate
  running,    \* the running stream of each slot
  asio,       \* owner of the session, NoFile if there is none
  engine,     \* rate of the engine, NoRate if there is none
  prepared,   \* hardware.prepared
  stream,     \* where each stream is in its life
  ownRate,    \* RtStream.rate
  control,    \* what the holder of the control lock is doing
  holder,     \* the stream or file it does it for
  target,     \* the rate it starts the engine with
  previous,   \* the rate start_asio replaced
  pending,    \* stop requests past the first check of stop_asio
  power,      \* the device's power state
  \* history
  asioRate,   \* rate of the session
  failed,     \* the last attempt to start the engine failed
  rateLost    \* a session that failed to start took a stream's rate away

shared == <<streams, rate>>
hardware == <<engine, prepared>>
job == <<control, holder, target, previous>>
history == <<asioRate, failed, rateLost>>
vars == <<streams, rate, running, asio, engine, prepared, stream, ownRate, control, holder,
          target, previous, pending, power, asioRate, failed, rateLost>>

NoJob ==
  /\ control' = "free"
  /\ holder' = NoStream
  /\ target' = NoRate
  /\ previous' = NoRate

-----------------------------------------------------------------------------
(* audio.rs                                                                *)

Init ==
  /\ streams = 0
  /\ rate = NoRate
  /\ running = [slot \in Slots |-> NoStream]
  /\ asio = NoFile
  /\ engine = NoRate
  /\ prepared = 0
  /\ stream = [s \in Streams |-> "none"]
  /\ ownRate = [s \in Streams |-> NoRate]
  /\ control = "free"
  /\ holder = NoStream
  /\ target = NoRate
  /\ previous = NoRate
  /\ pending = {}
  /\ power = "added"
  /\ asioRate = NoRate
  /\ failed = FALSE
  /\ rateLost = FALSE

(* Mutants: a stream is not counted; a stream replaces the rate.           *)
claim_rate_Uncounted(r) == rate' = (IF rate = NoRate THEN r ELSE rate) /\ UNCHANGED streams

claim_rate_Replaces(r) == streams' = streams + 1 /\ rate' = r

claim_rate(r) ==
  /\ streams' = streams + 1
  /\ rate' = IF rate = NoRate THEN r ELSE rate

(* Mutant: the rate outlives its last user.                                *)
release_rate_Keeps == streams' = streams - 1 /\ UNCHANGED rate

release_rate ==
  /\ streams' = streams - 1
  /\ rate' = IF streams' = 0 THEN NoRate ELSE rate

(* Mutant: the slot is cleared whoever runs there.                         *)
pause_Any(s) == running' = [running EXCEPT ![SlotOf[s]] = NoStream]

(* Clears the slot of s if s still is the one that runs there.             *)
pause(s) ==
  running' = IF running[SlotOf[s]] = s
               THEN [running EXCEPT ![SlotOf[s]] = NoStream]
               ELSE running

(* Mutant: any release stops the engine.                                   *)
unprepare_StopsAlways ==
  /\ prepared' = IF prepared = 0 THEN 0 ELSE prepared - 1
  /\ engine' = NoRate

(* One user of the engine less; the last one stops it.                     *)
unprepare ==
  /\ prepared' = IF prepared = 0 THEN 0 ELSE prepared - 1
  /\ engine' = IF prepared' = 0 THEN NoRate ELSE engine

start_engine(r) == engine' = r /\ failed' = FALSE

start_engine_fails == engine' = NoRate /\ failed' = TRUE

-----------------------------------------------------------------------------
(* Streams, in the order in which ACX calls their callbacks. Requests are  *)
(* dispatched while the device is in D0 (the framework's power-managed     *)
(* queues); closing is possible at any time.                               *)

CreateStream(s, r) ==
  /\ power = "D0"
  /\ stream[s] = "none"
  /\ stream' = [stream EXCEPT ![s] = "claimed"]
  /\ ownRate' = [ownRate EXCEPT ![s] = r]
  /\ claim_rate(r)
  /\ UNCHANGED <<running, asio, hardware, job, pending, power, history>>

(* AcxRtStreamCreate returns.                                              *)
StreamCreated(s) ==
  /\ stream[s] = "claimed"
  /\ stream' = [stream EXCEPT ![s] = "idle"]
  /\ UNCHANGED <<shared, running, asio, hardware, ownRate, job, pending, power, history>>

(* AcxRtStreamCreate fails, or the stream is destroyed later.              *)
DestroyStream(s) ==
  /\ stream[s] \in {"claimed", "idle"}
  /\ stream' = [stream EXCEPT ![s] = "none"]
  /\ ownRate' = [ownRate EXCEPT ![s] = NoRate]
  /\ release_rate
  /\ UNCHANGED <<running, asio, hardware, job, pending, power, history>>

(* prepare, up to the start of the engine if it does not run yet.          *)
Prepare(s) ==
  /\ power = "D0"
  /\ control = "free"
  /\ stream[s] = "idle"
  /\ IF engine # NoRate
       THEN /\ stream' = [stream EXCEPT ![s] = "prepared"]
            /\ prepared' = prepared + 1
            /\ UNCHANGED job
       ELSE /\ stream' = [stream EXCEPT ![s] = "preparing"]
            /\ control' = "prepare"
            /\ holder' = s
            /\ target' = IF rate = NoRate THEN ownRate[s] ELSE rate
            /\ UNCHANGED <<previous, prepared>>
  /\ UNCHANGED <<shared, running, asio, engine, ownRate, pending, power, history>>

PrepareStarts ==
  /\ control = "prepare"
  /\ start_engine(target)
  /\ prepared' = prepared + 1
  /\ stream' = [stream EXCEPT ![holder] = "prepared"]
  /\ NoJob
  /\ UNCHANGED <<shared, running, asio, ownRate, pending, power, asioRate, rateLost>>

(* Mutant: a stream that failed to prepare stays counted.                  *)
PrepareFails_Counted ==
  /\ control = "prepare"
  /\ start_engine_fails
  /\ prepared' = prepared + 1
  /\ stream' = [stream EXCEPT ![holder] = "idle"]
  /\ NoJob
  /\ UNCHANGED <<shared, running, asio, ownRate, pending, power, asioRate, rateLost>>

PrepareFails ==
  /\ control = "prepare"
  /\ start_engine_fails
  /\ stream' = [stream EXCEPT ![holder] = "idle"]
  /\ NoJob
  /\ UNCHANGED <<shared, running, asio, prepared, ownRate, pending, power, asioRate, rateLost>>

(* Another stream may run in the slot; it is replaced.                     *)
Run(s) ==
  /\ power = "D0"
  /\ stream[s] = "prepared"
  /\ stream' = [stream EXCEPT ![s] = "running"]
  /\ running' = [running EXCEPT ![SlotOf[s]] = s]
  /\ UNCHANGED <<shared, asio, hardware, ownRate, job, pending, power, history>>

Pause(s) ==
  /\ stream[s] = "running"
  /\ stream' = [stream EXCEPT ![s] = "prepared"]
  /\ pause(s)
  /\ UNCHANGED <<shared, asio, hardware, ownRate, job, pending, power, history>>

(* Mutant: release leaves it to ACX to have paused the stream.             *)
Release_WithoutPause(s) ==
  /\ stream[s] \in {"prepared", "running"}
  /\ stream' = [stream EXCEPT ![s] = "releasing"]
  /\ UNCHANGED <<shared, running, asio, hardware, ownRate, job, pending, power, history>>

(* release pauses the stream before it waits for the control lock.         *)
Release(s) ==
  /\ stream[s] \in {"prepared", "running"}
  /\ stream' = [stream EXCEPT ![s] = "releasing"]
  /\ pause(s)
  /\ UNCHANGED <<shared, asio, hardware, ownRate, job, pending, power, history>>

Released(s) ==
  /\ control = "free"
  /\ stream[s] = "releasing"
  /\ stream' = [stream EXCEPT ![s] = "idle"]
  /\ unprepare
  /\ UNCHANGED <<shared, running, asio, ownRate, job, pending, power, history>>

-----------------------------------------------------------------------------
(* ASIO sessions                                                           *)

(* Mutant: an engine that runs is kept, whatever its rate.                 *)
StartAsio_KeepsEngine(f, r) ==
  /\ power = "D0"
  /\ control = "free"
  /\ asio = NoFile
  /\ streams' = streams + 1
  /\ rate' = r
  /\ control' = "start"
  /\ holder' = f
  /\ target' = r
  /\ previous' = rate
  /\ UNCHANGED <<running, asio, engine, prepared, stream, ownRate, pending, power, history>>

(* start_asio up to the start of the engine; BUSY if there is a session.   *)
StartAsio(f, r) ==
  /\ power = "D0"
  /\ control = "free"
  /\ asio = NoFile
  /\ streams' = streams + 1
  /\ rate' = r
  /\ engine' = IF rate = r THEN engine ELSE NoRate
  /\ control' = "start"
  /\ holder' = f
  /\ target' = r
  /\ previous' = rate
  /\ UNCHANGED <<running, asio, prepared, stream, ownRate, pending, power, history>>

(* The engine still runs at the rate, or is started.                       *)
AsioStarts ==
  /\ control = "start"
  /\ IF engine = NoRate THEN start_engine(target) ELSE UNCHANGED <<engine, failed>>
  /\ prepared' = prepared + 1
  /\ asio' = holder
  /\ asioRate' = target
  /\ NoJob
  /\ UNCHANGED <<shared, running, stream, ownRate, pending, power, rateLost>>

(* Mutant: the session stays counted when the engine does not start.       *)
AsioFails_StaysCounted ==
  /\ control = "start"
  /\ engine = NoRate
  /\ rate' = previous
  /\ UNCHANGED <<streams, rateLost>>
  /\ start_engine_fails
  /\ NoJob
  /\ UNCHANGED <<running, asio, prepared, stream, ownRate, pending, power, asioRate>>

(* The engine does not start; the previous rate is restored, and the       *)
(* engine at that rate if streams are prepared, unless that fails too.     *)
AsioFails ==
  /\ control = "start"
  /\ engine = NoRate
  /\ streams' = streams - 1
  /\ rate' = IF streams' = 0 THEN NoRate ELSE previous
  /\ rateLost' = (rateLost \/ (streams' > 0 /\ previous = NoRate))
  /\ \/ start_engine_fails
     \/ rate' # NoRate /\ prepared > 0 /\ start_engine(rate')
  /\ NoJob
  /\ UNCHANGED <<running, asio, prepared, stream, ownRate, pending, power, asioRate>>

(* stop_asio, for PROPERTY_STOP and for the cleanup of a handle: the check *)
(* under the audio lock, before the control lock.                          *)
StopAsio(f, c) ==
  /\ <<f, c>> \notin pending
  /\ asio = f
  /\ pending' = pending \cup {<<f, c>>}
  /\ UNCHANGED <<shared, running, asio, hardware, stream, ownRate, job, power, history>>

(* Mutant: the session is taken without asking again whose it is.          *)
TakeAsio_Unchecked(f, c) ==
  /\ control = "free"
  /\ <<f, c>> \in pending
  /\ pending' = pending \ {<<f, c>>}
  /\ IF asio # NoFile
       THEN /\ asio' = NoFile
            /\ asioRate' = NoRate
            /\ unprepare
            /\ control' = "stop"
            /\ UNCHANGED <<holder, target, previous>>
       ELSE UNCHANGED <<asio, asioRate, hardware, job>>
  /\ UNCHANGED <<shared, running, stream, ownRate, power, failed, rateLost>>

(* With the control lock: the session is taken if it still is f's.         *)
TakeAsio(f, c) ==
  /\ control = "free"
  /\ <<f, c>> \in pending
  /\ pending' = pending \ {<<f, c>>}
  /\ IF asio = f
       THEN /\ asio' = NoFile
            /\ asioRate' = NoRate
            /\ unprepare
            /\ control' = "stop"
            /\ UNCHANGED <<holder, target, previous>>
       ELSE UNCHANGED <<asio, asioRate, hardware, job>>
  /\ UNCHANGED <<shared, running, stream, ownRate, power, failed, rateLost>>

AsioStopped ==
  /\ control = "stop"
  /\ release_rate
  /\ NoJob
  /\ UNCHANGED <<running, asio, hardware, stream, ownRate, pending, power, history>>

-----------------------------------------------------------------------------
(* Power (lib.rs). The framework lets no request run across D0 exit.       *)

Quiet == control = "free" /\ \A s \in Streams : stream[s] \notin {"claimed", "preparing"}

PrepareHardware ==
  /\ power = "added"
  /\ power' = "ready"
  /\ UNCHANGED <<shared, running, asio, hardware, stream, ownRate, job, pending, history>>

(* D0 entry from D3Final: PrepareHardware has just set the device up.      *)
FirstD0Entry ==
  /\ power = "ready"
  /\ power' = "D0"
  /\ UNCHANGED <<shared, running, asio, hardware, stream, ownRate, job, pending, history>>

(* Mutant: the device leaves D0 with its engine running.                   *)
D0Exit_WithEngine ==
  /\ power = "D0"
  /\ Quiet
  /\ power' = "low"
  /\ UNCHANGED <<shared, running, asio, hardware, stream, ownRate, job, pending, history>>

(* suspend: the engine stops, prepared streams stay prepared.              *)
D0Exit ==
  /\ power = "D0"
  /\ Quiet
  /\ power' = "low"
  /\ engine' = NoRate
  /\ UNCHANGED <<shared, running, asio, prepared, stream, ownRate, job, pending, history>>

(* restore succeeds and resume waits for the control lock, or it fails and *)
(* the device with it.                                                     *)
D0Entry ==
  /\ power = "low"
  /\ power' \in {"restored", "failed"}
  /\ UNCHANGED <<shared, running, asio, hardware, stream, ownRate, job, pending, history>>

(* resume: the engine starts again for what is prepared, if it can.        *)
Resume ==
  /\ power = "restored"
  /\ control = "free"
  /\ power' = "D0"
  /\ IF rate # NoRate /\ prepared > 0 /\ engine = NoRate
       THEN start_engine(rate) \/ start_engine_fails
       ELSE UNCHANGED <<engine, failed>>
  /\ UNCHANGED <<shared, running, asio, prepared, stream, ownRate, job, pending, asioRate,
                 rateLost>>

-----------------------------------------------------------------------------

Next ==
  \/ \E s \in Streams :
       \/ \E r \in Rates : CreateStream(s, r)
       \/ StreamCreated(s) \/ DestroyStream(s)
       \/ Prepare(s) \/ Run(s) \/ Pause(s) \/ Release(s) \/ Released(s)
  \/ PrepareStarts \/ PrepareFails
  \/ \E f \in Files, r \in Rates : StartAsio(f, r)
  \/ AsioStarts \/ AsioFails
  \/ \E f \in Files, c \in Calls : StopAsio(f, c) \/ TakeAsio(f, c)
  \/ AsioStopped
  \/ PrepareHardware \/ FirstD0Entry \/ D0Exit \/ D0Entry \/ Resume

Spec == Init /\ [][Next]_vars
-----------------------------------------------------------------------------

TypeOK ==
  /\ streams \in Nat
  /\ rate \in Rates \cup {NoRate}
  /\ running \in [Slots -> Streams \cup {NoStream}]
  /\ asio \in Files \cup {NoFile}
  /\ engine \in Rates \cup {NoRate}
  /\ prepared \in Nat
  /\ stream \in [Streams -> {"none", "claimed", "idle", "preparing", "prepared", "running",
                             "releasing"}]
  /\ ownRate \in [Streams -> Rates \cup {NoRate}]
  /\ control \in {"free", "prepare", "start", "stop"}
  /\ holder \in Streams \cup Files \cup {NoStream}
  /\ target \in Rates \cup {NoRate}
  /\ previous \in Rates \cup {NoRate}
  /\ pending \subseteq Files \X Calls
  /\ power \in {"added", "ready", "D0", "low", "restored", "failed"}
  /\ asioRate \in Rates \cup {NoRate}
  /\ failed \in BOOLEAN
  /\ rateLost \in BOOLEAN

One(condition) == IF condition THEN 1 ELSE 0

Existing == {s \in Streams : stream[s] # "none"}

Prepared == {s \in Streams : stream[s] \in {"prepared", "running", "releasing"}}

(* shared.streams counts the streams that exist and the session, from the  *)
(* start of start_asio to the end of stop_asio, through every failure.     *)
StreamsCounted ==
  streams = Cardinality(Existing) + One(asio # NoFile \/ control \in {"start", "stop"})

(* hardware.prepared counts the prepared streams and the session, so that  *)
(* the saturating subtractions never saturate.                             *)
PreparedCounted == prepared = Cardinality(Prepared) + One(asio # NoFile)

(* Nothing but a user of the engine keeps it, and only in D0: an engine    *)
(* left running after the last release or across D0 exit would complete    *)
(* transfers into a device that is gone.                                   *)
EngineIsUsed == engine # NoRate => prepared > 0 /\ power = "D0"

(* audio.rs:3-4: the engine runs while any stream is prepared and the      *)
(* device is in D0, unless the device just refused to start it (or the     *)
(* rate was lost, see DeviceClock).                                        *)
EngineRuns ==
  control = "free" /\ power = "D0" /\ prepared > 0 /\ ~failed /\ ~rateLost
    => engine # NoRate

(* The engine runs at the clock's rate, and the session at the engine's,   *)
(* through restarts, failed starts and sleep.                              *)
OneRate ==
  /\ engine # NoRate /\ ~rateLost => engine = rate
  /\ asio # NoFile => rate = asioRate

(* The engine runs exactly while it is used, at the rate of its users.     *)
EngineMatchesUse == EngineIsUsed /\ EngineRuns /\ OneRate

(* The engine's completion routines call into the streams of `running`     *)
(* under the audio lock: none of them has been released or destroyed.      *)
NoDanglingStream ==
  \A slot \in Slots : running[slot] # NoStream =>
    /\ stream[running[slot]] = "running"
    /\ SlotOf[running[slot]] = slot

(* A stream that runs is only taken out of its slot by its own pause or by *)
(* another stream that runs there: pausing a stream that was replaced      *)
(* leaves its successor alone.                                             *)
OnlyOwnPause ==
  [][\A slot \in Slots :
       running[slot] # NoStream /\ running'[slot] = NoStream
         => stream'[running[slot]] # "running"]_vars

(* A session is only ended by a request of the file that started it, also  *)
(* if it ended and another began while the request waited for the lock.    *)
OnlyOwnerStops ==
  [][asio # NoFile /\ asio' # asio => \E c \in Calls : <<asio, c>> \in pending]_vars

(* Streams and sessions end by nobody else's doing, whatever replaced them *)
(* in the meantime.                                                        *)
OnlyOwnerEnds == OnlyOwnPause /\ OnlyOwnerStops

(* The device's clock follows DeviceClock.                                 *)
Clock == INSTANCE DeviceClock WITH
  users <- Existing,
  session <- IF control = "start" THEN "starting"
             ELSE IF asio # NoFile \/ control = "stop" THEN "on" ELSE "none"

(* audio.rs:1-2: a session sets the rate, otherwise the first stream does, *)
(* until every stream is gone - while no failed session start met the      *)
(* creation of the only streams.                                           *)
FollowsClock == Clock!Init /\ [][rateLost' \/ [Clock!Next]_Clock!vars]_vars

(* The clock is set exactly while a stream or a session uses it, so that   *)
(* whoever finds the engine stopped finds the rate to start it with.       *)
ClockSetWhileUsed == ~rateLost => Clock!SetWhileUsed

(* Both counts are right and the clock follows them.                       *)
UsesAreCounted == StreamsCounted /\ PreparedCounted /\ ClockSetWhileUsed

(* FollowsClock without its exception. A stream created while start_asio is    *)
(* starting the engine finds the session's rate set; when the start then   *)
(* fails, the rate from before the session is restored, and that is none.  *)
ClockAsDocumented == Clock!Init /\ [][[Clock!Next]_Clock!vars]_vars

-----------------------------------------------------------------------------

(* What the holder of the control lock relies on while it holds the lock:  *)
(* nobody else starts or stops the engine, begins or ends a session, or    *)
(* takes the rate away that the engine is being started with.              *)
JobIsSafe ==
  /\ \A s \in Streams : stream[s] = "preparing" => control = "prepare" /\ holder = s
  /\ control = "prepare" =>
       /\ holder \in Streams /\ stream[holder] = "preparing"
       /\ engine = NoRate /\ power = "D0"
       /\ target \in Rates /\ (~rateLost => target = rate)
  /\ control = "start" =>
       /\ holder \in Files /\ asio = NoFile /\ power = "D0"
       /\ target \in Rates /\ target = rate
  /\ control = "stop" => asio = NoFile

(* EngineRuns, also while a session is ending.                             *)
EngineStays ==
  control \in {"free", "stop"} /\ power = "D0" /\ prepared > 0 /\ ~failed /\ ~rateLost
    => engine # NoRate

(* A device that was never in D0 has no users.                             *)
FreshIsUnused == power \in {"added", "ready"} => prepared = 0

(* A user of the clock has a rate.                                         *)
UsersHaveRates ==
  /\ \A s \in Streams : stream[s] # "none" => ownRate[s] \in Rates
  /\ asio # NoFile => asioRate \in Rates

(* ClockSetWhileUsed in terms of the count.                                *)
RateIsCounted == ~rateLost => (rate = NoRate <=> streams = 0)

(* The inductive invariant of the proofs.                                  *)
IInv ==
  /\ TypeOK
  /\ StreamsCounted
  /\ PreparedCounted
  /\ JobIsSafe
  /\ EngineIsUsed
  /\ EngineStays
  /\ OneRate
  /\ NoDanglingStream
  /\ RateIsCounted
  /\ FreshIsUnused
  /\ UsersHaveRates

=============================================================================
