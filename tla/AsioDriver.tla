------------------------------ MODULE AsioDriver -----------------------------
(***************************************************************************)
(* The ASIO driver: one AsioObject of asio/src/driver.rs with its session, *)
(* the streaming threads and events of asio/src/duplex.rs, and the thread  *)
(* that follows the settings. The kernel driver is seen through its        *)
(* property set: who streams, and how many periods of input wait.          *)
(*                                                                         *)
(* The driver mutex is `lock`. Most calls take it for one access, which is *)
(* one action here. start keeps it while the device starts, and            *)
(* create_buffers while it asks the host for time info and opens the       *)
(* device. A streaming thread and the settings thread call the host back   *)
(* without it, and the host may call the driver from all these callbacks.  *)
(***************************************************************************)
EXTENDS Integers, FiniteSets

CONSTANTS
  Sessions,    \* sessions with their buffers; one is reused after disposal
  Workers,     \* streaming threads; one is reused after it ended and was joined
  Host,        \* the host's own thread
  Watch,       \* the settings thread
  FromSwitch,  \* the calls a host makes from bufferSwitch
  FromReset,   \* the calls a host makes from a reset request
  FromCreate,  \* the calls it makes when createBuffers asks it for time info
  MaxPeriods,  \* periods the kernel driver's ring holds
  NoSession, NoThread,
  Nobody, Other   \* kernel: no session, one of another program

ASSUME AsioDriverAssumption ==
  /\ MaxPeriods \in Nat \ {0}
  /\ NoSession \notin Sessions /\ NoThread \notin Workers \cup {Host, Watch}
  /\ Host \notin Workers /\ Watch \notin Workers /\ Host # Watch
  /\ Nobody \notin Sessions /\ Other \notin Sessions

Callers == Workers \cup {Host, Watch}

VARIABLES
  lock,      \* who holds Driver between two actions
  session,   \* Driver.session
  duplex,    \* the sessions: buffers, handles, flags, events
  call,      \* the call each thread has under way
  worker,    \* where each streaming thread is
  of,        \* the session it streams for
  kernel,    \* whose session the kernel driver runs
  periods,   \* complete input periods it holds
  there,     \* the card is connected
  stalled,   \* it delivers nothing although it streams
  object,    \* life of the AsioObject
  watch      \* where the settings thread is

device == <<kernel, periods, there, stalled>>
vars == <<lock, session, duplex, call, worker, of, kernel, periods, there, stalled, object, watch>>

Idle == [pc |-> "idle", joinee |-> NoThread, on |-> NoSession]

(* A session that does not exist: its events are closed, its buffers freed.*)
Freed == [alive |-> FALSE, valid |-> FALSE, running |-> FALSE, thread |-> NoThread,
          stop |-> FALSE, period |-> FALSE]

(* A thread between its first and its last use of a session.               *)
Streaming(w) == worker[w] \in {"wait", "read", "switch", "write"}

(* No call that changes something is under way.                            *)
ControlFree == \A t \in Callers : call[t].pc \in {"idle", "query"}

(* Where a host may call the driver from: its own thread, and callbacks.   *)
MayCall(t, op) ==
  /\ object = "open" /\ call[t] = Idle
  /\ \/ t = Host
     \/ t = Watch /\ watch = "reset" /\ op \in FromReset
     \/ t \in Workers /\ worker[t] = "switch" /\ op \in FromSwitch
     \/ t \in Workers /\ worker[t] = "reset" /\ op \in FromReset

(* A host controls the driver with one call at a time.                     *)
MayControl(t, op) == MayCall(t, op) /\ ControlFree

Init ==
  /\ lock = NoThread
  /\ session = NoSession
  /\ duplex = [s \in Sessions |-> Freed]
  /\ call = [t \in Callers |-> Idle]
  /\ worker = [w \in Workers |-> "none"]
  /\ of = [w \in Workers |-> NoSession]
  /\ kernel = Nobody
  /\ periods = 0
  /\ there = TRUE
  /\ stalled = FALSE
  /\ object = "open"
  /\ watch = "wait"

-----------------------------------------------------------------------------
(* Calls                                                                   *)

(* Getters and setters: the lock for one access.                           *)
Query(t) ==
  /\ MayCall(t, "query") /\ t # Host
  /\ call' = [call EXCEPT ![t].pc = "query"]
  /\ UNCHANGED <<lock, session, duplex, worker, of, device, object, watch>>

(* Whoever holds the lock, this thread included, must release it first: a  *)
(* Mutex of Rust is not reentrant.                                         *)
QueryReturns(t) ==
  /\ call[t].pc \in {"query", "asking"} /\ lock = NoThread
  /\ call' = [call EXCEPT ![t] = IF @.pc = "asking" THEN [Idle EXCEPT !.pc = "creating"] ELSE Idle]
  /\ UNCHANGED <<lock, session, duplex, worker, of, device, object, watch>>

(* The card's filter is there: init has found it, Duplex::open opens it.   *)
find_device == there

(* createBuffers, under the lock: buffers for the channels, and a question *)
(* to the host, whose callback may call the driver.                        *)
CreateBuffers(t) ==
  /\ MayControl(t, "create") /\ lock = NoThread
  /\ session = NoSession
  /\ lock' = t
  /\ call' = [call EXCEPT ![t].pc = "creating"]
  /\ UNCHANGED <<session, duplex, worker, of, device, object, watch>>

(* The callback uses a getter.                                             *)
CreateAsks(t) ==
  /\ call[t].pc = "creating" /\ "query" \in FromCreate
  /\ call' = [call EXCEPT ![t].pc = "asking"]
  /\ UNCHANGED <<lock, session, duplex, worker, of, device, object, watch>>

(* It has answered; a handle to the device and two events.                 *)
BuffersCreated(t, s) ==
  /\ call[t].pc = "creating" /\ find_device
  /\ ~duplex[s].alive /\ \A w \in Workers : Streaming(w) => of[w] # s
  /\ session' = s
  /\ duplex' = [duplex EXCEPT ![s] = [Freed EXCEPT !.alive = TRUE, !.valid = TRUE]]
  /\ lock' = NoThread
  /\ call' = [call EXCEPT ![t] = Idle]
  /\ UNCHANGED <<worker, of, device, object, watch>>

(* The device cannot be opened, or an event not created.                   *)
CreateFails(t) ==
  /\ call[t].pc = "creating"
  /\ lock' = NoThread
  /\ call' = [call EXCEPT ![t] = Idle]
  /\ UNCHANGED <<session, duplex, worker, of, device, object, watch>>

(* The kernel driver's property set (driver/ak1-acx/src/asio.rs). A handle *)
(* is good for one session at a time, and only for its own.                *)
KernelStarts(s) ==
  /\ kernel = Nobody /\ duplex[s].valid
  /\ kernel' = s /\ periods' = 0

KernelStops(s) == kernel' = (IF kernel = s THEN Nobody ELSE kernel)

KernelReads(s) ==
  IF kernel # s THEN "error" ELSE IF periods = 0 THEN "nothing" ELSE "period"

KernelWrites(s) == IF kernel # s THEN "error" ELSE "taken"

(* start: the events are reset before the kernel driver can set them.      *)
Start(t) ==
  /\ MayControl(t, "start") /\ lock = NoThread
  /\ session # NoSession /\ ~duplex[session].running
  /\ lock' = t
  /\ duplex' = [duplex EXCEPT ![session].period = FALSE, ![session].stop = FALSE]
  /\ call' = [call EXCEPT ![t].pc = "starting"]
  /\ UNCHANGED <<session, worker, of, device, object, watch>>

(* The device refuses: gone, taken by another program, or out of order.    *)
StartFails(t) ==
  /\ call[t].pc = "starting"
  /\ lock' = NoThread
  /\ call' = [call EXCEPT ![t] = Idle]
  /\ UNCHANGED <<session, duplex, worker, of, device, object, watch>>

(* It starts; the streaming thread is spawned.                             *)
Started(t, w) ==
  /\ call[t].pc = "starting"
  /\ KernelStarts(session)
  /\ worker[w] = "none" /\ \A u \in Callers : call[u].joinee # w
  /\ worker' = [worker EXCEPT ![w] = "wait"]
  /\ of' = [of EXCEPT ![w] = session]
  /\ duplex' = [duplex EXCEPT ![session].running = TRUE, ![session].thread = w]
  /\ lock' = NoThread
  /\ call' = [call EXCEPT ![t] = Idle]
  /\ UNCHANGED <<session, there, stalled, object, watch>>

(* Mutant: the streams end before the thread that uses them.               *)
Stop_StreamsFirst(t) ==
  /\ MayControl(t, "stop") /\ lock = NoThread
  /\ session # NoSession /\ duplex[session].running
  /\ call' = [call EXCEPT ![t] = [pc |-> "stopping", joinee |-> duplex[session].thread,
                                  on |-> session]]
  /\ duplex' = [duplex EXCEPT ![session].running = FALSE, ![session].stop = TRUE,
                              ![session].thread = NoThread]
  /\ kernel' = IF kernel = session THEN Nobody ELSE kernel
  /\ UNCHANGED <<lock, session, worker, of, periods, there, stalled, object, watch>>

(* stop, as far as it holds the lock: takes the thread and signals it.     *)
Stop(t) ==
  /\ MayControl(t, "stop") /\ lock = NoThread
  /\ session # NoSession /\ duplex[session].running
  /\ call' = [call EXCEPT ![t] = [pc |-> "stopping", joinee |-> duplex[session].thread,
                                  on |-> session]]
  /\ duplex' = [duplex EXCEPT ![session].running = FALSE, ![session].stop = TRUE,
                              ![session].thread = NoThread]
  /\ UNCHANGED <<lock, session, worker, of, device, object, watch>>

(* Mutants: nobody is waited for; a thread waits for itself.               *)
Joined_AtOnce(t) == TRUE

Joined_Itself(t) == \A w \in Workers : call[t].joinee = w => worker[w] = "none"

(* join_worker: the thread has ended, or is the one that waits.            *)
Joined(t) ==
  \A w \in Workers \ {t} : call[t].joinee = w => worker[w] = "none"

(* Its errors are ignored: there is nothing to stop then.                  *)
StopStreams(s) == KernelStops(s)

(* stop, after the thread ended: stops the session there is now.           *)
Stopped(t) ==
  /\ call[t].pc = "stopping" /\ Joined(t) /\ lock = NoThread
  /\ StopStreams(session)
  /\ call' = [call EXCEPT ![t] = Idle]
  /\ UNCHANGED <<lock, session, duplex, worker, of, periods, there, stalled, object, watch>>

(* Mutant: the thread's handle is dropped, which detaches the thread.      *)
BeginDrop_Detaches(t) ==
  /\ call' = [call EXCEPT ![t] = [pc |-> "dropping", joinee |-> NoThread, on |-> session]]
  /\ duplex' = [duplex EXCEPT ![session].thread = NoThread,
                              ![session].stop = @ \/ duplex[session].thread # NoThread]
  /\ session' = NoSession

(* Session::drop begins: Duplex::drop signals the thread.                  *)
BeginDrop(t) ==
  /\ call' = [call EXCEPT ![t] = [pc |-> "dropping", joinee |-> duplex[session].thread,
                                  on |-> session]]
  /\ duplex' = [duplex EXCEPT ![session].thread = NoThread,
                              ![session].stop = @ \/ duplex[session].thread # NoThread]
  /\ session' = NoSession

(* disposeBuffers takes the session and drops it without the lock.         *)
DisposeBuffers(t) ==
  /\ MayControl(t, "dispose") /\ lock = NoThread
  /\ session # NoSession
  /\ BeginDrop(t)
  /\ UNCHANGED <<lock, worker, of, device, object, watch>>

(* Mutant: the streams of a dropped session go on.                         *)
Dropped_Streaming(t) ==
  /\ call[t].pc = "dropping" /\ Joined(t)
  /\ duplex' = [duplex EXCEPT ![call[t].on] = Freed]
  /\ object' = IF object = "closing" THEN "gone" ELSE object
  /\ call' = [call EXCEPT ![t] = Idle]
  /\ UNCHANGED <<lock, session, worker, of, device, watch>>

(* The streams end, the events are closed and the buffers freed; if the    *)
(* object was being released, it is gone.                                  *)
Dropped(t) ==
  /\ call[t].pc = "dropping" /\ Joined(t)
  /\ StopStreams(call[t].on)
  /\ duplex' = [duplex EXCEPT ![call[t].on] = Freed]
  /\ object' = IF object = "closing" THEN "gone" ELSE object
  /\ call' = [call EXCEPT ![t] = Idle]
  /\ UNCHANGED <<lock, session, worker, of, periods, there, stalled, watch>>

(* The last release, while no call is under way: the settings thread is    *)
(* told to quit.                                                           *)
Release(t) ==
  /\ MayControl(t, "release") /\ \A u \in Callers : call[u] = Idle
  /\ object' = "closing"
  /\ call' = [call EXCEPT ![t].pc = "quitting"]
  /\ UNCHANGED <<lock, session, duplex, worker, of, device, watch>>

(* Mutant: the object goes first.                                          *)
WatchJoined_NoJoin(t) ==
  /\ call[t].pc = "quitting"
  /\ \/ session # NoSession /\ BeginDrop(t) /\ UNCHANGED object
     \/ /\ session = NoSession
        /\ object' = "gone"
        /\ call' = [call EXCEPT ![t] = Idle]
        /\ UNCHANGED <<session, duplex>>
  /\ UNCHANGED <<lock, worker, of, device, watch>>

(* It has ended (SettingsWatch::drop); the driver is dropped.              *)
WatchJoined(t) ==
  /\ call[t].pc = "quitting" /\ watch = "ended"
  /\ \/ session # NoSession /\ BeginDrop(t) /\ UNCHANGED object
     \/ /\ session = NoSession
        /\ object' = "gone"
        /\ call' = [call EXCEPT ![t] = Idle]
        /\ UNCHANGED <<session, duplex>>
  /\ UNCHANGED <<lock, worker, of, device, watch>>

(* The host loads the driver again: create and init.                       *)
Load ==
  /\ object = "gone"
  /\ object' = "open"
  /\ watch' = "wait"
  /\ UNCHANGED <<lock, session, duplex, call, worker, of, device>>

-----------------------------------------------------------------------------
(* The streaming thread                                                    *)

Goes(w, pc) == worker' = [worker EXCEPT ![w] = pc]

(* The kernel driver delivers periods to s.                                *)
Delivers(s) == kernel = s /\ ~stalled

(* WaitForMultipleObjects looks at the stop event first.                   *)
WaitStop(w) ==
  /\ worker[w] = "wait" /\ duplex[of[w]].alive /\ duplex[of[w]].stop
  /\ Goes(w, "none")
  /\ UNCHANGED <<lock, session, duplex, call, of, device, object, watch>>

WaitPeriod(w) ==
  /\ worker[w] = "wait" /\ duplex[of[w]].alive /\ ~duplex[of[w]].stop
  /\ duplex[of[w]].period
  /\ duplex' = [duplex EXCEPT ![of[w]].period = FALSE]
  /\ Goes(w, "read")
  /\ UNCHANGED <<lock, session, call, of, device, object, watch>>

(* Mutant: waits without a limit.                                          *)
WaitFails_Closed(w) ==
  /\ worker[w] = "wait" /\ ~duplex[of[w]].alive
  /\ Goes(w, "reset")
  /\ UNCHANGED <<lock, session, duplex, call, of, device, object, watch>>

(* WAIT_MS pass, many periods, without one; or the events are closed.      *)
WaitFails(w) ==
  /\ worker[w] = "wait"
  /\ \/ ~duplex[of[w]].alive
     \/ ~duplex[of[w]].stop /\ ~duplex[of[w]].period /\ ~Delivers(of[w])
  /\ Goes(w, "reset")
  /\ UNCHANGED <<lock, session, duplex, call, of, device, object, watch>>

(* drain: reads the oldest period, or finds none. A request fails without  *)
(* a session of this handle.                                               *)
Read(w) ==
  /\ worker[w] = "read"
  /\ LET answer == KernelReads(of[w])
     IN  /\ Goes(w, CASE answer = "error" -> "reset" [] answer = "nothing" -> "wait"
                      [] answer = "period" -> "switch")
         /\ periods' = IF answer = "period" THEN periods - 1 ELSE periods
  /\ UNCHANGED <<lock, session, duplex, call, of, kernel, there, stalled, object, watch>>

(* switch: the host's callback returns; its output is copied.              *)
SwitchReturns(w) ==
  /\ worker[w] = "switch" /\ call[w] = Idle
  /\ Goes(w, "write")
  /\ UNCHANGED <<lock, session, duplex, call, of, device, object, watch>>

Write(w) ==
  /\ worker[w] = "write"
  /\ Goes(w, IF KernelWrites(of[w]) = "taken" THEN "read" ELSE "reset")
  /\ UNCHANGED <<lock, session, duplex, call, of, device, object, watch>>

(* request_reset returns; the thread ends.                                 *)
ResetReturns(w) ==
  /\ worker[w] = "reset" /\ call[w] = Idle
  /\ Goes(w, "none")
  /\ UNCHANGED <<lock, session, duplex, call, of, device, object, watch>>

-----------------------------------------------------------------------------
(* The settings thread                                                     *)

(* apply_buffer_size: reads the session under the lock, asks without it.   *)
SettingsChange ==
  /\ watch = "wait" /\ object = "open" /\ lock = NoThread
  /\ session # NoSession
  /\ watch' = "reset"
  /\ UNCHANGED <<lock, session, duplex, call, worker, of, device, object>>

WatchReturns ==
  /\ watch = "reset" /\ call[Watch] = Idle
  /\ watch' = "wait"
  /\ UNCHANGED <<lock, session, duplex, call, worker, of, device, object>>

WatchQuits ==
  /\ watch = "wait" /\ object = "closing"
  /\ watch' = "ended"
  /\ UNCHANGED <<lock, session, duplex, call, worker, of, device, object>>

-----------------------------------------------------------------------------
(* The kernel driver and the card                                          *)

(* A period of input is complete; a full ring loses its oldest.            *)
PeriodCompletes ==
  /\ kernel \in Sessions /\ Delivers(kernel)
  /\ periods' = IF periods = MaxPeriods THEN periods ELSE periods + 1
  /\ duplex' = [duplex EXCEPT ![kernel].period = @ \/ duplex[kernel].alive]
  /\ UNCHANGED <<lock, session, call, worker, of, kernel, there, stalled, object, watch>>

(* Sleep, or an engine whose transfers all failed; and the end of that.    *)
Stall ==
  /\ kernel \in Sessions
  /\ stalled' = ~stalled
  /\ UNCHANGED <<lock, session, duplex, call, worker, of, kernel, periods, there, object, watch>>

(* The card is unplugged: handles to it stay useless.                      *)
DeviceLeaves ==
  /\ there
  /\ there' = FALSE
  /\ kernel' = Nobody
  /\ periods' = 0
  /\ stalled' = FALSE
  /\ duplex' = [s \in Sessions |-> [duplex[s] EXCEPT !.valid = FALSE]]
  /\ UNCHANGED <<lock, session, call, worker, of, object, watch>>

DeviceReturns ==
  /\ ~there
  /\ there' = TRUE
  /\ UNCHANGED <<lock, session, duplex, call, worker, of, kernel, periods, stalled, object, watch>>

(* Another program takes and leaves the card.                              *)
OtherHost ==
  /\ there
  /\ \/ kernel = Nobody /\ kernel' = Other
     \/ kernel = Other /\ kernel' = Nobody
  /\ UNCHANGED <<lock, session, duplex, call, worker, of, periods, there, stalled, object, watch>>

-----------------------------------------------------------------------------
Control(t) ==
  \/ CreateBuffers(t) \/ CreateAsks(t)
  \/ Start(t) \/ Stop(t) \/ DisposeBuffers(t) \/ Release(t) \/ Query(t)

CreateReturns(t) == CreateFails(t) \/ \E s \in Sessions : BuffersCreated(t, s)

StartReturns(t) == StartFails(t) \/ \E w \in Workers : Started(t, w)

CallContinues(t) ==
  \/ CreateReturns(t) \/ StartReturns(t) \/ Stopped(t) \/ Dropped(t)
  \/ WatchJoined(t) \/ QueryReturns(t)

WorkerRuns(w) ==
  \/ WaitStop(w) \/ WaitPeriod(w) \/ WaitFails(w)
  \/ Read(w) \/ SwitchReturns(w) \/ Write(w) \/ ResetReturns(w)

Card == PeriodCompletes \/ Stall \/ DeviceLeaves \/ DeviceReturns \/ OtherHost

Next ==
  \/ \E t \in Callers : Control(t) \/ CallContinues(t)
  \/ \E w \in Workers : WorkerRuns(w)
  \/ SettingsChange \/ WatchReturns \/ WatchQuits \/ Load \/ Card

Spec == Init /\ [][Next]_vars

(* Calls and threads run on, the device answers, callbacks return; whoever *)
(* waits for the lock gets it although others take it again and again, and *)
(* a callback makes finitely many calls.                                   *)
FairSpec ==
  /\ Spec
  /\ \A t \in Callers : SF_vars(CallContinues(t))
  /\ \A w \in Workers : SF_vars(WorkerRuns(w))
  /\ SF_vars(WatchReturns) /\ WF_vars(WatchQuits)

-----------------------------------------------------------------------------
(* Properties                                                              *)

(* duplex.rs:217: stop hands the streaming thread over and waits for it,   *)
(* so a session that starts finds no other thread streaming.               *)
OneStreamingThread ==
  \A v, w \in Workers : Streaming(v) /\ Streaming(w) => v = w

(* driver.rs:26-28: a session owns the memory behind the host's channel    *)
(* pointers, and the events; its thread does not outlive them.             *)
BuffersOutliveThread == \A w \in Workers : Streaming(w) => duplex[of[w]].alive

(* driver.rs:95: the settings thread uses the object, so it ends first; so *)
(* does the streaming thread, whose callbacks use it.                      *)
ObjectOutlivesThreads ==
  object = "gone" => watch = "ended" /\ \A w \in Workers : ~Streaming(w)

(* Threads end before what they use, whichever call or callback frees it,  *)
(* and before another one takes over.                                      *)
ThreadsEndFirst == OneStreamingThread /\ BuffersOutliveThread /\ ObjectOutlivesThreads

(* Between calls, the kernel driver streams exactly for a session that     *)
(* runs: a failed start leaves no session behind, a stop none in the       *)
(* kernel, through unplugging and other programs.                          *)
KernelFollowsDriver ==
  ControlFree /\ object # "closing" =>
    /\ kernel \in Sessions => kernel = session /\ duplex[session].running
    /\ session # NoSession /\ duplex[session].running /\ duplex[session].valid
         => kernel = session

(* duplex.rs:44, 299: the host is asked for a reset by a streaming thread  *)
(* that lost its device or had no period for long, never by one that was   *)
(* stopped.                                                                *)
ResetsAreNeeded ==
  [][\A w \in Workers : worker[w] # "reset" /\ worker'[w] = "reset"
       => stalled \/ ~duplex[of[w]].valid]_vars

(* A streaming thread that hands over periods for ever comes back to wait  *)
(* infinitely often: its host is not late for ever. drain looks at no stop *)
(* event (duplex.rs:307), so stop waits for such a host for ever.          *)
HostKeepsUp ==
  \A w \in Workers : []<>(worker[w] = "write") => []<>(worker[w] = "wait")

(* A getter called from the question createBuffers asks waits for the lock *)
(* that createBuffers holds (driver.rs:491), and all other calls with it.  *)
SelfLocked == \E t \in Callers : call[t].pc = "asking"

(* driver.rs:282, duplex.rs:217: calls come back, those made from the      *)
(* other callbacks included: stop, dispose, release and getters wait for   *)
(* no thread that waits for the lock, or for themselves. Excepted are a    *)
(* host that is late for ever and one that locks itself out.               *)
CallsReturn ==
  HostKeepsUp =>
    \A t \in Callers : call[t].pc # "idle" ~> call[t].pc = "idle" \/ SelfLocked

(* A streaming thread whose device is gone stops streaming, and the host   *)
(* hears of it unless it stops first.                                      *)
LossIsReported ==
  \A w \in Workers : Streaming(w) /\ ~duplex[of[w]].valid ~> ~Streaming(w)

=============================================================================
