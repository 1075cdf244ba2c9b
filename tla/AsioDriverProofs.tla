--------------------------- MODULE AsioDriverProofs -------------------------
(***************************************************************************)
(* Proofs about the driver's threads and the kernel driver's session, for  *)
(* any number of sessions and streaming threads, and any host that makes   *)
(* one control call at a time and stops elsewhere than in bufferSwitch.    *)
(*                                                                         *)
(* The argument: a thread that streams is either the one its session       *)
(* holds, which then runs, or the one a single call under way is waiting   *)
(* for; and the kernel driver runs the session of that thread until the    *)
(* thread has ended, unless the card has left.                             *)
(***************************************************************************)
EXTENDS AsioDriver, TLAPS

(* What a host must not do from bufferSwitch, which the thread to be ended *)
(* runs: it would free what it streams with.                               *)
StopsElsewhere == FromSwitch \cap {"stop", "dispose", "release"} = {}

CallStates ==
  {"idle", "query", "creating", "asking", "starting", "stopping", "dropping", "quitting"}

Types ==
  /\ session \in Sessions \cup {NoSession}
  /\ duplex \in [Sessions -> [alive : BOOLEAN, valid : BOOLEAN, running : BOOLEAN,
                              thread : Workers \cup {NoThread}, stop : BOOLEAN,
                              period : BOOLEAN]]
  /\ call \in [Callers -> [pc : CallStates, joinee : Workers \cup {NoThread},
                           on : Sessions \cup {NoSession}]]
  /\ worker \in [Workers -> {"none", "wait", "read", "switch", "write", "reset"}]
  /\ of \in [Workers -> Sessions \cup {NoSession}]
  /\ kernel \in Sessions \cup {Nobody, Other}

(* One call at a time changes something, from a thread that does not       *)
(* stream.                                                                 *)
Controls(t) == call[t].pc \notin {"idle", "query"}

OneControl ==
  /\ \A t, u \in Callers : Controls(t) /\ Controls(u) => t = u
  /\ \A t \in Callers : Controls(t) /\ t \in Workers => worker[t] = "reset"
  /\ \A t \in Callers : call[t].pc = "idle" => call[t] = Idle
  /\ \A t \in Callers : call[t].pc = "query" => call[t].joinee = NoThread

(* A call that waits for a thread has taken it from its session, which it  *)
(* signalled.                                                              *)
TakenBy(t) ==
  /\ call[t].on \in Sessions
  /\ duplex[call[t].on].alive /\ duplex[call[t].on].thread = NoThread
  /\ call[t].joinee # NoThread => duplex[call[t].on].stop

CallsWait ==
  \A t \in Callers :
    /\ call[t].pc = "starting" => session # NoSession /\ ~duplex[session].running
    /\ call[t].pc = "stopping" =>
         TakenBy(t) /\ session = call[t].on /\ ~duplex[session].running
    /\ call[t].pc = "dropping" => TakenBy(t) /\ session = NoSession
    /\ call[t].pc \in {"creating", "asking"} => session = NoSession

(* The session there is.                                                   *)
SessionHolds ==
  /\ session # NoSession => duplex[session].alive
  /\ \A s \in Sessions :
       duplex[s].thread # NoThread => s = session /\ duplex[s].running

Held(w) ==
  /\ session # NoSession /\ of[w] = session
  /\ duplex[session].running /\ duplex[session].thread = w

Ending(w) ==
  \E t \in Callers : /\ call[t].pc \in {"stopping", "dropping"}
                     /\ call[t].joinee = w /\ call[t].on = of[w]

ThreadsAreKnown == \A w \in Workers : Streaming(w) => Held(w) \/ Ending(w)

(* What the kernel driver runs, and for whom.                              *)
KernelRuns ==
  /\ kernel \in Sessions =>
       \/ kernel = session /\ duplex[session].running
       \/ \E t \in Callers : call[t].pc \in {"stopping", "dropping"} /\ call[t].on = kernel
  /\ session # NoSession /\ duplex[session].running /\ duplex[session].valid
       => kernel = session
  /\ \A w \in Workers : Streaming(w) /\ duplex[of[w]].valid => kernel = of[w]

(* The object goes after the settings thread, which goes after all calls.  *)
ObjectLast ==
  /\ object # "open" => \A t \in Callers : call[t].pc # "query"
  /\ object = "closing" => \A t \in Callers : call[t].pc = "dropping" => watch = "ended"
  /\ object = "gone" =>
       watch = "ended" /\ session = NoSession /\ \A t \in Callers : call[t] = Idle
  /\ \A t \in Callers : call[t].pc = "quitting" => object = "closing"

IInv ==
  /\ Types /\ OneControl /\ CallsWait /\ SessionHolds /\ ThreadsAreKnown /\ KernelRuns
  /\ ObjectLast

-----------------------------------------------------------------------------
(* Types                                                                   *)

LEMMA Names ==
  /\ NoSession \notin Sessions /\ NoThread \notin Workers /\ NoThread # Host /\ NoThread # Watch
  /\ Host \notin Workers /\ Watch \notin Workers
  /\ Nobody \notin Sessions /\ Other \notin Sessions
  /\ Workers \subseteq Callers
  BY AsioDriverAssumption DEF Callers

LEMMA CallTypes ==
  ASSUME Types, [Next]_vars
  PROVE  call' \in [Callers -> [pc : CallStates, joinee : Workers \cup {NoThread},
                                on : Sessions \cup {NoSession}]]
<1> DEFINE C == [pc : CallStates, joinee : Workers \cup {NoThread}, on : Sessions \cup {NoSession}]
<1>0. call \in [Callers -> C] /\ Idle \in C
  BY DEF Types, Idle, CallStates
<1>1. ASSUME NEW t \in Callers, NEW c \in C, call' = [call EXCEPT ![t] = c]
      PROVE  call' \in [Callers -> C]
  BY <1>0, <1>1
<1>2. ASSUME NEW t \in Callers, NEW p \in CallStates, call' = [call EXCEPT ![t].pc = p]
      PROVE  call' \in [Callers -> C]
  <2>1. [call[t] EXCEPT !.pc = p] \in C /\ call' = [call EXCEPT ![t] = [call[t] EXCEPT !.pc = p]]
    BY <1>0, <1>2
  <2> QED BY <1>1, <2>1
<1>3. ASSUME NEW p \in CallStates, session # NoSession
      PROVE  [pc |-> p, joinee |-> duplex[session].thread, on |-> session] \in C
  BY <1>3 DEF Types
<1> HIDE DEF C
<1>4. ASSUME UNCHANGED call PROVE call' \in [Callers -> C]
  BY <1>0, <1>4
<1>5. ASSUME NEW t \in Callers, Control(t) PROVE call' \in [Callers -> C]
  <2>1. CASE Query(t) \/ Start(t) \/ Release(t) \/ CreateBuffers(t) \/ CreateAsks(t)
    BY <1>2, <2>1 DEF Query, Start, Release, CreateBuffers, CreateAsks, CallStates
  <2>2. CASE Stop(t) \/ DisposeBuffers(t)
    BY <1>1, <1>3, <2>2 DEF Stop, DisposeBuffers, BeginDrop, CallStates
  <2> QED BY <1>5, <2>1, <2>2 DEF Control
<1>6. ASSUME NEW t \in Callers, CallContinues(t) PROVE call' \in [Callers -> C]
  <2>1. CASE CreateReturns(t) \/ StartReturns(t) \/ Stopped(t) \/ Dropped(t)
    BY <1>0, <1>1, <2>1 DEF CreateReturns, BuffersCreated, CreateFails, StartReturns, StartFails,
       Started, Stopped, Dropped
  <2>3. CASE QueryReturns(t)
    <3>1. [Idle EXCEPT !.pc = "creating"] \in C
      BY DEF Idle, CallStates, C
    <3> QED BY <1>0, <1>1, <2>3, <3>1 DEF QueryReturns
  <2>2. CASE WatchJoined(t)
    BY <1>0, <1>1, <1>3, <2>2 DEF WatchJoined, BeginDrop, CallStates
  <2> QED BY <1>6, <2>1, <2>2, <2>3 DEF CallContinues
<1>7. ASSUME NEW w \in Workers, WorkerRuns(w) PROVE call' \in [Callers -> C]
  BY <1>4, <1>7 DEF WorkerRuns, WaitStop, WaitPeriod, WaitFails, Read, SwitchReturns, Write, ResetReturns
<1>8. ASSUME SettingsChange \/ WatchReturns \/ WatchQuits \/ Load \/ Card
      PROVE  call' \in [Callers -> C]
  BY <1>4, <1>8 DEF SettingsChange, WatchReturns, WatchQuits, Load, Card, PeriodCompletes, Stall,
     DeviceLeaves, DeviceReturns, OtherHost
<1>9. ASSUME UNCHANGED vars PROVE call' \in [Callers -> C]
  BY <1>4, <1>9 DEF vars
<1> QED BY <1>5, <1>6, <1>7, <1>8, <1>9 DEF Next, C

LEMMA DuplexTypes ==
  ASSUME IInv, [Next]_vars
  PROVE  duplex' \in [Sessions -> [alive : BOOLEAN, valid : BOOLEAN, running : BOOLEAN,
                                   thread : Workers \cup {NoThread}, stop : BOOLEAN,
                                   period : BOOLEAN]]
<1> DEFINE D == [alive : BOOLEAN, valid : BOOLEAN, running : BOOLEAN,
                 thread : Workers \cup {NoThread}, stop : BOOLEAN, period : BOOLEAN]
<1>0. duplex \in [Sessions -> D] /\ Freed \in D /\ (session # NoSession => session \in Sessions)
  BY DEF IInv, Types, Freed
<1>1. ASSUME UNCHANGED duplex PROVE duplex' \in [Sessions -> D]
  BY <1>0, <1>1
<1> DEFINE Set(s, d) == duplex' = [duplex EXCEPT ![s] = d]
<1>9. ASSUME NEW s \in Sessions, NEW d \in D, Set(s, d) PROVE duplex' \in [Sessions -> D]
  BY <1>0, <1>9
<1> HIDE DEF Set
<1>2. ASSUME NEW t \in Callers, Control(t) PROVE duplex' \in [Sessions -> D]
  <2>1. CASE Query(t) \/ Release(t) \/ CreateBuffers(t) \/ CreateAsks(t)
    BY <1>1, <2>1 DEF Query, Release, CreateBuffers, CreateAsks
  <2>2. CASE Start(t)
    BY <1>0, <2>2 DEF Start
  <2>3. CASE Stop(t)
    <3>1. session \in Sessions
      BY <1>0, <2>3 DEF Stop
    <3>2. [duplex[session] EXCEPT !.running = FALSE, !.stop = TRUE, !.thread = NoThread] \in D
      BY <1>0, <3>1
    <3>3. Set(session, [duplex[session] EXCEPT !.running = FALSE, !.stop = TRUE, !.thread = NoThread])
      BY <2>3 DEF Stop, Set
    <3> QED BY <1>9, <3>1, <3>2, <3>3
  <2>4. CASE DisposeBuffers(t)
    BY <1>0, <2>4 DEF DisposeBuffers, BeginDrop
  <2> QED BY <1>2, <2>1, <2>2, <2>3, <2>4 DEF Control
<1>3. ASSUME NEW t \in Callers, CallContinues(t) PROVE duplex' \in [Sessions -> D]
  <2>1. CASE CreateFails(t) \/ StartFails(t) \/ Stopped(t) \/ QueryReturns(t)
    BY <1>1, <2>1 DEF CreateFails, StartFails, Stopped, QueryReturns
  <2>2. CASE \E w \in Workers : Started(t, w)
    <3>1. PICK w \in Workers :
            Set(session, [duplex[session] EXCEPT !.running = TRUE, !.thread = w])
      BY <2>2 DEF Started, Set
    <3>2. session \in Sessions
      BY <1>0, <2>2 DEF Started, IInv, CallsWait
    <3>3. [duplex[session] EXCEPT !.running = TRUE, !.thread = w] \in D
      BY <1>0, <3>2
    <3> QED BY <1>9, <3>1, <3>2, <3>3
  <2>3. CASE Dropped(t)
    BY <1>0, <2>3 DEF Dropped
  <2>4. CASE WatchJoined(t)
    BY <1>0, <1>1, <2>4 DEF WatchJoined, BeginDrop
  <2>5. CASE \E s \in Sessions : BuffersCreated(t, s)
    <3>1. PICK s \in Sessions : Set(s, [Freed EXCEPT !.alive = TRUE, !.valid = TRUE])
      BY <2>5 DEF BuffersCreated, Set
    <3>2. [Freed EXCEPT !.alive = TRUE, !.valid = TRUE] \in D
      BY <1>0
    <3> QED BY <1>9, <3>1, <3>2
  <2> QED BY <1>3, <2>1, <2>2, <2>3, <2>4, <2>5 DEF CallContinues, CreateReturns, StartReturns
<1>4. ASSUME NEW w \in Workers, WorkerRuns(w) PROVE duplex' \in [Sessions -> D]
  <2>1. CASE WaitPeriod(w)
    BY <1>0, <2>1 DEF WaitPeriod
  <2>2. CASE ~WaitPeriod(w)
    BY <1>1, <1>4, <2>2 DEF WorkerRuns, WaitStop, WaitFails, Read, SwitchReturns, Write, ResetReturns
  <2> QED BY <2>1, <2>2
<1>5. CASE SettingsChange \/ WatchReturns \/ WatchQuits \/ Load \/ Stall \/ DeviceReturns \/ OtherHost
  BY <1>1, <1>5 DEF SettingsChange, WatchReturns, WatchQuits, Load, Stall, DeviceReturns, OtherHost
<1>6. CASE PeriodCompletes
  BY <1>0, <1>6 DEF PeriodCompletes
<1>7. CASE DeviceLeaves
  BY <1>0, <1>7 DEF DeviceLeaves
<1>8. CASE UNCHANGED vars
  BY <1>1, <1>8 DEF vars
<1> QED BY <1>2, <1>3, <1>4, <1>5, <1>6, <1>7, <1>8 DEF Next, Card

LEMMA TypesStep ==
  ASSUME IInv, [Next]_vars
  PROVE  Types'
<1>1. session' \in Sessions \cup {NoSession}
  BY DEF IInv, Types, Next, Control, CallContinues, CreateReturns, StartReturns, WorkerRuns, Card, vars, Query, QueryReturns,
     CreateBuffers, CreateAsks, BuffersCreated, CreateFails, Start, StartFails, Started, Stop,
     Stopped, BeginDrop, DisposeBuffers, Dropped,
     Release, WatchJoined, Load, WaitStop, WaitPeriod, WaitFails, Read, SwitchReturns, Write,
     ResetReturns, SettingsChange, WatchReturns, WatchQuits, PeriodCompletes, Stall, DeviceLeaves,
     DeviceReturns, OtherHost
<1>2. kernel' \in Sessions \cup {Nobody, Other}
  <2>1. \/ kernel' = kernel \/ kernel' = Nobody \/ kernel' = Other \/ kernel' \in Sessions
    <3>1. ASSUME NEW t \in Callers, NEW w \in Workers, Started(t, w) PROVE kernel' \in Sessions
      BY <3>1, Names DEF Started, KernelStarts, IInv, CallsWait, Types
    <3>2. CASE ~ \E t \in Callers : \E w \in Workers : Started(t, w)
      BY <3>2 DEF Next, Control, CallContinues, CreateReturns, StartReturns, WorkerRuns, Card, vars, device, Query,
         QueryReturns, CreateBuffers, CreateAsks, BuffersCreated, CreateFails, Start, StartFails,
         Stop, Stopped, StopStreams, KernelStops,
         BeginDrop, DisposeBuffers, Dropped, Release, WatchJoined, Load, WaitStop, WaitPeriod,
         WaitFails, Read, SwitchReturns, Write, ResetReturns, SettingsChange, WatchReturns,
         WatchQuits, PeriodCompletes, Stall, DeviceLeaves, DeviceReturns, OtherHost
    <3> QED BY <3>1, <3>2
  <2> QED BY <2>1 DEF IInv, Types
<1>3. worker' \in [Workers -> {"none", "wait", "read", "switch", "write", "reset"}]
  BY DEF IInv, Types, Next, Control, CallContinues, CreateReturns, StartReturns, WorkerRuns, Card, vars, device, Query,
     QueryReturns, CreateBuffers, CreateAsks, BuffersCreated, CreateFails, Start, StartFails, Started,
     Stop, Stopped, BeginDrop, DisposeBuffers,
     Dropped, Release, WatchJoined, Load, Goes, WaitStop, WaitPeriod, WaitFails, Read, KernelReads,
     SwitchReturns, Write, KernelWrites, ResetReturns, SettingsChange, WatchReturns, WatchQuits,
     PeriodCompletes, Stall, DeviceLeaves, DeviceReturns, OtherHost
<1>4. of' \in [Workers -> Sessions \cup {NoSession}]
  BY DEF IInv, Types, Next, Control, CallContinues, CreateReturns, StartReturns, WorkerRuns, Card, vars, device, Query,
     QueryReturns, CreateBuffers, CreateAsks, BuffersCreated, CreateFails, Start, StartFails, Started,
     Stop, Stopped, BeginDrop, DisposeBuffers,
     Dropped, Release, WatchJoined, Load, WaitStop, WaitPeriod, WaitFails, Read, SwitchReturns, Write,
     ResetReturns, SettingsChange, WatchReturns, WatchQuits, PeriodCompletes, Stall, DeviceLeaves,
     DeviceReturns, OtherHost
<1> QED BY <1>1, <1>2, <1>3, <1>4, CallTypes, DuplexTypes DEF IInv, Types

-----------------------------------------------------------------------------
(* Who streams                                                             *)

(* Between calls, only the thread its session holds.                       *)
LEMMA FreeStreams ==
  ASSUME IInv, ControlFree, NEW w \in Workers, Streaming(w)
  PROVE  Held(w)
<1>1. ~Ending(w)
  BY DEF Ending, ControlFree
<1> QED BY <1>1 DEF IInv, ThreadsAreKnown

(* While a call that creates, starts, stops or disposes goes on, nobody or the      *)
(* thread it waits for.                                                    *)
LEMMA CallStreams ==
  ASSUME IInv, NEW t \in Callers, NEW w \in Workers, Streaming(w),
         call[t].pc \in {"creating", "starting", "stopping", "dropping"}
  PROVE  /\ call[t].pc \in {"stopping", "dropping"} /\ call[t].joinee = w /\ call[t].on = of[w] /\ t # w
<1>1. ~Held(w)
  BY DEF IInv, CallsWait, Held
<1>2. PICK u \in Callers : /\ call[u].pc \in {"stopping", "dropping"}
                           /\ call[u].joinee = w /\ call[u].on = of[w]
  BY <1>1 DEF IInv, ThreadsAreKnown, Ending
<1>3. u = t
  BY <1>2 DEF IInv, OneControl, Controls
<1>4. t # w
  BY DEF IInv, OneControl, Controls, Streaming
<1> QED BY <1>2, <1>3, <1>4

(* When it has waited, nobody.                                             *)
LEMMA JoinedStreams ==
  ASSUME IInv, NEW t \in Callers, call[t].pc \in {"stopping", "dropping"}, Joined(t),
         NEW w \in Workers
  PROVE  ~Streaming(w)
<1>1. SUFFICES ASSUME Streaming(w) PROVE FALSE
  OBVIOUS
<1>2. call[t].joinee = w /\ t # w
  BY <1>1, CallStreams
<1> QED BY <1>1, <1>2 DEF Joined, Streaming

(* Its session lives.                                                      *)
LEMMA StreamsBelong ==
  ASSUME IInv, NEW w \in Workers, Streaming(w)
  PROVE  of[w] \in Sessions /\ duplex[of[w]].alive
<1>1. CASE Held(w)
  BY <1>1 DEF Held, IInv, Types, SessionHolds
<1>2. CASE Ending(w)
  BY <1>2 DEF Ending, IInv, CallsWait, TakenBy
<1> QED BY <1>1, <1>2 DEF IInv, ThreadsAreKnown

-----------------------------------------------------------------------------
(* Steps of the threads, of the card and of getters, which leave sessions  *)
(* and control calls as they are                                           *)

Kept(s) ==
  /\ duplex'[s].alive = duplex[s].alive /\ duplex'[s].valid = duplex[s].valid
  /\ duplex'[s].running = duplex[s].running /\ duplex'[s].thread = duplex[s].thread
  /\ duplex'[s].stop = duplex[s].stop

Quiet ==
  /\ UNCHANGED <<session, of, kernel, object>>
  /\ \A s \in Sessions : Kept(s)
  /\ \A w \in Workers : Streaming(w)' => Streaming(w)
  /\ \A w \in Workers : worker[w] = "reset" /\ Controls(w) => worker'[w] = "reset"
  /\ watch = "ended" => watch' = "ended"
  /\ \A t \in Callers :
       \/ call'[t] = call[t]
       \/ call[t].pc \in {"creating", "starting", "query"} /\ call'[t] = Idle
       \/ /\ call[t].pc \in {"creating", "asking"} /\ call'[t].pc \in {"creating", "asking"}
       \/ call[t].pc = "idle" /\ call'[t].pc = "query" /\ call'[t].joinee = NoThread
            /\ object = "open"

LEMMA QuietStep ==
  ASSUME IInv, Types', Quiet
  PROVE  IInv'
<1>0. \A t \in Callers :
        /\ Controls(t)' => Controls(t)
        /\ Controls(t)' => \/ call'[t] = call[t]
                           \/ /\ call[t].pc \in {"creating", "asking"}
                              /\ call'[t].pc \in {"creating", "asking"}
        /\ call[t].pc \in {"stopping", "dropping", "quitting"} => call'[t] = call[t]
  BY DEF Quiet, Controls, Idle
<1>1. OneControl'
  <2>1. \A t, u \in Callers : Controls(t)' /\ Controls(u)' => t = u
    BY <1>0 DEF IInv, OneControl
  <2>2. \A t \in Callers : Controls(t)' /\ t \in Workers => worker'[t] = "reset"
    BY <1>0 DEF IInv, OneControl, Quiet
  <2>3. \A t \in Callers : /\ call'[t].pc = "idle" => call'[t] = Idle
                           /\ call'[t].pc = "query" => call'[t].joinee = NoThread
    BY DEF IInv, OneControl, Quiet, Idle
  <2> QED BY <2>1, <2>2, <2>3 DEF OneControl
<1>2. CallsWait'
  <2> SUFFICES ASSUME NEW t \in Callers, Controls(t)'
               PROVE  /\ call'[t].pc = "starting" => session' # NoSession /\ ~duplex'[session'].running
                      /\ call'[t].pc = "stopping" =>
                           TakenBy(t)' /\ session' = call'[t].on /\ ~duplex'[session'].running
                      /\ call'[t].pc = "dropping" => TakenBy(t)' /\ session' = NoSession
                      /\ call'[t].pc \in {"creating", "asking"} => session' = NoSession
    BY DEF CallsWait, Controls
  <2>1. session' = session
    BY DEF Quiet
  <2>2. CASE call[t].pc \in {"creating", "asking"} /\ call'[t].pc \in {"creating", "asking"}
    BY <2>1, <2>2 DEF IInv, CallsWait
  <2>3. CASE call'[t] = call[t]
    <3>1. session # NoSession => Kept(session)
      BY DEF Quiet, IInv, Types
    <3>2. TakenBy(t) => TakenBy(t)'
      BY <2>3 DEF TakenBy, Quiet, Kept
    <3>3. call[t].pc \in {"starting", "stopping"} /\ TakenBy(t) /\ session = call[t].on
            => session # NoSession
      BY Names DEF TakenBy
    <3> QED BY <2>1, <2>3, <3>1, <3>2, <3>3 DEF IInv, CallsWait, Kept
  <2> QED BY <1>0, <2>2, <2>3
<1>3. SessionHolds'
  BY DEF IInv, Types, SessionHolds, Quiet, Kept
<1>4. ThreadsAreKnown'
  <2> SUFFICES ASSUME NEW w \in Workers, Streaming(w)' PROVE Held(w)' \/ Ending(w)'
    BY DEF ThreadsAreKnown
  <2>1. Held(w) \/ Ending(w)
    BY DEF Quiet, IInv, ThreadsAreKnown
  <2>2. Held(w) => Held(w)'
    BY DEF Held, Quiet, Kept, IInv, Types
  <2>3. Ending(w) => Ending(w)'
    BY <1>0 DEF Ending, Quiet
  <2> QED BY <2>1, <2>2, <2>3
<1>5. KernelRuns'
  <2>1. kernel' = kernel /\ session' = session /\ of' = of
    BY DEF Quiet
  <2>2. kernel \in Sessions => \/ kernel = session /\ duplex'[session].running
                               \/ \E t \in Callers : /\ call'[t].pc \in {"stopping", "dropping"}
                                                     /\ call'[t].on = kernel
    BY <1>0 DEF Quiet, Kept, IInv, KernelRuns
  <2>3. session # NoSession /\ duplex'[session].running /\ duplex'[session].valid => kernel = session
    BY DEF Quiet, Kept, IInv, KernelRuns, Types
  <2>4. \A w \in Workers : Streaming(w)' /\ duplex'[of[w]].valid => kernel = of[w]
    BY StreamsBelong DEF Quiet, Kept, IInv, KernelRuns
  <2> QED BY <2>1, <2>2, <2>3, <2>4 DEF KernelRuns
<1>6. ObjectLast'
  <2>1. object' = object /\ session' = session /\ (watch = "ended" => watch' = "ended")
    BY DEF Quiet
  <2>2. object # "open" => \A t \in Callers : call'[t].pc # "query"
    BY DEF Quiet, IInv, ObjectLast, Idle
  <2>3. object = "closing" => \A t \in Callers : call'[t].pc = "dropping" => watch' = "ended"
    BY <1>0, <2>1 DEF IInv, ObjectLast, Controls
  <2>4. object = "gone" => \A t \in Callers : call'[t] = Idle
    BY DEF Quiet, IInv, ObjectLast, Idle
  <2>5. \A t \in Callers : call'[t].pc = "quitting" => object = "closing"
    BY <1>0 DEF IInv, ObjectLast, Controls
  <2> QED BY <2>1, <2>2, <2>3, <2>4, <2>5 DEF IInv, ObjectLast
<1> QED BY <1>1, <1>2, <1>3, <1>4, <1>5, <1>6 DEF IInv

LEMMA QuietSteps ==
  ASSUME IInv, Types',
         \/ \E t \in Callers : \/ Query(t) \/ QueryReturns(t)
                             \/ CreateAsks(t) \/ CreateFails(t) \/ StartFails(t)
         \/ \E w \in Workers : WorkerRuns(w)
         \/ SettingsChange \/ WatchReturns \/ WatchQuits
         \/ PeriodCompletes \/ Stall \/ DeviceReturns
         \/ UNCHANGED vars
  PROVE  IInv'
<1>0. Types
  BY DEF IInv
<1>1. ASSUME UNCHANGED duplex PROVE \A s \in Sessions : Kept(s)
  BY <1>1 DEF Kept
<1>2. CASE \E t \in Callers : \/ Query(t) \/ QueryReturns(t)
                               \/ CreateAsks(t) \/ CreateFails(t) \/ StartFails(t)
  <2>1. PICK t \in Callers : \/ Query(t) \/ QueryReturns(t)
                             \/ CreateAsks(t) \/ CreateFails(t) \/ StartFails(t)
    BY <1>2
  <2>2. UNCHANGED <<session, duplex, of, worker, kernel, object, watch>>
    BY <2>1 DEF Query, QueryReturns, CreateAsks, CreateFails, StartFails, device
  <2>3. \A u \in Callers : u # t => call'[u] = call[u]
    BY <1>0, <2>1 DEF Query, QueryReturns, CreateAsks, CreateFails, StartFails, Types
  <2>4. \/ call[t].pc \in {"creating", "starting", "query"} /\ call'[t] = Idle
        \/ /\ call[t].pc \in {"creating", "asking"} /\ call'[t].pc \in {"creating", "asking"}
        \/ call[t].pc = "idle" /\ call'[t].pc = "query" /\ call'[t].joinee = NoThread
             /\ object = "open"
    BY <1>0, <2>1 DEF Query, QueryReturns, CreateAsks, CreateFails, StartFails, MayCall, Types, Idle
  <2>5. Quiet
    BY <1>1, <2>2, <2>3, <2>4 DEF Quiet, Streaming
  <2> QED BY <2>5, QuietStep
<1>3. CASE \E w \in Workers : WorkerRuns(w)
  <2>1. PICK w \in Workers : WorkerRuns(w)
    BY <1>3
  <2>2. UNCHANGED <<session, of, kernel, object, call, watch>>
    BY <2>1 DEF WorkerRuns, WaitStop, WaitPeriod, WaitFails, Read, SwitchReturns, Write, ResetReturns,
                device
  <2>3. \A s \in Sessions : Kept(s)
    <3>1. CASE WaitPeriod(w)
      BY <1>0, <3>1 DEF WaitPeriod, Kept, Types
    <3>2. CASE ~WaitPeriod(w)
      BY <1>1, <2>1, <3>2 DEF WorkerRuns, WaitStop, WaitFails, Read, SwitchReturns, Write, ResetReturns
    <3> QED BY <3>1, <3>2
  <2>4. \A v \in Workers : v # w => worker'[v] = worker[v]
    BY <1>0, <2>1 DEF WorkerRuns, Goes, WaitStop, WaitPeriod, WaitFails, Read, SwitchReturns, Write,
                      ResetReturns, Types
  <2>5. /\ Streaming(w) \/ (worker[w] = "reset" /\ worker'[w] = "none")
        /\ worker[w] = "reset" => call[w] = Idle
    BY <1>0, <2>1 DEF WorkerRuns, Goes, WaitStop, WaitPeriod, WaitFails, Read, SwitchReturns, Write,
                      ResetReturns, Types, Streaming
  <2>6. \A v \in Workers : Streaming(v)' => Streaming(v)
    BY <2>4, <2>5 DEF Streaming
  <2>7. \A v \in Workers : worker[v] = "reset" /\ Controls(v) => worker'[v] = "reset"
    BY <2>4, <2>5 DEF Controls, Idle
  <2>8. Quiet
    BY <2>2, <2>3, <2>6, <2>7 DEF Quiet
  <2> QED BY <2>8, QuietStep
<1>4. CASE SettingsChange \/ WatchReturns \/ WatchQuits \/ Stall \/ DeviceReturns \/ UNCHANGED vars
  <2>1. UNCHANGED <<session, duplex, of, worker, kernel, object, call>>
        /\ (watch = "ended" => watch' = "ended")
    BY <1>4 DEF SettingsChange, WatchReturns, WatchQuits, Stall, DeviceReturns, device, vars
  <2>2. Quiet
    BY <1>1, <2>1 DEF Quiet, Streaming
  <2> QED BY <2>2, QuietStep
<1>5. CASE PeriodCompletes
  <2>1. UNCHANGED <<session, of, worker, kernel, object, call, watch>>
    BY <1>5 DEF PeriodCompletes
  <2>2. \A s \in Sessions : Kept(s)
    BY <1>0, <1>5 DEF PeriodCompletes, Kept, Types
  <2>3. Quiet
    BY <2>1, <2>2 DEF Quiet, Streaming
  <2> QED BY <2>3, QuietStep
<1> QED BY <1>2, <1>3, <1>4, <1>5

-----------------------------------------------------------------------------
(* The card leaves, other programs come and go, the host loads the driver  *)

LEMMA CardStep ==
  ASSUME IInv, Types', DeviceLeaves \/ OtherHost \/ Load
  PROVE  IInv'
<1>0. Types
  BY DEF IInv
<1>1. UNCHANGED <<session, of, worker, call>>
  BY DEF DeviceLeaves, OtherHost, Load, device
<1>2. \A s \in Sessions :
        /\ duplex'[s].alive = duplex[s].alive /\ duplex'[s].running = duplex[s].running
        /\ duplex'[s].thread = duplex[s].thread /\ duplex'[s].stop = duplex[s].stop
        /\ DeviceLeaves => ~duplex'[s].valid
        /\ ~DeviceLeaves => duplex'[s].valid = duplex[s].valid
  BY <1>0 DEF DeviceLeaves, OtherHost, Load, Types
<1>3. \/ DeviceLeaves /\ kernel' = Nobody
      \/ ~DeviceLeaves /\ kernel' = kernel
      \/ ~DeviceLeaves /\ kernel' \notin Sessions /\ kernel \notin Sessions
  BY Names DEF DeviceLeaves, OtherHost, Load, device
<1>4. OneControl'
  BY <1>1 DEF IInv, OneControl, Controls
<1>5. CallsWait'
  <2> SUFFICES ASSUME NEW t \in Callers
               PROVE  /\ call[t].pc = "starting" => session # NoSession /\ ~duplex'[session].running
                      /\ call[t].pc = "stopping" =>
                           TakenBy(t)' /\ session = call[t].on /\ ~duplex'[session].running
                      /\ call[t].pc = "dropping" => TakenBy(t)' /\ session = NoSession
                      /\ call[t].pc \in {"creating", "asking"} => session = NoSession
    BY <1>1 DEF CallsWait
  <2>1. TakenBy(t) => TakenBy(t)'
    BY <1>1, <1>2 DEF TakenBy
  <2>2. session # NoSession => session \in Sessions
    BY <1>0 DEF Types
  <2> QED BY <1>1, <1>2, <2>1, <2>2 DEF IInv, CallsWait, TakenBy
<1>6. SessionHolds'
  BY <1>0, <1>1, <1>2 DEF IInv, Types, SessionHolds
<1>7. ThreadsAreKnown'
  BY <1>0, <1>1, <1>2 DEF IInv, Types, ThreadsAreKnown, Held, Ending, Streaming
<1>8. KernelRuns'
  <2>1. CASE DeviceLeaves
    BY <1>0, <1>1, <1>2, <1>3, <2>1, Names, StreamsBelong DEF IInv, Types, KernelRuns, Streaming
  <2>2. CASE ~DeviceLeaves
    <3>1. /\ kernel' \in Sessions => kernel' = kernel
          /\ kernel \in Sessions => kernel' = kernel
      BY <1>3, <2>2
    <3>2. \A s \in Sessions : duplex'[s].running = duplex[s].running /\ duplex'[s].valid = duplex[s].valid
      BY <1>2, <2>2
    <3>3. session # NoSession => session \in Sessions
      BY <1>0 DEF Types
    <3>4. kernel' \in Sessions =>
            \/ kernel' = session /\ duplex'[session].running
            \/ \E t \in Callers : call[t].pc \in {"stopping", "dropping"} /\ call[t].on = kernel'
      BY <3>1, <3>2 DEF IInv, KernelRuns
    <3>5. session # NoSession /\ duplex'[session].running /\ duplex'[session].valid
            => kernel' = session
      BY <3>1, <3>2, <3>3 DEF IInv, KernelRuns
    <3>6. \A w \in Workers : Streaming(w) /\ duplex'[of[w]].valid => kernel' = of[w]
      BY <3>1, <3>2, StreamsBelong DEF IInv, KernelRuns
    <3> QED BY <1>1, <3>4, <3>5, <3>6 DEF KernelRuns, Streaming
  <2> QED BY <2>1, <2>2
<1>9. ObjectLast'
  <2>1. CASE Load
    BY <1>1, <2>1 DEF Load, IInv, ObjectLast, Idle
  <2>2. CASE ~Load
    <3>1. object' = object /\ watch' = watch
      BY <2>2 DEF DeviceLeaves, OtherHost
    <3> QED BY <1>1, <3>1 DEF IInv, ObjectLast
  <2> QED BY <2>1, <2>2
<1> QED BY <1>4, <1>5, <1>6, <1>7, <1>8, <1>9 DEF IInv

-----------------------------------------------------------------------------
(* Control calls                                                           *)

(* No other call changes anything, and they go on as they were.            *)
Alone(t) == \A u \in Callers : u # t => call'[u] = call[u] /\ ~Controls(u)

(* A thread that begins a control call does not stream.                    *)
LEMMA Beginner ==
  ASSUME IInv, StopsElsewhere, NEW t \in Callers, NEW op, MayControl(t, op),
         op \in {"stop", "dispose", "release"}
  PROVE  /\ \A u \in Callers : ~Controls(u)
         /\ call[t] = Idle /\ object = "open" /\ (t \in Workers => worker[t] = "reset")
<1>1. call[t] = Idle /\ object = "open" /\ ControlFree
  BY DEF MayControl, MayCall
<1>2. op \notin FromSwitch
  BY DEF StopsElsewhere
<1>3. t \in Workers => worker[t] = "reset"
  BY <1>2, Names DEF MayControl, MayCall
<1> QED BY <1>1, <1>3 DEF ControlFree, Controls

LEMMA OneControlStep ==
  ASSUME IInv, Types', NEW t \in Callers, Alone(t), UNCHANGED worker,
         call'[t].pc # "query", call'[t].pc = "idle" => call'[t] = Idle,
         t \in Workers /\ Controls(t)' => worker[t] = "reset"
  PROVE  OneControl'
<1>1. \A u \in Callers : u # t => ~Controls(u)'
  BY DEF Alone, Controls
<1>2. \A u, v \in Callers : Controls(u)' /\ Controls(v)' => u = v
  BY <1>1
<1>3. \A u \in Callers : Controls(u)' /\ u \in Workers => worker'[u] = "reset"
  BY <1>1
<1>4. \A u \in Callers : /\ call'[u].pc = "idle" => call'[u] = Idle
                         /\ call'[u].pc = "query" => call'[u].joinee = NoThread
  BY DEF Alone, IInv, OneControl
<1> QED BY <1>2, <1>3, <1>4 DEF OneControl

LEMMA CreateStep ==
  ASSUME IInv, Types', NEW t \in Callers, CreateBuffers(t)
  PROVE  IInv'
<1>1. /\ ControlFree /\ session = NoSession /\ object = "open"
      /\ UNCHANGED <<session, duplex, worker, of, kernel, object, watch>>
  BY DEF CreateBuffers, MayControl, MayCall, device
<1>2. /\ call'[t].pc = "creating" /\ \A u \in Callers : u # t => call'[u] = call[u]
  BY DEF IInv, Types, CreateBuffers
<1>3. \A w \in Workers : ~Streaming(w)
  BY <1>1, FreeStreams DEF Held
<1>4. \A u \in Callers : call[u].pc \in {"idle", "query"}
  BY <1>1 DEF ControlFree
<1>5. Alone(t)
  BY <1>2, <1>4 DEF Alone, Controls
<1>6. OneControl'
  <2>1. t \in Workers => worker[t] = "reset"
    BY <1>3, Names DEF CreateBuffers, MayControl, MayCall, Streaming
  <2> QED BY <1>1, <1>2, <1>5, <2>1, OneControlStep
<1>7. \A u \in Callers : call'[u].pc \in {"idle", "query", "creating"}
  BY <1>2, <1>4
<1>8. kernel \notin Sessions
  BY <1>1, <1>4, Names DEF IInv, KernelRuns
<1>9. CallsWait' /\ SessionHolds'
  BY <1>1, <1>7 DEF IInv, CallsWait, SessionHolds
<1>10. ThreadsAreKnown' /\ KernelRuns'
  BY <1>1, <1>3, <1>8, Names DEF ThreadsAreKnown, KernelRuns, Streaming
<1>11. ObjectLast'
  BY <1>1, <1>7 DEF ObjectLast
<1> QED BY <1>6, <1>9, <1>10, <1>11 DEF IInv

LEMMA CreatedStep ==
  ASSUME IInv, Types', NEW t \in Callers, NEW s \in Sessions, BuffersCreated(t, s)
  PROVE  IInv'
<1>1. /\ call[t].pc = "creating" /\ session = NoSession /\ session' = s
      /\ UNCHANGED <<worker, of, kernel, object, watch>>
  BY DEF BuffersCreated, device, IInv, CallsWait
<1>2. /\ duplex'[s].alive /\ ~duplex'[s].running /\ duplex'[s].thread = NoThread
      /\ \A r \in Sessions : r # s => duplex'[r] = duplex[r]
      /\ call'[t] = Idle
      /\ \A u \in Callers : u # t => call'[u] = call[u]
  BY DEF IInv, Types, BuffersCreated, Freed
<1>3. \A w \in Workers : ~Streaming(w)
  BY <1>1, CallStreams
<1>4. \A u \in Callers : u # t => ~Controls(u)
  BY <1>1 DEF IInv, OneControl, Controls
<1>5. \A u \in Callers : call'[u].pc \in {"idle", "query"}
  BY <1>2, <1>4 DEF Controls, Idle
<1>6. kernel \notin Sessions
  BY <1>1, <1>4, Names DEF IInv, KernelRuns, Controls
<1>7. OneControl'
  BY <1>2, <1>5 DEF IInv, OneControl, Controls, Idle
<1>8. CallsWait' /\ SessionHolds'
  BY <1>1, <1>2, <1>5, Names DEF IInv, CallsWait, SessionHolds
<1>9. ThreadsAreKnown' /\ KernelRuns'
  BY <1>1, <1>2, <1>3, <1>6, Names DEF ThreadsAreKnown, KernelRuns, Streaming
<1>10. ObjectLast'
  <2>1. object # "open" => \A u \in Callers : call'[u].pc # "query"
    BY <1>2 DEF IInv, ObjectLast, Idle
  <2>2. object # "gone"
    BY <1>1 DEF IInv, ObjectLast, Idle
  <2> QED BY <1>1, <1>5, <2>1, <2>2 DEF ObjectLast
<1> QED BY <1>7, <1>8, <1>9, <1>10 DEF IInv

LEMMA StartStep ==
  ASSUME IInv, Types', NEW t \in Callers, Start(t)
  PROVE  IInv'
<1>1. /\ ControlFree /\ session \in Sessions /\ ~duplex[session].running
      /\ UNCHANGED <<session, worker, of, kernel, object, watch>> /\ object = "open"
  BY DEF Start, MayControl, MayCall, device, IInv, Types
<1>2. /\ \A s \in Sessions :
           /\ duplex'[s].alive = duplex[s].alive /\ duplex'[s].valid = duplex[s].valid
           /\ duplex'[s].running = duplex[s].running /\ duplex'[s].thread = duplex[s].thread
      /\ call'[t].pc = "starting"
      /\ \A u \in Callers : u # t => call'[u] = call[u]
  BY DEF IInv, Types, Start
<1>3. \A w \in Workers : ~Streaming(w)
  BY <1>1, FreeStreams DEF Held
<1>4. \A u \in Callers : call[u].pc \in {"idle", "query"}
  BY <1>1 DEF ControlFree
<1>5. Alone(t)
  BY <1>2, <1>4 DEF Alone, Controls
<1>6. OneControl'
  <2>1. t \in Workers => worker[t] = "reset"
    BY <1>3, Names DEF Start, MayControl, MayCall, Streaming
  <2> QED BY <1>1, <1>2, <1>5, <2>1, OneControlStep
<1>7. \A u \in Callers : call'[u].pc \in {"idle", "query", "starting"}
  BY <1>2, <1>4
<1>8. kernel \notin Sessions
  BY <1>1, <1>4, Names DEF IInv, KernelRuns
<1>9. CallsWait' /\ SessionHolds'
  BY <1>1, <1>2, <1>7, Names DEF IInv, CallsWait, SessionHolds
<1>10. ThreadsAreKnown' /\ KernelRuns'
  BY <1>1, <1>2, <1>3, <1>8, Names DEF ThreadsAreKnown, KernelRuns, Streaming
<1>11. ObjectLast'
  BY <1>1, <1>2, <1>7 DEF IInv, ObjectLast
<1> QED BY <1>6, <1>9, <1>10, <1>11 DEF IInv

LEMMA StartedStep ==
  ASSUME IInv, Types', NEW t \in Callers, NEW w \in Workers, Started(t, w)
  PROVE  IInv'
<1>1. /\ call[t].pc = "starting" /\ session \in Sessions /\ ~duplex[session].running
      /\ UNCHANGED <<session, object, watch>> /\ kernel = Nobody /\ kernel' = session
  BY Names DEF Started, KernelStarts, IInv, Types, CallsWait
<1>2. /\ duplex'[session].running /\ duplex'[session].thread = w
      /\ \A s \in Sessions :
           /\ duplex'[s].alive = duplex[s].alive
           /\ s # session => duplex'[s] = duplex[s]
      /\ call'[t] = Idle
      /\ \A u \in Callers : u # t => call'[u] = call[u]
  BY <1>1 DEF IInv, Types, Started
<1>3. /\ worker[w] = "none" /\ of'[w] = session
      /\ \A v \in Workers : v # w => worker'[v] = worker[v] /\ of'[v] = of[v]
  BY DEF Started, IInv, Types
<1>4. \A v \in Workers : ~Streaming(v)
  BY <1>1, CallStreams
<1>5. \A v \in Workers : v # w => ~Streaming(v)'
  BY <1>3, <1>4 DEF Streaming
<1>6. \A u \in Callers : u # t => ~Controls(u)
  BY <1>1 DEF IInv, OneControl, Controls
<1>7. \A u \in Callers : call'[u].pc \in {"idle", "query"}
  BY <1>2, <1>6 DEF Controls, Idle
<1>8. OneControl'
  BY <1>2, <1>7 DEF IInv, OneControl, Controls, Idle
<1>9. CallsWait' /\ SessionHolds'
  BY <1>1, <1>2, <1>7, Names DEF IInv, CallsWait, SessionHolds
<1>10. ThreadsAreKnown' /\ KernelRuns'
  BY <1>1, <1>2, <1>3, <1>5, Names DEF ThreadsAreKnown, KernelRuns, Held
<1>11. ObjectLast'
  <2>2. object # "open" => \A u \in Callers : call'[u].pc # "query"
    BY <1>2 DEF IInv, ObjectLast, Idle
  <2>3. object # "gone"
    BY <1>1 DEF IInv, ObjectLast, Idle
  <2> QED BY <1>1, <1>7, <2>2, <2>3 DEF ObjectLast
<1> QED BY <1>8, <1>9, <1>10, <1>11 DEF IInv

LEMMA StopStep ==
  ASSUME IInv, Types', StopsElsewhere, NEW t \in Callers, Stop(t)
  PROVE  IInv'
<1>1. /\ \A u \in Callers : ~Controls(u)
      /\ call[t] = Idle /\ object = "open" /\ (t \in Workers => worker[t] = "reset")
      /\ ControlFree
  BY Beginner DEF Stop, MayControl
<1>2. /\ session \in Sessions /\ duplex[session].running
      /\ UNCHANGED <<session, worker, of, kernel, object, watch>>
  BY DEF Stop, device, IInv, Types
<1>3. /\ ~duplex'[session].running /\ duplex'[session].thread = NoThread /\ duplex'[session].stop
      /\ \A s \in Sessions :
           /\ duplex'[s].alive = duplex[s].alive /\ duplex'[s].valid = duplex[s].valid
           /\ s # session => duplex'[s] = duplex[s]
      /\ call'[t] = [pc |-> "stopping", joinee |-> duplex[session].thread, on |-> session]
      /\ \A u \in Callers : u # t => call'[u] = call[u]
  BY <1>2 DEF IInv, Types, Stop
<1>4. /\ call'[t].pc = "stopping" /\ call'[t].joinee = duplex[session].thread
      /\ call'[t].on = session
  BY <1>3
<1>5. OneControl'
  BY <1>1, <1>2, <1>3, <1>4, OneControlStep DEF Alone
<1>6. \A u \in Callers : u # t => call'[u].pc \in {"idle", "query"}
  BY <1>1, <1>3 DEF Controls
<1>7. CallsWait'
  <2>1. TakenBy(t)'
    BY <1>2, <1>3, <1>4, Names DEF TakenBy, IInv, SessionHolds
  <2> QED BY <1>2, <1>3, <1>4, <1>6, <2>1 DEF CallsWait
<1>8. SessionHolds'
  BY <1>2, <1>3 DEF IInv, SessionHolds
<1>9. ThreadsAreKnown'
  <2> SUFFICES ASSUME NEW w \in Workers, Streaming(w) PROVE Ending(w)'
    BY <1>2 DEF ThreadsAreKnown, Streaming
  <2>1. duplex[session].thread = w /\ of[w] = session
    BY <1>1, FreeStreams DEF Held
  <2> QED BY <1>2, <1>4, <2>1 DEF Ending
<1>10. KernelRuns'
  <2>1. kernel \in Sessions => kernel = session
    BY <1>1 DEF IInv, KernelRuns, Controls
  <2>2. \A w \in Workers : Streaming(w) /\ duplex'[of[w]].valid => kernel = of[w]
    BY <1>3, StreamsBelong DEF IInv, KernelRuns
  <2> QED BY <1>2, <1>3, <1>4, <2>1, <2>2 DEF KernelRuns, Streaming
<1>11. ObjectLast'
  BY <1>1, <1>2, <1>3, <1>4, <1>6 DEF ObjectLast
<1> QED BY <1>5, <1>7, <1>8, <1>9, <1>10, <1>11 DEF IInv

LEMMA StoppedStep ==
  ASSUME IInv, Types', NEW t \in Callers, Stopped(t)
  PROVE  IInv'
<1>1. /\ call[t].pc = "stopping" /\ session \in Sessions /\ session = call[t].on
      /\ ~duplex[session].running
      /\ UNCHANGED <<session, duplex, worker, of, object, watch>>
      /\ kernel' = IF kernel = session THEN Nobody ELSE kernel
  BY DEF Stopped, StopStreams, KernelStops, IInv, CallsWait, TakenBy
<1>2. call'[t] = Idle /\ \A u \in Callers : u # t => call'[u] = call[u]
  BY DEF Stopped, IInv, Types
<1>3. \A w \in Workers : ~Streaming(w)
  BY <1>1, JoinedStreams DEF Stopped
<1>4. Alone(t)
  BY <1>1, <1>2 DEF Alone, IInv, OneControl, Controls
<1>5. OneControl'
  BY <1>1, <1>2, <1>4, OneControlStep DEF Controls, Idle
<1>6. \A u \in Callers : call'[u].pc \in {"idle", "query"}
  BY <1>2, <1>4 DEF Alone, Controls, Idle
<1>7. CallsWait' /\ SessionHolds'
  BY <1>1, <1>6 DEF IInv, CallsWait, SessionHolds
<1>8. ThreadsAreKnown'
  BY <1>1, <1>3 DEF ThreadsAreKnown, Streaming
<1>9. KernelRuns'
  <2>1. kernel' \notin Sessions
    <3>1. kernel \in Sessions => kernel = session
      BY <1>1, <1>4 DEF IInv, KernelRuns, Alone, Controls
    <3> QED BY <1>1, <3>1, Names
  <2> QED BY <1>1, <1>3, <2>1 DEF KernelRuns, Streaming
<1>10. ObjectLast'
  <2>1. object # "open" => \A u \in Callers : call'[u].pc # "query"
    BY <1>2 DEF IInv, ObjectLast, Idle
  <2>2. object # "gone"
    BY <1>1 DEF IInv, ObjectLast, Idle
  <2> QED BY <1>1, <1>6, <2>1, <2>2 DEF ObjectLast
<1> QED BY <1>5, <1>7, <1>8, <1>9, <1>10 DEF IInv

(* The session is taken and its thread, if it still has one, signalled.    *)
LEMMA BeginDropStep ==
  ASSUME IInv, Types', NEW t \in Callers, BeginDrop(t), session # NoSession,
         \A u \in Callers : u # t => ~Controls(u),
         call[t].pc \in {"idle", "quitting"}, t \in Workers => worker[t] = "reset",
         object = "open" \/ (object = "closing" /\ watch = "ended"),
         UNCHANGED <<worker, of, kernel, object, watch>>
  PROVE  IInv'
<1>1. session \in Sessions /\ session' = NoSession
  BY DEF BeginDrop, IInv, Types
<1>2. /\ duplex'[session].thread = NoThread
      /\ duplex[session].thread # NoThread => duplex'[session].stop
      /\ \A s \in Sessions :
           /\ duplex'[s].alive = duplex[s].alive /\ duplex'[s].valid = duplex[s].valid
           /\ duplex'[s].running = duplex[s].running
           /\ s # session => duplex'[s] = duplex[s]
      /\ call'[t] = [pc |-> "dropping", joinee |-> duplex[session].thread, on |-> session]
      /\ \A u \in Callers : u # t => call'[u] = call[u]
  BY <1>1 DEF IInv, Types, BeginDrop
<1>3. /\ call'[t].pc = "dropping" /\ call'[t].joinee = duplex[session].thread
      /\ call'[t].on = session
  BY <1>2
<1>4. OneControl'
  BY <1>2, <1>3, OneControlStep DEF Alone
<1>5. \A u \in Callers : u # t => call'[u].pc \in {"idle", "query"}
  BY <1>2 DEF Controls
<1>6. CallsWait'
  <2>1. TakenBy(t)'
    BY <1>1, <1>2, <1>3 DEF TakenBy, IInv, SessionHolds
  <2> QED BY <1>1, <1>3, <1>5, <2>1 DEF CallsWait
<1>7. SessionHolds'
  BY <1>1, <1>2 DEF IInv, SessionHolds
<1>8. \A u \in Callers : call[u].pc \notin {"stopping", "dropping"}
  BY DEF Controls
<1>9. ThreadsAreKnown'
  <2> SUFFICES ASSUME NEW w \in Workers, Streaming(w) PROVE Ending(w)'
    BY DEF ThreadsAreKnown, Streaming
  <2>1. duplex[session].thread = w /\ of[w] = session
    BY <1>8 DEF IInv, ThreadsAreKnown, Ending, Held
  <2> QED BY <1>3, <2>1 DEF Ending
<1>10. KernelRuns'
  <2>1. kernel \in Sessions => kernel = session
    BY <1>8 DEF IInv, KernelRuns
  <2>2. \A w \in Workers : Streaming(w) /\ duplex'[of[w]].valid => kernel = of[w]
    BY <1>2, StreamsBelong DEF IInv, KernelRuns
  <2> QED BY <1>1, <1>3, <2>1, <2>2 DEF KernelRuns, Streaming
<1>11. ObjectLast'
  <2>1. object # "open" => \A u \in Callers : call'[u].pc # "query"
    BY <1>2, <1>3 DEF IInv, ObjectLast
  <2> QED BY <1>3, <1>5, <2>1 DEF ObjectLast
<1> QED BY <1>4, <1>6, <1>7, <1>9, <1>10, <1>11 DEF IInv

LEMMA DroppedStep ==
  ASSUME IInv, Types', NEW t \in Callers, Dropped(t)
  PROVE  IInv'
<1> DEFINE s == call[t].on
<1>1. /\ call[t].pc = "dropping" /\ session = NoSession /\ s \in Sessions
      /\ UNCHANGED <<session, worker, of, watch>>
      /\ kernel' = IF kernel = s THEN Nobody ELSE kernel
      /\ object' = IF object = "closing" THEN "gone" ELSE object
  BY DEF Dropped, StopStreams, KernelStops, IInv, CallsWait, TakenBy
<1>2. /\ call'[t] = Idle /\ \A u \in Callers : u # t => call'[u] = call[u]
      /\ duplex'[s] = Freed /\ \A r \in Sessions : r # s => duplex'[r] = duplex[r]
  BY <1>1 DEF Dropped, IInv, Types
<1>3. \A w \in Workers : ~Streaming(w)
  BY <1>1, JoinedStreams DEF Dropped
<1>4. Alone(t)
  BY <1>1, <1>2 DEF Alone, IInv, OneControl, Controls
<1>5. OneControl'
  BY <1>1, <1>2, <1>4, OneControlStep DEF Controls, Idle
<1>6. \A u \in Callers : call'[u].pc \in {"idle", "query"}
  BY <1>2, <1>4 DEF Alone, Controls, Idle
<1>7. CallsWait' /\ SessionHolds'
  BY <1>1, <1>2, <1>6 DEF IInv, CallsWait, SessionHolds, Freed
<1>8. ThreadsAreKnown'
  BY <1>1, <1>3 DEF ThreadsAreKnown, Streaming
<1>9. KernelRuns'
  <2>1. kernel' \notin Sessions
    <3>1. kernel \in Sessions => kernel = s
      BY <1>1, <1>4, Names DEF IInv, KernelRuns, Alone, Controls
    <3> QED BY <1>1, <3>1, Names
  <2> QED BY <1>1, <1>3, <2>1 DEF KernelRuns, Streaming
<1>10. ObjectLast'
  <2>1. object # "open" => \A u \in Callers : call'[u] = Idle
    BY <1>2, <1>4, <1>6 DEF IInv, ObjectLast, OneControl, Alone
  <2>2. object # "gone"
    BY <1>1 DEF IInv, ObjectLast, Idle
  <2>3. object = "closing" => watch = "ended"
    BY <1>1 DEF IInv, ObjectLast
  <2>4. object' # "open" => object # "open"
    BY <1>1
  <2> QED BY <1>1, <1>6, <2>1, <2>2, <2>3, <2>4, Names DEF ObjectLast, Idle
<1> QED BY <1>5, <1>7, <1>8, <1>9, <1>10 DEF IInv

LEMMA ReleaseStep ==
  ASSUME IInv, Types', StopsElsewhere, NEW t \in Callers, Release(t)
  PROVE  IInv'
<1>1. /\ \A u \in Callers : ~Controls(u) /\ call[u] = Idle
      /\ t \in Workers => worker[t] = "reset"
  BY Beginner DEF Release
<1>2. /\ UNCHANGED <<session, duplex, worker, of, kernel, watch>> /\ object' = "closing"
  BY DEF Release, device
<1>3. /\ call'[t].pc = "quitting" /\ \A u \in Callers : u # t => call'[u] = Idle
  BY <1>1 DEF Release, IInv, Types
<1>4. OneControl'
  BY <1>1, <1>2, <1>3, OneControlStep DEF Alone, Idle
<1>5. \A u \in Callers : call[u].pc = "idle" /\ call'[u].pc \in {"idle", "quitting"}
  BY <1>1, <1>3 DEF Idle
<1>6. CallsWait' /\ SessionHolds'
  BY <1>2, <1>5 DEF IInv, CallsWait, SessionHolds
<1>7. ThreadsAreKnown'
  BY <1>2, <1>5 DEF IInv, ThreadsAreKnown, Held, Ending, Streaming
<1>8. KernelRuns'
  BY <1>2, <1>5 DEF IInv, KernelRuns, Streaming
<1>9. ObjectLast'
  BY <1>2, <1>5 DEF ObjectLast
<1> QED BY <1>4, <1>6, <1>7, <1>8, <1>9 DEF IInv

(* The settings thread has ended: the driver drops the session it has.     *)
LEMMA WatchJoinedStep ==
  ASSUME IInv, Types', NEW t \in Callers, WatchJoined(t)
  PROVE  IInv'
<1>1. /\ call[t].pc = "quitting" /\ object = "closing" /\ watch = "ended"
      /\ UNCHANGED <<worker, of, kernel, watch>>
      /\ t \in Workers => worker[t] = "reset"
      /\ \A u \in Callers : u # t => ~Controls(u)
  BY DEF WatchJoined, device, IInv, ObjectLast, OneControl, Controls
<1>2. CASE session # NoSession
  BY <1>1, <1>2, BeginDropStep DEF WatchJoined
<1>3. CASE session = NoSession
  <2>1. /\ object' = "gone" /\ UNCHANGED <<session, duplex>> /\ call'[t] = Idle
        /\ \A u \in Callers : u # t => call'[u] = call[u]
    BY <1>3 DEF WatchJoined, IInv, Types
  <2>2. \A u \in Callers : call[u].pc \notin {"stopping", "dropping"}
    BY <1>1 DEF Controls
  <2>3. \A u \in Callers : call'[u] = Idle
    BY <1>1, <2>1 DEF IInv, OneControl, ObjectLast, Controls
  <2>4. \A w \in Workers : ~Streaming(w)
    BY <1>3, <2>2 DEF IInv, ThreadsAreKnown, Held, Ending
  <2>5. kernel \notin Sessions
    BY <1>3, <2>2, Names DEF IInv, KernelRuns
  <2>6. OneControl' /\ CallsWait' /\ SessionHolds'
    BY <1>1, <2>1, <2>3 DEF IInv, OneControl, CallsWait, SessionHolds, Controls, Idle
  <2>7. ThreadsAreKnown' /\ KernelRuns'
    BY <1>1, <1>3, <2>1, <2>4, <2>5 DEF ThreadsAreKnown, KernelRuns, Streaming
  <2>8. ObjectLast'
    BY <1>1, <1>3, <2>1, <2>3 DEF ObjectLast, Idle
  <2> QED BY <2>6, <2>7, <2>8 DEF IInv
<1> QED BY <1>2, <1>3

-----------------------------------------------------------------------------
(* Invariance                                                              *)

LEMMA InvariantInit == Init => IInv
<1> SUFFICES ASSUME Init PROVE IInv
  OBVIOUS
<1>1. Types
  BY DEF Init, Types, Idle, Freed, CallStates
<1>2. \A t \in Callers : call[t] = Idle /\ call[t].pc = "idle"
  BY DEF Init, Idle
<1>3. \A w \in Workers : ~Streaming(w)
  BY DEF Init, Streaming
<1>4. \A s \in Sessions : duplex[s].thread = NoThread
  BY DEF Init, Freed
<1>5. OneControl /\ CallsWait /\ SessionHolds
  BY <1>2, <1>4 DEF Init, OneControl, CallsWait, SessionHolds, Controls
<1>6. ThreadsAreKnown /\ KernelRuns
  BY <1>3, Names DEF Init, ThreadsAreKnown, KernelRuns
<1>7. ObjectLast
  BY <1>2 DEF Init, ObjectLast
<1> QED BY <1>1, <1>5, <1>6, <1>7 DEF IInv

LEMMA InvariantStep ==
  ASSUME StopsElsewhere, IInv, [Next]_vars
  PROVE  IInv'
<1>0. Types'
  BY TypesStep
<1>1. ASSUME NEW t \in Callers, Control(t) PROVE IInv'
  <2>1. CASE DisposeBuffers(t)
    <3>1. /\ \A u \in Callers : ~Controls(u)
          /\ call[t].pc = "idle" /\ object = "open" /\ (t \in Workers => worker[t] = "reset")
      BY <2>1, Beginner DEF DisposeBuffers, Idle
    <3> QED BY <1>0, <2>1, <3>1, BeginDropStep DEF DisposeBuffers, device
  <2> QED BY <1>0, <1>1, <2>1, CreateStep, StartStep, StopStep, ReleaseStep, QuietSteps DEF Control
<1>2. ASSUME NEW t \in Callers, CallContinues(t) PROVE IInv'
  BY <1>0, <1>2, CreatedStep, StartedStep, StoppedStep, DroppedStep, WatchJoinedStep, QuietSteps
  DEF CallContinues, CreateReturns, StartReturns
<1> QED BY <1>0, <1>1, <1>2, CardStep, QuietSteps DEF Next, Card

LEMMA Invariance == ASSUME StopsElsewhere PROVE Spec => []IInv
<1>1. IInv /\ [Next]_vars => IInv'
  BY InvariantStep
<1> QED BY <1>1, InvariantInit, PTL DEF Spec

-----------------------------------------------------------------------------
(* Theorems                                                                *)

(* No two threads stream, none outlives the buffers it fills or the object *)
(* its callbacks use, and the settings thread ends before the object does. *)
THEOREM ThreadsEnd == ASSUME StopsElsewhere PROVE Spec => []ThreadsEndFirst
<1>1. IInv => ThreadsEndFirst
  <2> SUFFICES ASSUME IInv PROVE ThreadsEndFirst
    OBVIOUS
  <2>1. OneStreamingThread
    <3> SUFFICES ASSUME NEW v \in Workers, NEW w \in Workers, Streaming(v), Streaming(w)
                 PROVE  v = w
      BY DEF OneStreamingThread
    <3>1. CASE Held(v) /\ Held(w)
      BY <3>1 DEF Held
    <3>2. CASE Ending(v) \/ Ending(w)
      BY <3>2, CallStreams DEF Ending
    <3> QED BY <3>1, <3>2 DEF IInv, ThreadsAreKnown
  <2>2. BuffersOutliveThread
    BY StreamsBelong DEF BuffersOutliveThread
  <2>3. ObjectOutlivesThreads
    <3> SUFFICES ASSUME object = "gone", NEW w \in Workers
                 PROVE  watch = "ended" /\ ~Streaming(w)
      BY DEF ObjectOutlivesThreads, IInv, ObjectLast
    <3>1. session = NoSession /\ watch = "ended" /\ \A t \in Callers : call[t].pc = "idle"
      BY DEF IInv, ObjectLast, Idle
    <3> QED BY <3>1 DEF IInv, ThreadsAreKnown, Held, Ending
  <2> QED BY <2>1, <2>2, <2>3 DEF ThreadsEndFirst
<1> QED BY <1>1, Invariance, PTL

(* Between calls, the kernel driver streams for the session that runs and  *)
(* for no other, through unplugging and other programs.                    *)
THEOREM KernelFollows == ASSUME StopsElsewhere PROVE Spec => []KernelFollowsDriver
<1>1. IInv => KernelFollowsDriver
  BY DEF IInv, KernelRuns, KernelFollowsDriver, ControlFree
<1> QED BY <1>1, Invariance, PTL

(* A streaming thread of a session in order asks the host for no reset:    *)
(* the kernel driver runs its session until the thread has ended.          *)
THEOREM ResetsNeeded == ASSUME StopsElsewhere PROVE Spec => ResetsAreNeeded
<1>1. IInv /\ [Next]_vars =>
        [\A w \in Workers : worker[w] # "reset" /\ worker'[w] = "reset"
           => stalled \/ ~duplex[of[w]].valid]_vars
  <2> SUFFICES ASSUME IInv, Next, NEW w \in Workers, worker[w] # "reset", worker'[w] = "reset",
                      ~stalled, duplex[of[w]].valid
               PROVE  FALSE
    OBVIOUS
  <2>1. WorkerRuns(w)
    <3>1. CASE \E v \in Workers : WorkerRuns(v)
      <4>1. PICK v \in Workers : WorkerRuns(v)
        BY <3>1
      <4>2. \E pc : Goes(v, pc)
        BY <4>1 DEF WorkerRuns, WaitStop, WaitPeriod, WaitFails, Read, SwitchReturns, Write, ResetReturns
      <4>3. v # w => worker'[w] = worker[w]
        BY <4>2 DEF Goes, IInv, Types
      <4> QED BY <4>1, <4>3
    <3>2. CASE \E t \in Callers : \E v \in Workers : Started(t, v)
      BY <3>2 DEF Started, IInv, Types
    <3>3. CASE ~(\E v \in Workers : WorkerRuns(v))
               /\ ~(\E t \in Callers : \E v \in Workers : Started(t, v))
      BY <3>3 DEF Next, Control, CallContinues, CreateReturns, StartReturns, Card, device, Query, QueryReturns,
         CreateBuffers, CreateAsks, BuffersCreated, CreateFails, Start, StartFails, Stop, Stopped,
         DisposeBuffers, Dropped, Release,
         WatchJoined, Load, SettingsChange, WatchReturns, WatchQuits, PeriodCompletes, Stall,
         DeviceLeaves, DeviceReturns, OtherHost
    <3> QED BY <3>1, <3>2, <3>3
  <2>2. Streaming(w) /\ (WaitFails(w) \/ (Read(w) /\ KernelReads(of[w]) = "error")
                           \/ (Write(w) /\ KernelWrites(of[w]) # "taken"))
    <3>1. \A pc : Goes(w, pc) => pc = "reset"
      BY DEF Goes, IInv, Types
    <3>2. CASE Read(w)
      <4>1. KernelReads(of[w]) \in {"error", "nothing", "period"}
        BY DEF KernelReads
      <4>2. KernelReads(of[w]) = "error"
        BY <3>1, <3>2, <4>1 DEF Read
      <4> QED BY <3>2, <4>2 DEF Read, Streaming
    <3>3. CASE Write(w)
      BY <3>1, <3>3 DEF Write, Streaming
    <3>4. CASE WaitFails(w)
      BY <3>4 DEF WaitFails, Streaming
    <3>5. ~WaitStop(w) /\ ~WaitPeriod(w) /\ ~SwitchReturns(w) /\ ~ResetReturns(w)
      BY <3>1 DEF WaitStop, WaitPeriod, SwitchReturns, ResetReturns
    <3> QED BY <2>1, <3>2, <3>3, <3>4, <3>5 DEF WorkerRuns
  <2>3. duplex[of[w]].alive /\ kernel = of[w]
    BY <2>2, StreamsBelong DEF IInv, KernelRuns
  <2> QED BY <2>2, <2>3 DEF WaitFails, Delivers, KernelReads, KernelWrites
<1> QED BY <1>1, Invariance, PTL DEF Spec, ResetsAreNeeded
=============================================================================
