-------------------------- MODULE BufferSizesProofs -------------------------
(***************************************************************************)
(* Proofs that a host learns of every mismatch between its session and the *)
(* rate or the buffer size it should have, for any rates and multiples.    *)
(*                                                                         *)
(* The argument for changes of the settings follows a change on its way:   *)
(* until the settings thread has loaded it, it is notified, about to load, *)
(* or its next registration will notify it (`armed`); from then on until   *)
(* the host is asked, the thread is on its way to ask. Nothing else of the *)
(* session's size and rate changes without a request of its own.           *)
(***************************************************************************)
EXTENDS BufferSizes, TLAPS

LEMMA Loads == Load.rate \in RATES /\ Load.multiple \in BUFFER_MULTIPLES
BY SizesAssumption DEF Load

LEMMA TypeInit == Init => TypeOK
BY SizesAssumption DEF Init, TypeOK

LEMMA TypeStep == TypeOK /\ [Next]_vars => TypeOK'
<1> SUFFICES ASSUME TypeOK, [Next]_vars PROVE TypeOK'
  OBVIOUS
<1> USE DEF TypeOK
<1>1. CASE Panel
  <2>1. CASE SaveRate \/ SaveMultiple
    <3>1. KeyChanges /\ UNCHANGED driver
      BY <2>1 DEF SaveRate, SaveMultiple
    <3>2. notified' \in BOOLEAN
      BY <3>1 DEF KeyChanges
    <3>3. armed' \in {"never", "armed", "fired", "missed"}
      BY <3>1 DEF KeyChanges
    <3>4. QED
      BY <3>1, <3>2, <3>3 DEF KeyChanges, driver
  <2>2. CASE ~(SaveRate \/ SaveMultiple)
    BY <1>1, <2>2 DEF Panel, PanelOpens, ChangeSettings, SaveFails, driver, thread
  <2>3. QED
    BY <2>1, <2>2
<1>2. CASE Create \/ InitObject \/ Release \/ GetBufferSize
  BY <1>2, Loads DEF Create, InitObject, Release, GetBufferSize, thread
<1>3. CASE \E r \in UsedRates : SetSampleRate(r)
  BY <1>3, SizesAssumption DEF SetSampleRate, thread
<1>4. ASSUME NEW r \in UsedRates, NEW m \in UsedMultiples, CreateBuffers(buffer_frames(m, r))
      PROVE  TypeOK'
  <2>1. buffer_frames(m, r) \in Frames
    BY DEF Frames
  <2>2. (buffer_frames(m, r) < min_buffer_frames(rate)) \in BOOLEAN
    OBVIOUS
  <2>3. (UpToDate /\ last = Load.multiple) \in BOOLEAN
    OBVIOUS
  <2>4. QED
    BY <1>4, <2>1, <2>2, <2>3, Loads DEF CreateBuffers, thread
<1>5. CASE Start \/ Stop \/ DisposeBuffers
  <2>1. CASE Start
    <3>1. session \in [frames : Frames, rate : RATES \cup {NoRate}, running : BOOLEAN,
                      stale : BOOLEAN, multiple : BUFFER_MULTIPLES, followed : BOOLEAN]
      BY <2>1 DEF Start
    <3>2. session' \in [frames : Frames, rate : RATES \cup {NoRate}, running : BOOLEAN,
                       stale : BOOLEAN, multiple : BUFFER_MULTIPLES, followed : BOOLEAN]
      BY <2>1, <3>1 DEF Start
    <3>3. asked' \in BOOLEAN
      BY <2>1 DEF Start
    <3>4. QED
      BY <2>1, <3>2, <3>3 DEF Start, thread
  <2>2. CASE Stop
    BY <2>2 DEF Stop, thread
  <2>3. CASE DisposeBuffers
    BY <2>3 DEF DisposeBuffers, thread
  <2>4. QED
    BY <1>5, <2>1, <2>2, <2>3
<1>6. CASE Watch
  BY <1>6, Loads DEF Watch, WatchEnds, WatchLoads, WatchArms, WatchWakes, WatchCompares,
                     WatchApplies, WatchAsks, driver
<1>7. CASE UNCHANGED vars
  BY <1>7 DEF vars
<1>8. QED
  BY <1>1, <1>2, <1>3, <1>4, <1>5, <1>6, <1>7 DEF Next, Host

(* Whatever changes the rate or starts a session that is too small asks.   *)
LEMMA MismatchStep ==
  TypeOK /\ SessionHasObject /\ MismatchIsReported /\ [Next]_vars => MismatchIsReported'
<1> SUFFICES ASSUME TypeOK, SessionHasObject, MismatchIsReported, [Next]_vars
             PROVE  MismatchIsReported'
  OBVIOUS
<1> USE DEF TypeOK, MismatchIsReported
<1>1. CASE Panel
  BY <1>1 DEF Panel, PanelOpens, ChangeSettings, SaveRate, SaveMultiple, SaveFails, KeyChanges,
              driver
<1>2. CASE Create
  BY <1>2 DEF Create, SessionHasObject
<1>3. CASE InitObject \/ Release \/ GetBufferSize
  BY <1>3 DEF InitObject, Release, GetBufferSize
<1>4. CASE \E r \in UsedRates : SetSampleRate(r)
  BY <1>4 DEF SetSampleRate
<1>5. ASSUME NEW frames, CreateBuffers(frames) PROVE MismatchIsReported'
  <2> DEFINE Small == frames < min_buffer_frames(rate)
  <2>1. /\ session'.rate = rate /\ rate' = rate
        /\ session'.frames = frames /\ session'.running = FALSE
        /\ session'.stale = Small
    BY <1>5 DEF CreateBuffers
  <2>2. Small => session'.stale /\ ~session'.running
    BY <2>1
  <2>3. (session'.frames < min_buffer_frames(session'.rate)) = Small
    BY <2>1
  <2>4. min_buffer_frames(session.rate)' = min_buffer_frames(session'.rate)
    BY DEF min_buffer_frames, NextPowerOfTwo, DivCeil
  <2>5. QED
    BY <2>1, <2>2, <2>3, <2>4
<1>6. CASE Start \/ Stop \/ DisposeBuffers
  BY <1>6 DEF Start, Stop, DisposeBuffers
<1>7. CASE Watch
  BY <1>7 DEF Watch, WatchEnds, WatchLoads, WatchArms, WatchWakes, WatchCompares, WatchApplies,
              WatchAsks, driver
<1>8. CASE UNCHANGED vars
  BY <1>8 DEF vars
<1>9. QED
  BY <1>1, <1>2, <1>3, <1>4, <1>5, <1>6, <1>7, <1>8 DEF Next, Host

LEMMA ObjectStep == TypeOK /\ SessionHasObject /\ [Next]_vars => SessionHasObject'
<1> SUFFICES ASSUME TypeOK, SessionHasObject, [Next]_vars PROVE SessionHasObject'
  OBVIOUS
<1> USE DEF TypeOK, SessionHasObject
<1>1. CASE Panel
  BY <1>1 DEF Panel, PanelOpens, ChangeSettings, SaveRate, SaveMultiple, SaveFails, driver
<1>2. CASE Create \/ InitObject \/ Release \/ GetBufferSize \/ \E r \in UsedRates : SetSampleRate(r)
  BY <1>2 DEF Create, InitObject, Release, GetBufferSize, SetSampleRate
<1>3. ASSUME NEW frames, CreateBuffers(frames) PROVE SessionHasObject'
  BY <1>3 DEF CreateBuffers
<1>4. CASE Start \/ Stop \/ DisposeBuffers
  BY <1>4 DEF Start, Stop, DisposeBuffers
<1>5. CASE Watch
  BY <1>5 DEF Watch, WatchEnds, WatchLoads, WatchArms, WatchWakes, WatchCompares, WatchApplies,
              WatchAsks, driver
<1>6. CASE UNCHANGED vars
  BY <1>6 DEF vars
<1>7. QED
  BY <1>1, <1>2, <1>3, <1>4, <1>5, <1>6 DEF Next, Host

(* A registration after a change notifies at once, one before it later.    *)
LEMMA ArmedStep == TypeOK /\ WaitsArmed /\ [Next]_vars => WaitsArmed'
<1> SUFFICES ASSUME TypeOK, WaitsArmed, [Next]_vars PROVE WaitsArmed'
  OBVIOUS
<1> USE DEF TypeOK, WaitsArmed
<1>1. CASE SaveRate \/ SaveMultiple
  <2>1. KeyChanges
    BY <1>1 DEF SaveRate, SaveMultiple
  <2>2. notified => notified'
    BY <2>1 DEF KeyChanges
  <2>3. armed = "armed" => notified'
    BY <2>1 DEF KeyChanges
  <2>4. watch' = watch
    BY <2>1 DEF KeyChanges
  <2>5. QED
    BY <2>2, <2>3, <2>4
<1>2. CASE WatchArms
  <2>1. CASE armed = "missed"
    BY <1>2, <2>1 DEF WatchArms
  <2>2. CASE armed # "missed"
    BY <1>2, <2>2 DEF WatchArms
  <2>3. QED
    BY <2>1, <2>2
<1>3. CASE WatchEnds \/ WatchLoads \/ WatchWakes \/ WatchCompares \/ WatchApplies \/ WatchAsks
  BY <1>3 DEF WatchEnds, WatchLoads, WatchWakes, WatchCompares, WatchApplies, WatchAsks
<1>4. CASE InitObject \/ Release
  BY <1>4 DEF InitObject, Release
<1>5. CASE UNCHANGED thread
  BY <1>5 DEF thread
<1>6. QED
  <2>1. CASE Panel
    BY <2>1, <1>1, <1>5 DEF Panel, PanelOpens, ChangeSettings, SaveFails
  <2>2. CASE Host
    <3>1. CASE \E r \in UsedRates, m \in UsedMultiples : CreateBuffers(buffer_frames(m, r))
      BY <3>1, <1>5 DEF CreateBuffers
    <3>2. CASE \E r \in UsedRates : SetSampleRate(r)
      BY <3>2, <1>5 DEF SetSampleRate
    <3>3. CASE Create \/ GetBufferSize \/ Start \/ Stop \/ DisposeBuffers
      BY <3>3, <1>5 DEF Create, GetBufferSize, Start, Stop, DisposeBuffers
    <3>4. QED
      BY <2>2, <3>1, <3>2, <3>3, <1>4 DEF Host
  <2>3. CASE Watch
    BY <2>3, <1>2, <1>3 DEF Watch
  <2>4. CASE UNCHANGED vars
    BY <2>4, <1>5 DEF vars, thread
  <2>5. QED
    BY <2>1, <2>2, <2>3, <2>4 DEF Next

LEMMA SizeLater == buffer_frames(last, rate)' = buffer_frames(last', rate')
BY DEF buffer_frames, min_buffer_frames, NextPowerOfTwo, DivCeil

(* No step loses a change: where one disjunct of ChangeIsOnItsWay ends,    *)
(* the next begins.                                                        *)
LEMMA ChangeStep ==
  TypeOK /\ SessionHasObject /\ WaitsArmed /\ ChangeIsOnItsWay /\ [Next]_vars => ChangeIsOnItsWay'
<1> SUFFICES ASSUME TypeOK, SessionHasObject, WaitsArmed, ChangeIsOnItsWay, [Next]_vars
             PROVE  ChangeIsOnItsWay'
  OBVIOUS
<1> USE SizeLater DEF TypeOK, ChangeIsOnItsWay, Followed
<1>1. CASE SaveRate \/ SaveMultiple
  <2>1. KeyChanges /\ UNCHANGED driver
    BY <1>1 DEF SaveRate, SaveMultiple
  <2>2. UNCHANGED <<watch, last, rate, session, asked>>
    BY <2>1 DEF KeyChanges, driver
  <2>3. armed # "never" => notified' \/ armed' = "missed"
    <3>1. CASE armed = "armed"
      BY <2>1, <3>1 DEF KeyChanges
    <3>2. CASE armed \in {"fired", "missed"}
      BY <2>1, <3>2 DEF KeyChanges
    <3>3. QED
      BY <3>1, <3>2
  <2>4. armed # "never" => armed' # "never"
    BY <2>1 DEF KeyChanges
  <2>5. QED
    BY <2>2, <2>3, <2>4
<1>2. CASE UNCHANGED <<stored, driver, thread>>
  <2>1. Load.multiple' = Load.multiple
    BY <1>2 DEF Load
  <2>2. QED
    BY <1>2, <2>1 DEF driver, thread
<1>3. CASE UNCHANGED settings /\ Host
  <2>1. Load.multiple' = Load.multiple
    BY <1>3 DEF Load, settings
  <2>2. CASE Create \/ InitObject \/ Release \/ GetBufferSize
    BY <2>1, <2>2 DEF Create, InitObject, Release, GetBufferSize, thread, SessionHasObject
  <2>3. CASE \E r \in UsedRates : SetSampleRate(r)
    <3>1. UNCHANGED <<session, watch, last, notified, armed>> /\ asked' = (session # NoSession)
      BY <2>3 DEF SetSampleRate, thread
    <3>2. QED
      BY <2>1, <3>1
  <2>4. ASSUME NEW frames, CreateBuffers(frames) PROVE ChangeIsOnItsWay'
    <3>1. /\ session'.multiple = Load.multiple
          /\ session'.followed <=> UpToDate /\ last = Load.multiple
          /\ UNCHANGED <<rate, watch, last, notified, armed>>
      BY <2>4 DEF CreateBuffers, thread
    <3>2. QED
      BY <2>1, <3>1 DEF UpToDate, WaitsArmed
  <2>5. CASE Start
    <3>1. session' = [session EXCEPT !.running = TRUE, !.stale = FALSE] /\ session # NoSession
      BY <2>5 DEF Start
    <3>2. /\ session'.multiple = session.multiple /\ session'.frames = session.frames
          /\ session'.followed = session.followed
      BY <3>1
    <3>3. asked => asked'
      BY <2>5 DEF Start
    <3>4. UNCHANGED <<rate, watch, last, notified, armed>>
      BY <2>5 DEF Start, thread
    <3>5. QED
      BY <2>1, <3>1, <3>2, <3>3, <3>4
  <2>6. CASE Stop
    BY <2>1, <2>6 DEF Stop, thread
  <2>7. CASE DisposeBuffers
    BY <2>7 DEF DisposeBuffers
  <2>8. QED
    BY <1>3, <2>2, <2>3, <2>4, <2>5, <2>6, <2>7 DEF Host
<1>4. CASE UNCHANGED settings /\ Watch
  <2>1. Load.multiple' = Load.multiple
    BY <1>4 DEF Load, settings
  <2>2. CASE WatchEnds \/ WatchLoads
    BY <2>2 DEF WatchEnds, WatchLoads, driver
  <2>3. CASE WatchArms
    <3>1. CASE armed = "missed"
      BY <2>1, <2>3, <3>1 DEF WatchArms, driver
    <3>2. CASE armed # "missed"
      BY <2>1, <2>3, <3>2 DEF WatchArms, driver
    <3>3. QED
      BY <3>1, <3>2
  <2>4. CASE WatchWakes
    BY <2>1, <2>4 DEF WatchWakes, driver
  <2>5. CASE WatchCompares
    BY <2>1, <2>5 DEF WatchCompares, driver
  <2>6. CASE WatchApplies
    BY <2>1, <2>6 DEF WatchApplies, driver
  <2>7. CASE WatchAsks
    <3>1. UNCHANGED <<rate, session, last, notified, armed>>
      BY <2>7 DEF WatchAsks
    <3>2. watch' = "arming" /\ asked' = (session # NoSession) /\ watch = "asking"
      BY <2>7 DEF WatchAsks
    <3>3. QED
      BY <2>1, <3>1, <3>2
  <2>8. QED
    BY <1>4, <2>2, <2>3, <2>4, <2>5, <2>6, <2>7 DEF Watch
<1>5. QED
  <2>1. CASE Panel
    BY <2>1, <1>1, <1>2 DEF Panel, PanelOpens, ChangeSettings, SaveFails
  <2>2. CASE Host
    <3>1. UNCHANGED settings
      BY <2>2 DEF Host, Create, InitObject, Release, GetBufferSize, SetSampleRate, CreateBuffers,
                  Start, Stop, DisposeBuffers
    <3>2. QED
      BY <2>2, <3>1, <1>3
  <2>3. CASE Watch
    <3>1. UNCHANGED settings
      BY <2>3 DEF Watch, WatchEnds, WatchLoads, WatchArms, WatchWakes, WatchCompares,
                  WatchApplies, WatchAsks
    <3>2. QED
      BY <2>3, <3>1, <1>4
  <2>4. CASE UNCHANGED vars
    BY <2>4, <1>2 DEF vars, driver, thread
  <2>5. QED
    BY <2>1, <2>2, <2>3, <2>4 DEF Next

LEMMA IInvInit == Init => IInv
<1> SUFFICES ASSUME Init PROVE IInv
  OBVIOUS
<1>1. session = NoSession /\ watch = "none"
  BY DEF Init
<1>2. QED
  BY <1>1, TypeInit DEF IInv, SessionHasObject, MismatchIsReported, WaitsArmed, ChangeIsOnItsWay,
                        Followed

LEMMA IInvStep == IInv /\ [Next]_vars => IInv'
BY TypeStep, ObjectStep, MismatchStep, ArmedStep, ChangeStep DEF IInv

LEMMA IInvImplies == IInv => ChangeIsAsked
<1> SUFFICES ASSUME IInv, session # NoSession, UpToDate, session.followed,
                    Load.multiple # session.multiple,
                    session.frames # buffer_frames(Load.multiple, rate)
             PROVE  asked
  BY DEF ChangeIsAsked
<1>1. watch = "waiting" /\ ~notified /\ armed = "armed"
  BY DEF IInv, UpToDate, WaitsArmed
<1>2. last = Load.multiple
  BY <1>1 DEF IInv, ChangeIsOnItsWay, Followed
<1>3. QED
  BY <1>1, <1>2 DEF IInv, ChangeIsOnItsWay, Followed

(* driver.rs:355, 259: a host is asked to build its session again whenever *)
(* the session's rate or size has become wrong, in every run.              *)
THEOREM MismatchesAreReported == Spec => []MismatchIsReported
<1>1. IInv => MismatchIsReported
  BY DEF IInv
<1>2. QED
  BY <1>1, IInvInit, IInvStep, PTL DEF Spec

(* driver.rs:79, 131: once the settings thread has caught up, the host of  *)
(* a session that it followed was asked to take a new size over.           *)
THEOREM ChangesAreAsked == Spec => []ChangeIsAsked
BY IInvInit, IInvStep, IInvImplies, PTL DEF Spec

-----------------------------------------------------------------------------
(* The sizes. A faster card never has smaller buffers, so the largest size *)
(* of all is the one of the fastest rate.                                  *)

LEMMA Least ==
  ASSUME NEW S \in SUBSET Exponents, S # {}
  PROVE  \E m \in S : \A k \in S : m <= k
<1> DEFINE Clear(j) == \A k \in S : j <= k
<1> SUFFICES ASSUME \A m \in S : ~Clear(m) PROVE FALSE
  OBVIOUS
<1>1. Clear(0)
  BY DEF Exponents
<1>2. ASSUME NEW j \in 0..20, Clear(j)
      PROVE  Clear(j + 1)
  <2>1. j \notin S
    BY <1>2
  <2> QED BY <1>2, <2>1 DEF Exponents
<1>3. ~Clear(21)
  <2>1. PICK k \in S : TRUE
    OBVIOUS
  <2> QED BY <2>1 DEF Exponents
<1> HIDE DEF Clear
<1> QED BY <1>1, <1>2, <1>3

LEMMA Powers ==
  ASSUME NEW j \in Exponents, NEW k \in Exponents
  PROVE  2 ^ j \in Nat \ {0} /\ (j <= k => 2 ^ j <= 2 ^ k)
<1> DEFINE P(n) == 2 ^ n
<1>1. /\ P(0) = 1 /\ P(1) = 2 /\ P(2) = 4 /\ P(3) = 8 /\ P(4) = 16 /\ P(5) = 32
      /\ P(6) = 64 /\ P(7) = 128 /\ P(8) = 256 /\ P(9) = 512 /\ P(10) = 1024
      /\ P(11) = 2048 /\ P(12) = 4096 /\ P(13) = 8192 /\ P(14) = 16384 /\ P(15) = 32768
      /\ P(16) = 65536 /\ P(17) = 131072 /\ P(18) = 262144 /\ P(19) = 524288
      /\ P(20) = 1048576
  OBVIOUS
<1>2. /\ j \in {0, 1, 2, 3, 4, 5, 6, 7, 8, 9, 10, 11, 12, 13, 14, 15, 16, 17, 18, 19, 20}
      /\ k \in {0, 1, 2, 3, 4, 5, 6, 7, 8, 9, 10, 11, 12, 13, 14, 15, 16, 17, 18, 19, 20}
  BY DEF Exponents
<1> HIDE DEF P
<1>3. P(j) \in Nat \ {0} /\ (j <= k => P(j) <= P(k))
  BY <1>1, <1>2, SMTT(60)
<1> QED BY <1>3 DEF P

LEMMA PowersGrow ==
  ASSUME NEW n \in Int, NEW m \in Int, n <= m, m <= 2 ^ 20
  PROVE  /\ NextPowerOfTwo(n) \in Nat \ {0} /\ NextPowerOfTwo(m) \in Nat \ {0}
         /\ NextPowerOfTwo(n) <= NextPowerOfTwo(m)
<1> DEFINE Enough(x) == {k \in Exponents : 2 ^ k >= x}
<1>1. 20 \in Exponents /\ \A k \in Exponents : 2 ^ k \in Int
  BY Powers DEF Exponents
<1>2. /\ Enough(n) \in SUBSET Exponents /\ Enough(m) \in SUBSET Exponents
      /\ Enough(m) # {} /\ Enough(m) \subseteq Enough(n)
  <2>1. 20 \in Enough(m)
    BY <1>1
  <2>2. ASSUME NEW k \in Enough(m)
        PROVE  k \in Enough(n)
    <3>1. k \in Exponents /\ 2 ^ k \in Int /\ 2 ^ k >= m
      BY <1>1
    <3>2. 2 ^ k >= n
      BY <3>1
    <3> QED BY <3>1, <3>2
  <2> QED BY <2>1, <2>2
<1> HIDE DEF Enough
<1>3. Min(Enough(n)) \in Enough(n) /\ \A k \in Enough(n) : Min(Enough(n)) <= k
  <2>1. \E i \in Enough(n) : \A k \in Enough(n) : i <= k
    BY <1>2, Least
  <2> QED BY <2>1 DEF Min
<1>4. Min(Enough(m)) \in Enough(m)
  <2>1. \E i \in Enough(m) : \A k \in Enough(m) : i <= k
    BY <1>2, Least
  <2> QED BY <2>1 DEF Min
<1>5. /\ Min(Enough(n)) \in Exponents /\ Min(Enough(m)) \in Exponents
      /\ Min(Enough(n)) <= Min(Enough(m))
  BY <1>2, <1>3, <1>4
<1> QED BY <1>5, Powers DEF NextPowerOfTwo, Enough

LEMMA TransfersGrow ==
  ASSUME NEW r \in Nat, NEW s \in Nat, r <= s
  PROVE  TransferFrames(r) \in Int /\ TransferFrames(s) \in Int
         /\ TransferFrames(r) <= TransferFrames(s)
<1> DEFINE a == r * TRANSFER_MS * 9
           b == s * TRANSFER_MS * 9
<1>1. a \in Nat /\ b \in Nat /\ a <= b
  <2>1. PICK d \in Nat : s = r + d
    <3>1. s - r \in Nat /\ s = r + (s - r)
      OBVIOUS
    <3> QED BY <3>1
  <2>2. TRANSFER_MS \in Nat /\ r * TRANSFER_MS \in Nat /\ d * TRANSFER_MS \in Nat
    BY SizesAssumption
  <2>3. s * TRANSFER_MS = r * TRANSFER_MS + d * TRANSFER_MS
    BY <2>1, <2>2
  <2> QED BY <2>2, <2>3
<1> HIDE DEF a, b
<1>2. a \div 8 \in Int /\ b \div 8 \in Int /\ a \div 8 <= b \div 8
  BY <1>1
<1> DEFINE c == a \div 8
           e == b \div 8
<1> HIDE DEF c, e
<1>3. /\ (c + 1000 - 1) \div 1000 \in Int /\ (e + 1000 - 1) \div 1000 \in Int
      /\ (c + 1000 - 1) \div 1000 <= (e + 1000 - 1) \div 1000
  BY <1>2 DEF c, e
<1> QED BY <1>3 DEF TransferFrames, DivCeil, a, b, c, e

LEMMA SizesGrow ==
  ASSUME NEW r \in RATES, NEW s \in RATES, r <= s
  PROVE  /\ min_buffer_frames(r) \in Nat \ {0} /\ min_buffer_frames(s) \in Nat \ {0}
         /\ min_buffer_frames(r) <= min_buffer_frames(s)
<1>1. r \in Nat /\ s \in Nat /\ TransferFrames(s) <= 2 ^ 20
  BY SizesAssumption, PeriodAssumption
<1> QED BY <1>1, TransfersGrow, PowersGrow DEF min_buffer_frames

LEMMA Products ==
  ASSUME NEW a \in Nat \ {0}, NEW b \in Nat, NEW m \in Nat \ {0}, NEW n \in Nat, a <= b, m <= n
  PROVE  a * m \in Nat /\ a * m >= a /\ a * m >= 1 /\ a * m <= b * n
<1>1. PICK d \in Nat, e \in Nat, f \in Nat : b = a + d /\ n = m + e /\ m = 1 + f
  <2>1. b - a \in Nat /\ n - m \in Nat /\ m - 1 \in Nat
    OBVIOUS
  <2> QED BY <2>1
<1>2. a * f \in Nat /\ a * e \in Nat /\ d * m \in Nat /\ d * e \in Nat /\ a * m \in Nat
  BY <1>1
<1>3. a * m = a + a * f
  BY <1>1
<1>4. b * n = a * m + a * e + d * m + d * e
  BY <1>1
<1> QED BY <1>2, <1>3, <1>4

LEMMA SizesAreBetween ==
  ASSUME NEW r \in RATES, NEW m \in BUFFER_MULTIPLES
  PROVE  /\ buffer_frames(m, r) \in Nat /\ min_buffer_frames(r) \in Nat
         /\ buffer_frames(m, r) >= min_buffer_frames(r) /\ buffer_frames(m, r) >= 1
         /\ buffer_frames(m, r) <= max_buffer_frames(Max(RATES))
         /\ max_buffer_frames(Max(RATES)) \in Nat
<1>1. Max(RATES) \in RATES /\ r <= Max(RATES)
  BY SizesAssumption DEF Max
<1>2. Max(BUFFER_MULTIPLES) \in BUFFER_MULTIPLES /\ m <= Max(BUFFER_MULTIPLES)
  BY SizesAssumption DEF Max
<1>3. /\ min_buffer_frames(r) \in Nat \ {0} /\ min_buffer_frames(Max(RATES)) \in Nat \ {0}
      /\ min_buffer_frames(r) <= min_buffer_frames(Max(RATES))
  BY <1>1, SizesGrow
<1>4. m \in Nat \ {0} /\ Max(BUFFER_MULTIPLES) \in Nat \ {0}
  BY <1>2, SizesAssumption
<1>5. min_buffer_frames(Max(RATES)) * Max(BUFFER_MULTIPLES) \in Nat
  BY <1>3, <1>4
<1> QED BY <1>2, <1>3, <1>4, <1>5, Products DEF buffer_frames, max_buffer_frames

LEMMA SizesAlwaysFit == TypeOK => SizesFit
<1> SUFFICES ASSUME TypeOK PROVE SizesFit
  OBVIOUS
<1>1. ASSUME listed # NoRate, NEW frames \in Sizes(listed)
      PROVE  Accepts(frames)
  <2>1. listed \in RATES
    BY <1>1 DEF TypeOK
  <2>2. PICK m \in BUFFER_MULTIPLES : frames = buffer_frames(m, listed)
    BY DEF Sizes
  <2> QED BY <1>1, <2>1, <2>2, SizesAreBetween DEF Accepts
<1>2. ASSUME session # NoSession
      PROVE  session.frames \in 1..MAX_PERIOD_FRAMES
  <2>1. session.frames \in Frames
    BY <1>2 DEF TypeOK
  <2>2. PICK m \in UsedMultiples, r \in UsedRates : session.frames = buffer_frames(m, r)
    BY <2>1 DEF Frames
  <2>3. m \in BUFFER_MULTIPLES /\ r \in RATES /\ MAX_PERIOD_FRAMES \in Nat
    BY SizesAssumption
  <2> QED BY <2>2, <2>3, SizesAreBetween, PeriodAssumption
<1> QED BY <1>1, <1>2 DEF SizesFit

(* A size once offered is not turned down for a change of rate, and no     *)
(* period of a session is one the card refuses, at any rates and multiples *)
(* whose largest size the card takes.                                      *)
THEOREM OfferedSizesFit == Spec => []SizesFit
<1>1. TypeOK /\ [Next]_vars => TypeOK'
  BY TypeStep
<1> QED BY <1>1, TypeInit, SizesAlwaysFit, PTL DEF Spec
=============================================================================
