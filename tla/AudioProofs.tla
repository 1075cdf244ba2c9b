----------------------------- MODULE AudioProofs ----------------------------
(* Proofs about Audio, for any streams, slots, files, requests and rates.  *)
(* IInv is inductive; the properties follow from it.                       *)
EXTENDS Audio, FiniteSetTheorems, TLAPS

(* What the counts say about the sets they count.                          *)
LEMMA Counting ==
  ASSUME TypeOK
  PROVE  /\ IsFiniteSet(Existing) /\ IsFiniteSet(Prepared)
         /\ Cardinality(Existing) \in Nat /\ Cardinality(Prepared) \in Nat
         /\ Existing = {} <=> Cardinality(Existing) = 0
         /\ Prepared = {} <=> Cardinality(Prepared) = 0
         /\ Cardinality(Prepared) <= Cardinality(Existing)
         /\ \A s \in Existing \ Prepared :
              Cardinality(Prepared) <= Cardinality(Existing) - 1
<1>1. IsFiniteSet(Existing) /\ IsFiniteSet(Prepared)
  <2>1. Existing \in SUBSET Streams /\ Prepared \in SUBSET Streams
    BY DEF Existing, Prepared
  <2>2. QED
    BY <2>1, AudioAssumption, FS_Subset DEF AudioAssumption
<1>2. Prepared \in SUBSET Existing
  BY DEF Existing, Prepared
<1>3. Cardinality(Existing) \in Nat /\ Cardinality(Prepared) \in Nat
  BY <1>1, FS_CardinalityType
<1>4. /\ Existing = {} <=> Cardinality(Existing) = 0
      /\ Prepared = {} <=> Cardinality(Prepared) = 0
  BY <1>1, FS_EmptySet
<1>5. Cardinality(Prepared) <= Cardinality(Existing)
  BY <1>1, <1>2, FS_Subset
<1>6. ASSUME NEW s \in Existing \ Prepared
      PROVE  Cardinality(Prepared) <= Cardinality(Existing) - 1
  <2>1. Prepared # Existing
    OBVIOUS
  <2>2. Cardinality(Prepared) # Cardinality(Existing)
    BY <1>1, <1>2, <2>1, FS_Subset
  <2>3. QED
    BY <1>3, <1>5, <2>2
<1>7. QED
  BY <1>1, <1>3, <1>4, <1>5, <1>6

LEMMA TwoExist ==
  ASSUME TypeOK, NEW s \in Existing, NEW t \in Existing, s # t
  PROVE  Cardinality(Existing) >= 2
<1>1. IsFiniteSet(Existing) /\ Cardinality(Existing) \in Nat
  BY Counting
<1>2. /\ IsFiniteSet(Existing \ {s})
      /\ Cardinality(Existing \ {s}) = Cardinality(Existing) - 1
  BY <1>1, FS_RemoveElement
<1>3. Existing \ {s} # {}
  OBVIOUS
<1>4. Cardinality(Existing \ {s}) # 0
  BY <1>2, <1>3, FS_EmptySet
<1>5. Cardinality(Existing) # 1 /\ Cardinality(Existing) # 0
  <2>1. Cardinality(Existing) # 0
    BY <1>1, FS_EmptySet
  <2>2. QED
    BY <1>1, <1>2, <1>4, <2>1
<1>6. QED
  BY <1>1, <1>5

PreparedPlaces == {"prepared", "running", "releasing"}

(* The counts after the stream s went to another place.                    *)
CountsMove(s, place) ==
  /\ Cardinality(Existing') =
       Cardinality(Existing) - One(stream[s] # "none") + One(place # "none")
  /\ Cardinality(Prepared') =
       Cardinality(Prepared) - One(stream[s] \in PreparedPlaces)
         + One(place \in PreparedPlaces)

(* Moving one stream changes the counts by that stream.                    *)
LEMMA Moving ==
  ASSUME TypeOK, NEW s \in Streams, NEW place,
         stream' = [stream EXCEPT ![s] = place]
  PROVE  CountsMove(s, place)
<1> USE DEF TypeOK
<1>1. /\ place # "none" => Existing' = Existing \cup {s}
      /\ place = "none" => Existing' = Existing \ {s}
      /\ place \in PreparedPlaces => Prepared' = Prepared \cup {s}
      /\ place \notin PreparedPlaces => Prepared' = Prepared \ {s}
      /\ s \in Existing <=> stream[s] # "none"
      /\ s \in Prepared <=> stream[s] \in PreparedPlaces
  BY DEF Existing, Prepared, PreparedPlaces
<1>2. /\ Cardinality(Existing) \in Nat /\ Cardinality(Prepared) \in Nat
      /\ IsFiniteSet(Existing) /\ IsFiniteSet(Prepared)
  BY Counting
<1>3. /\ Cardinality(Existing \cup {s}) =
           IF s \in Existing THEN Cardinality(Existing) ELSE Cardinality(Existing) + 1
      /\ Cardinality(Existing \ {s}) =
           IF s \in Existing THEN Cardinality(Existing) - 1 ELSE Cardinality(Existing)
  BY <1>2, FS_AddElement, FS_RemoveElement
<1>4. /\ Cardinality(Prepared \cup {s}) =
           IF s \in Prepared THEN Cardinality(Prepared) ELSE Cardinality(Prepared) + 1
      /\ Cardinality(Prepared \ {s}) =
           IF s \in Prepared THEN Cardinality(Prepared) - 1 ELSE Cardinality(Prepared)
  BY <1>2, FS_AddElement, FS_RemoveElement
<1>5. Cardinality(Existing') =
        Cardinality(Existing) - One(stream[s] # "none") + One(place # "none")
  <2>1. CASE place # "none"
    <3>1. Cardinality(Existing') = Cardinality(Existing \cup {s})
      BY <1>1, <2>1
    <3>2. QED
      BY <1>1, <1>2, <1>3, <2>1, <3>1 DEF One
  <2>2. CASE place = "none"
    <3>1. Cardinality(Existing') = Cardinality(Existing \ {s})
      BY <1>1, <2>2
    <3>2. QED
      BY <1>1, <1>2, <1>3, <2>2, <3>1 DEF One
  <2>3. QED
    BY <2>1, <2>2
<1>6. Cardinality(Prepared') =
        Cardinality(Prepared) - One(stream[s] \in PreparedPlaces)
          + One(place \in PreparedPlaces)
  <2>1. CASE place \in PreparedPlaces
    <3>1. Cardinality(Prepared') = Cardinality(Prepared \cup {s})
      BY <1>1, <2>1
    <3>2. QED
      BY <1>1, <1>2, <1>4, <2>1, <3>1 DEF One
  <2>2. CASE place \notin PreparedPlaces
    <3>1. Cardinality(Prepared') = Cardinality(Prepared \ {s})
      BY <1>1, <2>2
    <3>2. QED
      BY <1>1, <1>2, <1>4, <2>2, <3>1 DEF One
  <2>3. QED
    BY <2>1, <2>2
<1>7. QED
  BY <1>5, <1>6 DEF CountsMove

(* Streams that stay where they are count as before.                       *)
LEMMA Staying ==
  ASSUME stream' = stream
  PROVE  Existing' = Existing /\ Prepared' = Prepared
  BY DEF Existing, Prepared

-----------------------------------------------------------------------------
(* claim_rate sets a rate that was not set; the count includes the stream. *)
LEMMA CreateStreamKeeps ==
  ASSUME IInv, NEW s \in Streams, NEW r \in Rates, CreateStream(s, r)
  PROVE  IInv'
<1> USE AudioAssumption DEF AudioAssumption, IInv, CreateStream, claim_rate,
    shared, hardware, job, history, One
<1>1. CountsMove(s, "claimed")
  <2>1. TypeOK
    OBVIOUS
  <2>2. stream' = [stream EXCEPT ![s] = "claimed"]
    OBVIOUS
  <2>3. QED
    BY <2>1, <2>2, Moving
<1>2. TypeOK'
  BY DEF TypeOK
<1>3. StreamsCounted' /\ PreparedCounted'
  BY <1>1, Counting DEF StreamsCounted, PreparedCounted, TypeOK, CountsMove, PreparedPlaces
<1>4. JobIsSafe'
  BY <1>1 DEF JobIsSafe, TypeOK
<1>5. EngineIsUsed' /\ EngineStays' /\ FreshIsUnused'
  BY DEF EngineIsUsed, EngineStays, FreshIsUnused, TypeOK
<1>6. OneRate' /\ RateIsCounted' /\ UsersHaveRates'
  BY DEF OneRate, RateIsCounted, UsersHaveRates, TypeOK
<1>7. NoDanglingStream'
  BY DEF NoDanglingStream, TypeOK
<1>8. QED
  BY <1>2, <1>3, <1>4, <1>5, <1>6, <1>7

(* A stream that was created changes nothing but its own place.            *)
LEMMA StreamCreatedKeeps ==
  ASSUME IInv, NEW s \in Streams, StreamCreated(s)
  PROVE  IInv'
<1> USE AudioAssumption DEF AudioAssumption, IInv, StreamCreated, shared,
    hardware, job, history, One
<1>1. CountsMove(s, "idle")
  <2>1. TypeOK
    OBVIOUS
  <2>2. stream' = [stream EXCEPT ![s] = "idle"]
    OBVIOUS
  <2>3. QED
    BY <2>1, <2>2, Moving
<1>2. TypeOK'
  BY DEF TypeOK
<1>3. StreamsCounted' /\ PreparedCounted'
  BY <1>1, Counting DEF StreamsCounted, PreparedCounted, TypeOK, CountsMove, PreparedPlaces
<1>4. JobIsSafe'
  BY <1>1 DEF JobIsSafe, TypeOK
<1>5. EngineIsUsed' /\ EngineStays' /\ FreshIsUnused'
  BY DEF EngineIsUsed, EngineStays, FreshIsUnused, TypeOK
<1>6. OneRate' /\ RateIsCounted' /\ UsersHaveRates'
  BY DEF OneRate, RateIsCounted, UsersHaveRates, TypeOK
<1>7. NoDanglingStream'
  BY DEF NoDanglingStream, TypeOK
<1>8. QED
  BY <1>2, <1>3, <1>4, <1>5, <1>6, <1>7

(* The rate goes with the last user; while the engine runs there is another. *)
LEMMA DestroyStreamKeeps ==
  ASSUME IInv, NEW s \in Streams, DestroyStream(s)
  PROVE  IInv'
<1> USE AudioAssumption DEF AudioAssumption, IInv, DestroyStream, release_rate,
    shared, hardware, job, history, One
<1>1. CountsMove(s, "none")
  <2>1. TypeOK
    OBVIOUS
  <2>2. stream' = [stream EXCEPT ![s] = "none"]
    OBVIOUS
  <2>3. QED
    BY <2>1, <2>2, Moving
<1>2. TypeOK'
  BY Counting DEF TypeOK, StreamsCounted, Existing
<1>3. StreamsCounted' /\ PreparedCounted'
  <2>1. /\ Cardinality(Existing') = Cardinality(Existing) - 1
        /\ Cardinality(Prepared') = Cardinality(Prepared)
    BY <1>1, Counting DEF CountsMove, PreparedPlaces, TypeOK
  <2>2. QED
    BY <2>1, Counting DEF StreamsCounted, PreparedCounted, TypeOK
<1>4. JobIsSafe'
  <2>1. s \in Existing \ Prepared
    BY DEF Existing, Prepared
  <2>2. control = "prepare" => holder \in Existing /\ holder # s
    BY DEF JobIsSafe, Existing
  <2>3. control \in {"prepare", "start"} => streams >= 2
    <3>1. CASE control = "prepare"
      BY <2>1, <2>2, <3>1, TwoExist, Counting DEF StreamsCounted, TypeOK
    <3>2. CASE control = "start"
      BY <2>1, <3>2, Counting DEF StreamsCounted, TypeOK
    <3>3. QED
      BY <3>1, <3>2
  <2>4. control \in {"prepare", "start"} => rate' = rate
    BY <2>3 DEF TypeOK
  <2>5. QED
    BY <2>4 DEF JobIsSafe, TypeOK
<1>5. EngineIsUsed' /\ EngineStays' /\ FreshIsUnused'
  BY DEF EngineIsUsed, EngineStays, FreshIsUnused, TypeOK
<1>6. OneRate' /\ RateIsCounted' /\ UsersHaveRates'
  <2>1. s \in Existing \ Prepared
    BY DEF Existing, Prepared
  <2>2. prepared > 0 \/ asio # NoFile => streams >= 2
    BY <2>1, Counting DEF StreamsCounted, PreparedCounted, TypeOK
  <2>3. engine # NoRate \/ asio # NoFile => rate' = rate
    BY <2>2 DEF EngineIsUsed, TypeOK
  <2>4. OneRate' /\ UsersHaveRates'
    BY <2>3 DEF OneRate, UsersHaveRates, TypeOK
  <2>5. streams >= 1
    BY <2>1, Counting DEF StreamsCounted, TypeOK
  <2>6. RateIsCounted'
    BY <2>5 DEF RateIsCounted, TypeOK
  <2>7. QED
    BY <2>4, <2>6
<1>7. NoDanglingStream'
  BY DEF NoDanglingStream, TypeOK
<1>8. QED
  BY <1>2, <1>3, <1>4, <1>5, <1>6, <1>7

(* An engine that runs is used; otherwise the lock is kept with a rate for it. *)
LEMMA PrepareKeeps ==
  ASSUME IInv, NEW s \in Streams, Prepare(s)
  PROVE  IInv'
<1> USE AudioAssumption DEF AudioAssumption, IInv, Prepare, shared, hardware,
    job, history, One
<1>1. CountsMove(s, IF engine # NoRate THEN "prepared" ELSE "preparing")
  <2>1. TypeOK
    OBVIOUS
  <2>2. stream' = [stream EXCEPT ![s] = IF engine # NoRate THEN "prepared" ELSE "preparing"]
    OBVIOUS
  <2>3. QED
    BY <2>1, <2>2, Moving
<1>2. TypeOK'
  BY DEF TypeOK
<1>3. StreamsCounted' /\ PreparedCounted'
  BY <1>1, Counting DEF StreamsCounted, PreparedCounted, TypeOK, CountsMove, PreparedPlaces
<1>4. JobIsSafe'
  BY <1>1, Counting DEF JobIsSafe, TypeOK, UsersHaveRates, StreamsCounted, Existing, RateIsCounted
<1>5. EngineIsUsed' /\ EngineStays' /\ FreshIsUnused'
  BY DEF EngineIsUsed, EngineStays, FreshIsUnused, TypeOK
<1>6. OneRate' /\ RateIsCounted' /\ UsersHaveRates'
  BY DEF OneRate, RateIsCounted, UsersHaveRates, TypeOK
<1>7. NoDanglingStream'
  BY DEF NoDanglingStream, TypeOK
<1>8. QED
  BY <1>2, <1>3, <1>4, <1>5, <1>6, <1>7

(* The engine runs at the rate it was started for.                         *)
LEMMA PrepareStartsKeeps ==
  ASSUME IInv, PrepareStarts
  PROVE  IInv'
<1> USE AudioAssumption DEF AudioAssumption, IInv, PrepareStarts, start_engine,
    NoJob, shared, hardware, job, history, One
<1>1. CountsMove(holder, "prepared")
  <2>1. TypeOK /\ holder \in Streams
    BY DEF JobIsSafe
  <2>2. stream' = [stream EXCEPT ![holder] = "prepared"]
    OBVIOUS
  <2>3. QED
    BY <2>1, <2>2, Moving
<1>2. TypeOK'
  <2>1. streams' \in Nat /\ prepared' \in Nat
    BY DEF TypeOK
  <2>2. failed' \in BOOLEAN /\ rateLost' \in BOOLEAN
    BY Zenon DEF TypeOK
  <2>3. QED
    BY <2>1, <2>2 DEF TypeOK
<1>3. StreamsCounted' /\ PreparedCounted'
  BY <1>1, Counting DEF StreamsCounted, PreparedCounted, JobIsSafe, TypeOK, CountsMove,
     PreparedPlaces
<1>4. JobIsSafe'
  BY <1>1 DEF JobIsSafe, TypeOK
<1>5. EngineIsUsed' /\ EngineStays' /\ FreshIsUnused'
  BY DEF EngineIsUsed, EngineStays, FreshIsUnused, JobIsSafe, TypeOK
<1>6. OneRate' /\ RateIsCounted' /\ UsersHaveRates'
  BY DEF OneRate, RateIsCounted, UsersHaveRates, JobIsSafe, TypeOK
<1>7. NoDanglingStream'
  BY DEF NoDanglingStream, JobIsSafe, TypeOK
<1>8. QED
  BY <1>2, <1>3, <1>4, <1>5, <1>6, <1>7

(* A stream that failed to prepare is not counted.                         *)
LEMMA PrepareFailsKeeps ==
  ASSUME IInv, PrepareFails
  PROVE  IInv'
<1> USE AudioAssumption DEF AudioAssumption, IInv, PrepareFails,
    start_engine_fails, NoJob, shared, hardware, job, history, One
<1>1. CountsMove(holder, "idle")
  <2>1. TypeOK /\ holder \in Streams
    BY DEF JobIsSafe
  <2>2. stream' = [stream EXCEPT ![holder] = "idle"]
    OBVIOUS
  <2>3. QED
    BY <2>1, <2>2, Moving
<1>2. TypeOK'
  BY DEF TypeOK
<1>3. StreamsCounted' /\ PreparedCounted'
  BY <1>1, Counting DEF StreamsCounted, PreparedCounted, JobIsSafe, TypeOK, CountsMove,
     PreparedPlaces
<1>4. JobIsSafe'
  BY <1>1 DEF JobIsSafe, TypeOK
<1>5. EngineIsUsed' /\ EngineStays' /\ FreshIsUnused'
  BY DEF EngineIsUsed, EngineStays, FreshIsUnused, TypeOK
<1>6. OneRate' /\ RateIsCounted' /\ UsersHaveRates'
  BY DEF OneRate, RateIsCounted, UsersHaveRates, JobIsSafe, TypeOK
<1>7. NoDanglingStream'
  BY DEF NoDanglingStream, JobIsSafe, TypeOK
<1>8. QED
  BY <1>2, <1>3, <1>4, <1>5, <1>6, <1>7

(* A stream that runs takes the slot.                                      *)
LEMMA RunKeeps ==
  ASSUME IInv, NEW s \in Streams, Run(s)
  PROVE  IInv'
<1> USE AudioAssumption DEF AudioAssumption, IInv, Run, shared, hardware, job,
    history, One
<1>1. CountsMove(s, "running")
  <2>1. TypeOK
    OBVIOUS
  <2>2. stream' = [stream EXCEPT ![s] = "running"]
    OBVIOUS
  <2>3. QED
    BY <2>1, <2>2, Moving
<1>2. TypeOK'
  BY Counting DEF TypeOK, JobIsSafe, StreamsCounted, PreparedCounted
<1>3. StreamsCounted' /\ PreparedCounted'
  BY <1>1, Counting DEF StreamsCounted, PreparedCounted, TypeOK, CountsMove, PreparedPlaces
<1>4. JobIsSafe'
  BY <1>1 DEF JobIsSafe, TypeOK
<1>5. EngineIsUsed' /\ EngineStays' /\ FreshIsUnused'
  BY DEF EngineIsUsed, EngineStays, FreshIsUnused, TypeOK
<1>6. OneRate' /\ RateIsCounted' /\ UsersHaveRates'
  BY DEF OneRate, RateIsCounted, UsersHaveRates, TypeOK
<1>7. NoDanglingStream'
  BY DEF NoDanglingStream, TypeOK
<1>8. QED
  BY <1>2, <1>3, <1>4, <1>5, <1>6, <1>7

(* A stream that pauses leaves the slot if it has it.                      *)
LEMMA PauseKeeps ==
  ASSUME IInv, NEW s \in Streams, Pause(s)
  PROVE  IInv'
<1> USE AudioAssumption DEF AudioAssumption, IInv, Pause, pause, shared,
    hardware, job, history, One
<1>1. CountsMove(s, "prepared")
  <2>1. TypeOK
    OBVIOUS
  <2>2. stream' = [stream EXCEPT ![s] = "prepared"]
    OBVIOUS
  <2>3. QED
    BY <2>1, <2>2, Moving
<1>2. TypeOK'
  <2>1. running' \in [Slots -> Streams \cup {NoStream}]
    BY DEF TypeOK
  <2>2. QED
    BY <2>1 DEF TypeOK
<1>3. StreamsCounted' /\ PreparedCounted'
  BY <1>1, Counting DEF StreamsCounted, PreparedCounted, TypeOK, CountsMove, PreparedPlaces
<1>4. JobIsSafe'
  BY <1>1 DEF JobIsSafe, TypeOK
<1>5. EngineIsUsed' /\ EngineStays' /\ FreshIsUnused'
  BY DEF EngineIsUsed, EngineStays, FreshIsUnused, TypeOK
<1>6. OneRate' /\ RateIsCounted' /\ UsersHaveRates'
  BY DEF OneRate, RateIsCounted, UsersHaveRates, TypeOK
<1>7. NoDanglingStream'
  BY DEF NoDanglingStream, TypeOK
<1>8. QED
  BY <1>2, <1>3, <1>4, <1>5, <1>6, <1>7

(* A stream that is released has left the slot.                            *)
LEMMA ReleaseKeeps ==
  ASSUME IInv, NEW s \in Streams, Release(s)
  PROVE  IInv'
<1> USE AudioAssumption DEF AudioAssumption, IInv, Release, pause, shared,
    hardware, job, history, One
<1>1. CountsMove(s, "releasing")
  <2>1. TypeOK
    OBVIOUS
  <2>2. stream' = [stream EXCEPT ![s] = "releasing"]
    OBVIOUS
  <2>3. QED
    BY <2>1, <2>2, Moving
<1>2. TypeOK'
  <2>1. running' \in [Slots -> Streams \cup {NoStream}]
    BY DEF TypeOK
  <2>2. QED
    BY <2>1 DEF TypeOK
<1>3. StreamsCounted' /\ PreparedCounted'
  BY <1>1, Counting DEF StreamsCounted, PreparedCounted, TypeOK, CountsMove, PreparedPlaces
<1>4. JobIsSafe'
  BY <1>1 DEF JobIsSafe, TypeOK
<1>5. EngineIsUsed' /\ EngineStays' /\ FreshIsUnused'
  BY DEF EngineIsUsed, EngineStays, FreshIsUnused, TypeOK
<1>6. OneRate' /\ RateIsCounted' /\ UsersHaveRates'
  BY DEF OneRate, RateIsCounted, UsersHaveRates, TypeOK
<1>7. NoDanglingStream'
  BY DEF NoDanglingStream, TypeOK
<1>8. QED
  BY <1>2, <1>3, <1>4, <1>5, <1>6, <1>7

(* The last prepared stream stops the engine.                              *)
LEMMA ReleasedKeeps ==
  ASSUME IInv, NEW s \in Streams, Released(s)
  PROVE  IInv'
<1> USE AudioAssumption DEF AudioAssumption, IInv, Released, unprepare, shared,
    hardware, job, history, One
<1>1. CountsMove(s, "idle")
  <2>1. TypeOK
    OBVIOUS
  <2>2. stream' = [stream EXCEPT ![s] = "idle"]
    OBVIOUS
  <2>3. QED
    BY <2>1, <2>2, Moving
<1>2. TypeOK'
  <2>1. streams' \in Nat /\ prepared' \in Nat
    BY DEF TypeOK
  <2>2. failed' \in BOOLEAN /\ rateLost' \in BOOLEAN
    BY Zenon DEF TypeOK
  <2>3. QED
    BY <2>1, <2>2 DEF TypeOK
<1>3. StreamsCounted' /\ PreparedCounted'
  <2>1. Cardinality(Existing') = Cardinality(Existing)
    BY <1>1, Counting DEF CountsMove, TypeOK
  <2>2. Cardinality(Prepared') = Cardinality(Prepared) - 1
    BY <1>1, Counting DEF CountsMove, PreparedPlaces, TypeOK
  <2>3. Cardinality(Prepared) >= 1
    <3>1. s \in Prepared
      BY DEF Prepared
    <3>2. QED
      BY <3>1, Counting
  <2>4. StreamsCounted'
    BY <2>1 DEF StreamsCounted
  <2>5. PreparedCounted'
    BY <2>2, <2>3, Counting DEF PreparedCounted, TypeOK
  <2>6. QED
    BY <2>4, <2>5
<1>4. JobIsSafe'
  BY <1>1 DEF JobIsSafe, TypeOK
<1>5. EngineIsUsed' /\ EngineStays' /\ FreshIsUnused'
  BY DEF EngineIsUsed, EngineStays, FreshIsUnused, TypeOK
<1>6. OneRate' /\ RateIsCounted' /\ UsersHaveRates'
  BY DEF OneRate, RateIsCounted, UsersHaveRates, TypeOK
<1>7. NoDanglingStream'
  BY DEF NoDanglingStream, TypeOK
<1>8. QED
  BY <1>2, <1>3, <1>4, <1>5, <1>6, <1>7

(* The session is counted and sets the rate; the engine of another rate stops. *)
LEMMA StartAsioKeeps ==
  ASSUME IInv, NEW f \in Files, NEW r \in Rates, StartAsio(f, r)
  PROVE  IInv'
<1> USE AudioAssumption DEF AudioAssumption, IInv, StartAsio, shared, hardware,
    job, history, One
<1>1. Existing' = Existing /\ Prepared' = Prepared
  BY Staying
<1>2. TypeOK'
  BY DEF TypeOK
<1>3. StreamsCounted' /\ PreparedCounted'
  BY <1>1, Counting DEF StreamsCounted, PreparedCounted, TypeOK
<1>4. JobIsSafe'
  BY <1>1 DEF JobIsSafe, TypeOK
<1>5. EngineIsUsed' /\ EngineStays' /\ FreshIsUnused'
  BY DEF EngineIsUsed, EngineStays, FreshIsUnused, TypeOK
<1>6. OneRate' /\ RateIsCounted' /\ UsersHaveRates'
  BY DEF OneRate, RateIsCounted, UsersHaveRates, TypeOK
<1>7. NoDanglingStream'
  BY DEF NoDanglingStream, TypeOK
<1>8. QED
  BY <1>2, <1>3, <1>4, <1>5, <1>6, <1>7

(* The session is there, on an engine of its rate.                         *)
LEMMA AsioStartsKeeps ==
  ASSUME IInv, AsioStarts
  PROVE  IInv'
<1> USE AudioAssumption DEF AudioAssumption, IInv, AsioStarts, start_engine,
    NoJob, shared, hardware, job, history, One
<1>1. Existing' = Existing /\ Prepared' = Prepared
  BY Staying
<1>2. TypeOK'
  <2>1. streams' \in Nat /\ prepared' \in Nat
    BY DEF TypeOK
  <2>2. failed' \in BOOLEAN /\ rateLost' \in BOOLEAN
    BY Zenon DEF TypeOK
  <2>3. QED
    BY <2>1, <2>2 DEF TypeOK, JobIsSafe
<1>3. StreamsCounted' /\ PreparedCounted'
  BY <1>1, Counting DEF StreamsCounted, PreparedCounted, JobIsSafe, TypeOK
<1>4. JobIsSafe'
  BY <1>1 DEF JobIsSafe, TypeOK
<1>5. EngineIsUsed' /\ EngineStays' /\ FreshIsUnused'
  BY DEF EngineIsUsed, EngineStays, FreshIsUnused, JobIsSafe, TypeOK
<1>6. OneRate' /\ RateIsCounted' /\ UsersHaveRates'
  BY DEF OneRate, RateIsCounted, UsersHaveRates, JobIsSafe, TypeOK
<1>7. NoDanglingStream'
  BY DEF NoDanglingStream, TypeOK
<1>8. QED
  BY <1>2, <1>3, <1>4, <1>5, <1>6, <1>7

(* The session is not counted; the rate and the engine are restored.       *)
LEMMA AsioFailsKeeps ==
  ASSUME IInv, AsioFails
  PROVE  IInv'
<1> USE AudioAssumption DEF AudioAssumption, IInv, AsioFails, start_engine,
    start_engine_fails, NoJob, shared, hardware, job, history, One
<1>1. Existing' = Existing /\ Prepared' = Prepared
  BY Staying
<1>2. TypeOK'
  <2>1. streams' \in Nat
    BY Counting DEF StreamsCounted, TypeOK
  <2>2. failed' \in BOOLEAN
    BY Zenon
  <2>3. rateLost' \in BOOLEAN
    BY Zenon
  <2>4. engine' \in Rates \cup {NoRate} /\ rate' \in Rates \cup {NoRate}
    BY DEF TypeOK
  <2>5. QED
    BY <2>1, <2>2, <2>3, <2>4 DEF TypeOK
<1>3. StreamsCounted' /\ PreparedCounted'
  BY <1>1, Counting DEF StreamsCounted, PreparedCounted, JobIsSafe, TypeOK
<1>4. JobIsSafe'
  BY <1>1 DEF JobIsSafe, TypeOK
<1>5. EngineIsUsed' /\ EngineStays' /\ FreshIsUnused'
  BY DEF EngineIsUsed, EngineStays, FreshIsUnused, JobIsSafe, TypeOK
<1>6. OneRate' /\ RateIsCounted' /\ UsersHaveRates'
  <2>1. ~rateLost' => ~rateLost /\ (streams' > 0 => previous # NoRate)
    BY Zenon
  <2>2. engine' # NoRate => engine' = rate'
    OBVIOUS
  <2>3. asio' = NoFile
    BY DEF JobIsSafe
  <2>4. OneRate' /\ UsersHaveRates'
    BY <2>2, <2>3 DEF OneRate, UsersHaveRates
  <2>5. streams' \in Nat
    BY Counting DEF StreamsCounted, TypeOK
  <2>6. /\ streams' = 0 => rate' = NoRate
        /\ streams' # 0 => streams' > 0 /\ rate' = previous
    <3>1. streams' # 0 => streams' > 0
      BY Counting DEF StreamsCounted, TypeOK
    <3>2. rate' = IF streams' = 0 THEN NoRate ELSE previous
      OBVIOUS
    <3>3. QED
      BY <3>1, <3>2
  <2>7. RateIsCounted'
    BY <2>1, <2>6 DEF RateIsCounted
  <2>8. QED
    BY <2>4, <2>7
<1>7. NoDanglingStream'
  BY DEF NoDanglingStream, TypeOK
<1>8. QED
  BY <1>2, <1>3, <1>4, <1>5, <1>6, <1>7

(* A request that waits for the lock changes nothing.                      *)
LEMMA StopAsioKeeps ==
  ASSUME IInv, NEW f \in Files, NEW c \in Calls, StopAsio(f, c)
  PROVE  IInv'
<1> USE AudioAssumption DEF AudioAssumption, IInv, StopAsio, shared, hardware,
    job, history, One
<1>1. Existing' = Existing /\ Prepared' = Prepared
  BY Staying
<1>2. TypeOK'
  BY DEF TypeOK
<1>3. StreamsCounted' /\ PreparedCounted'
  BY <1>1 DEF StreamsCounted, PreparedCounted, TypeOK
<1>4. JobIsSafe'
  BY <1>1 DEF JobIsSafe, TypeOK
<1>5. EngineIsUsed' /\ EngineStays' /\ FreshIsUnused'
  BY DEF EngineIsUsed, EngineStays, FreshIsUnused, TypeOK
<1>6. OneRate' /\ RateIsCounted' /\ UsersHaveRates'
  BY DEF OneRate, RateIsCounted, UsersHaveRates, TypeOK
<1>7. NoDanglingStream'
  BY DEF NoDanglingStream, TypeOK
<1>8. QED
  BY <1>2, <1>3, <1>4, <1>5, <1>6, <1>7

(* The session is one user of the engine less.                             *)
LEMMA TakeAsioKeeps ==
  ASSUME IInv, NEW f \in Files, NEW c \in Calls, TakeAsio(f, c)
  PROVE  IInv'
<1> USE AudioAssumption DEF AudioAssumption, IInv, TakeAsio, unprepare, shared,
    hardware, job, history, One
<1>1. Existing' = Existing /\ Prepared' = Prepared
  BY Staying
<1>2. TypeOK'
  <2>1. streams' \in Nat /\ prepared' \in Nat
    BY DEF TypeOK
  <2>2. failed' \in BOOLEAN /\ rateLost' \in BOOLEAN
    BY Zenon DEF TypeOK
  <2>3. QED
    BY <2>1, <2>2 DEF TypeOK
<1>3. StreamsCounted' /\ PreparedCounted'
  BY <1>1, Counting DEF StreamsCounted, PreparedCounted, TypeOK
<1>4. JobIsSafe'
  BY <1>1 DEF JobIsSafe, TypeOK
<1>5. EngineIsUsed' /\ EngineStays' /\ FreshIsUnused'
  BY DEF EngineIsUsed, EngineStays, FreshIsUnused, TypeOK
<1>6. OneRate' /\ RateIsCounted' /\ UsersHaveRates'
  BY DEF OneRate, RateIsCounted, UsersHaveRates, TypeOK
<1>7. NoDanglingStream'
  BY DEF NoDanglingStream, TypeOK
<1>8. QED
  BY <1>2, <1>3, <1>4, <1>5, <1>6, <1>7

(* The session is one user of the rate less.                               *)
LEMMA AsioStoppedKeeps ==
  ASSUME IInv, AsioStopped
  PROVE  IInv'
<1> USE AudioAssumption DEF AudioAssumption, IInv, AsioStopped, release_rate,
    NoJob, shared, hardware, job, history, One
<1>1. Existing' = Existing /\ Prepared' = Prepared
  BY Staying
<1>2. TypeOK'
  <2>1. streams' \in Nat /\ prepared' \in Nat
    BY Counting DEF StreamsCounted, TypeOK
  <2>2. failed' \in BOOLEAN /\ rateLost' \in BOOLEAN
    BY Zenon DEF TypeOK
  <2>3. QED
    BY <2>1, <2>2 DEF TypeOK
<1>3. StreamsCounted' /\ PreparedCounted'
  BY <1>1, Counting DEF StreamsCounted, PreparedCounted, JobIsSafe, TypeOK
<1>4. JobIsSafe'
  BY <1>1 DEF JobIsSafe, TypeOK
<1>5. EngineIsUsed' /\ EngineStays' /\ FreshIsUnused'
  BY DEF EngineIsUsed, EngineStays, FreshIsUnused, TypeOK
<1>6. OneRate' /\ RateIsCounted' /\ UsersHaveRates'
  BY Counting DEF OneRate, RateIsCounted, UsersHaveRates, StreamsCounted, PreparedCounted,
     EngineIsUsed, JobIsSafe, TypeOK
<1>7. NoDanglingStream'
  BY DEF NoDanglingStream, TypeOK
<1>8. QED
  BY <1>2, <1>3, <1>4, <1>5, <1>6, <1>7

(* The power state alone changes.                                          *)
LEMMA PrepareHardwareKeeps ==
  ASSUME IInv, PrepareHardware
  PROVE  IInv'
<1> USE AudioAssumption DEF AudioAssumption, IInv, PrepareHardware, shared,
    hardware, job, history, One
<1>1. Existing' = Existing /\ Prepared' = Prepared
  BY Staying
<1>2. TypeOK'
  BY DEF TypeOK
<1>3. StreamsCounted' /\ PreparedCounted'
  BY <1>1 DEF StreamsCounted, PreparedCounted, TypeOK
<1>4. JobIsSafe'
  BY <1>1 DEF JobIsSafe, TypeOK
<1>5. EngineIsUsed' /\ EngineStays' /\ FreshIsUnused'
  BY DEF EngineIsUsed, EngineStays, FreshIsUnused, TypeOK
<1>6. OneRate' /\ RateIsCounted' /\ UsersHaveRates'
  BY DEF OneRate, RateIsCounted, UsersHaveRates, TypeOK
<1>7. NoDanglingStream'
  BY DEF NoDanglingStream, TypeOK
<1>8. QED
  BY <1>2, <1>3, <1>4, <1>5, <1>6, <1>7

(* Nobody waits for the engine yet.                                        *)
LEMMA FirstD0EntryKeeps ==
  ASSUME IInv, FirstD0Entry
  PROVE  IInv'
<1> USE AudioAssumption DEF AudioAssumption, IInv, FirstD0Entry, shared,
    hardware, job, history, One
<1>1. Existing' = Existing /\ Prepared' = Prepared
  BY Staying
<1>2. TypeOK'
  BY DEF TypeOK
<1>3. StreamsCounted' /\ PreparedCounted'
  BY <1>1 DEF StreamsCounted, PreparedCounted, TypeOK
<1>4. JobIsSafe'
  BY <1>1 DEF JobIsSafe, TypeOK
<1>5. EngineIsUsed' /\ EngineStays' /\ FreshIsUnused'
  BY DEF EngineIsUsed, EngineStays, FreshIsUnused, TypeOK
<1>6. OneRate' /\ RateIsCounted' /\ UsersHaveRates'
  BY DEF OneRate, RateIsCounted, UsersHaveRates, TypeOK
<1>7. NoDanglingStream'
  BY DEF NoDanglingStream, TypeOK
<1>8. QED
  BY <1>2, <1>3, <1>4, <1>5, <1>6, <1>7

(* The engine stops, its users stay.                                       *)
LEMMA D0ExitKeeps ==
  ASSUME IInv, D0Exit
  PROVE  IInv'
<1> USE AudioAssumption DEF AudioAssumption, IInv, D0Exit, Quiet, shared,
    hardware, job, history, One
<1>1. Existing' = Existing /\ Prepared' = Prepared
  BY Staying
<1>2. TypeOK'
  BY DEF TypeOK
<1>3. StreamsCounted' /\ PreparedCounted'
  BY <1>1 DEF StreamsCounted, PreparedCounted, TypeOK
<1>4. JobIsSafe'
  BY <1>1 DEF JobIsSafe, TypeOK
<1>5. EngineIsUsed' /\ EngineStays' /\ FreshIsUnused'
  BY DEF EngineIsUsed, EngineStays, FreshIsUnused, TypeOK
<1>6. OneRate' /\ RateIsCounted' /\ UsersHaveRates'
  BY DEF OneRate, RateIsCounted, UsersHaveRates, TypeOK
<1>7. NoDanglingStream'
  BY DEF NoDanglingStream, TypeOK
<1>8. QED
  BY <1>2, <1>3, <1>4, <1>5, <1>6, <1>7

(* The engine waits for resume.                                            *)
LEMMA D0EntryKeeps ==
  ASSUME IInv, D0Entry
  PROVE  IInv'
<1> USE AudioAssumption DEF AudioAssumption, IInv, D0Entry, shared, hardware,
    job, history, One
<1>1. Existing' = Existing /\ Prepared' = Prepared
  BY Staying
<1>2. TypeOK'
  BY DEF TypeOK
<1>3. StreamsCounted' /\ PreparedCounted'
  BY <1>1 DEF StreamsCounted, PreparedCounted, TypeOK
<1>4. JobIsSafe'
  BY <1>1 DEF JobIsSafe, TypeOK
<1>5. EngineIsUsed' /\ EngineStays' /\ FreshIsUnused'
  BY DEF EngineIsUsed, EngineStays, FreshIsUnused, TypeOK
<1>6. OneRate' /\ RateIsCounted' /\ UsersHaveRates'
  BY DEF OneRate, RateIsCounted, UsersHaveRates, TypeOK
<1>7. NoDanglingStream'
  BY DEF NoDanglingStream, TypeOK
<1>8. QED
  BY <1>2, <1>3, <1>4, <1>5, <1>6, <1>7

(* The engine runs again for its users.                                    *)
LEMMA ResumeKeeps ==
  ASSUME IInv, Resume
  PROVE  IInv'
<1> USE AudioAssumption DEF AudioAssumption, IInv, Resume, start_engine,
    start_engine_fails, shared, hardware, job, history, One
<1>1. Existing' = Existing /\ Prepared' = Prepared
  BY Staying
<1>2. TypeOK'
  BY DEF TypeOK
<1>3. StreamsCounted' /\ PreparedCounted'
  BY <1>1 DEF StreamsCounted, PreparedCounted, TypeOK
<1>4. JobIsSafe'
  BY <1>1 DEF JobIsSafe, TypeOK
<1>5. EngineIsUsed' /\ EngineStays' /\ FreshIsUnused'
  BY Counting DEF EngineIsUsed, EngineStays, FreshIsUnused, PreparedCounted, StreamsCounted,
     RateIsCounted, TypeOK
<1>6. OneRate' /\ RateIsCounted' /\ UsersHaveRates'
  BY DEF OneRate, RateIsCounted, UsersHaveRates, TypeOK
<1>7. NoDanglingStream'
  BY DEF NoDanglingStream, TypeOK
<1>8. QED
  BY <1>2, <1>3, <1>4, <1>5, <1>6, <1>7

-----------------------------------------------------------------------------

LEMMA InitInvariant == Init => IInv
<1> SUFFICES ASSUME Init PROVE IInv
  OBVIOUS
<1> USE AudioAssumption DEF AudioAssumption, Init
<1>1. TypeOK
  <2>1. failed \in BOOLEAN /\ rateLost \in BOOLEAN
    BY Zenon
  <2>2. QED
    BY <2>1 DEF TypeOK
<1>2. Existing = {} /\ Prepared = {}
  BY DEF Existing, Prepared
<1>3. StreamsCounted /\ PreparedCounted
  BY <1>2, FS_EmptySet DEF StreamsCounted, PreparedCounted, One
<1>4. JobIsSafe /\ EngineIsUsed /\ EngineStays
  BY DEF JobIsSafe, EngineIsUsed, EngineStays
<1>5. OneRate /\ NoDanglingStream /\ RateIsCounted /\ FreshIsUnused /\ UsersHaveRates
  BY DEF OneRate, NoDanglingStream, RateIsCounted, FreshIsUnused, UsersHaveRates
<1>6. QED
  BY <1>1, <1>3, <1>4, <1>5 DEF IInv

LEMMA StutterKeeps ==
  ASSUME IInv, UNCHANGED vars
  PROVE  IInv'
<1> USE DEF vars, IInv
<1>1. Existing' = Existing /\ Prepared' = Prepared
  BY Staying
<1>2. TypeOK' /\ JobIsSafe'
  BY DEF TypeOK, JobIsSafe
<1>3. StreamsCounted' /\ PreparedCounted'
  BY <1>1 DEF StreamsCounted, PreparedCounted, One
<1>4. /\ EngineIsUsed' /\ EngineStays' /\ OneRate' /\ NoDanglingStream'
      /\ RateIsCounted' /\ FreshIsUnused' /\ UsersHaveRates'
  BY DEF EngineIsUsed, EngineStays, OneRate, NoDanglingStream, RateIsCounted, FreshIsUnused,
         UsersHaveRates
<1>5. QED
  BY <1>2, <1>3, <1>4

LEMMA NextInvariant == IInv /\ [Next]_vars => IInv'
<1> SUFFICES ASSUME IInv, [Next]_vars PROVE IInv'
  OBVIOUS
<1>1. CASE \E s \in Streams, r \in Rates : CreateStream(s, r)
  BY <1>1, CreateStreamKeeps
<1>2. CASE \E s \in Streams : StreamCreated(s) \/ DestroyStream(s)
  BY <1>2, StreamCreatedKeeps, DestroyStreamKeeps
<1>3. CASE \E s \in Streams : Prepare(s) \/ Run(s) \/ Pause(s) \/ Release(s) \/ Released(s)
  BY <1>3, PrepareKeeps, RunKeeps, PauseKeeps, ReleaseKeeps, ReleasedKeeps
<1>4. CASE PrepareStarts \/ PrepareFails
  BY <1>4, PrepareStartsKeeps, PrepareFailsKeeps
<1>5. CASE \E f \in Files, r \in Rates : StartAsio(f, r)
  BY <1>5, StartAsioKeeps
<1>6. CASE AsioStarts \/ AsioFails \/ AsioStopped
  BY <1>6, AsioStartsKeeps, AsioFailsKeeps, AsioStoppedKeeps
<1>7. CASE \E f \in Files, c \in Calls : StopAsio(f, c) \/ TakeAsio(f, c)
  BY <1>7, StopAsioKeeps, TakeAsioKeeps
<1>8. CASE PrepareHardware \/ FirstD0Entry \/ D0Exit \/ D0Entry \/ Resume
  BY <1>8, PrepareHardwareKeeps, FirstD0EntryKeeps, D0ExitKeeps, D0EntryKeeps, ResumeKeeps
<1>9. CASE UNCHANGED vars
  BY <1>9, StutterKeeps
<1>10. QED
  BY <1>1, <1>2, <1>3, <1>4, <1>5, <1>6, <1>7, <1>8, <1>9 DEF Next

(* The inductive invariant holds in every reachable state of audio.rs and  *)
(* its callers.                                                            *)
THEOREM Invariance == Spec => []IInv
BY InitInvariant, NextInvariant, PTL DEF Spec

(* Every variable keeps its type; the counts never go below zero.          *)
THEOREM TypeCorrect == Spec => []TypeOK
<1>1. IInv => TypeOK
  BY DEF IInv
<1>2. QED
  BY <1>1, Invariance, PTL

(* shared.streams counts the streams and the session, shared.rate is set   *)
(* while there are any, hardware.prepared counts the users of the engine.  *)
THEOREM CountsAreRight == Spec => []UsesAreCounted
<1>1. IInv => StreamsCounted /\ PreparedCounted
  BY DEF IInv
<1>2. IInv => ClockSetWhileUsed
  <2> SUFFICES ASSUME IInv PROVE ClockSetWhileUsed
    OBVIOUS
  <2>1. streams = 0 <=> Existing = {} /\ asio = NoFile /\ control \notin {"start", "stop"}
    BY Counting DEF IInv, StreamsCounted, TypeOK, One
  <2>2. QED
    BY <2>1 DEF IInv, RateIsCounted, ClockSetWhileUsed, Clock!SetWhileUsed
<1>3. IInv => UsesAreCounted
  BY <1>1, <1>2 DEF UsesAreCounted
<1>4. QED
  BY <1>3, Invariance, PTL

(* The engine runs while somebody uses it and the device is in D0, and     *)
(* only then; it runs at the clock's rate.                                 *)
THEOREM EngineFollowsUse == Spec => []EngineMatchesUse
<1>1. IInv => EngineMatchesUse
  BY DEF IInv, EngineStays, EngineRuns, EngineMatchesUse
<1>2. QED
  BY <1>1, Invariance, PTL

(* The completion routines meet no stream that is released or destroyed.   *)
THEOREM RoutinesMeetRunningStreams == Spec => []NoDanglingStream
<1>1. IInv => NoDanglingStream
  BY DEF IInv
<1>2. QED
  BY <1>1, Invariance, PTL

(* A session ends by a request of the file that started it.                *)
THEOREM OwnersEndSessions == Spec => OnlyOwnerStops
<1> DEFINE Owned == asio # NoFile /\ asio' # asio => \E c \in Calls : <<asio, c>> \in pending
<1>1. ASSUME IInv, [Next]_vars PROVE Owned
  <2> SUFFICES ASSUME asio # NoFile, asio' # asio
               PROVE  \E c \in Calls : <<asio, c>> \in pending
    OBVIOUS
  <2>1. CASE \E f \in Files, c \in Calls : TakeAsio(f, c)
    BY <2>1 DEF TakeAsio
  <2>2. CASE AsioStarts
    BY <1>1, <2>2 DEF AsioStarts, IInv, JobIsSafe
  <2>3. asio' = asio \/ AsioStarts \/ \E f \in Files, c \in Calls : TakeAsio(f, c)
    BY <1>1 DEF Next, vars, CreateStream, StreamCreated, DestroyStream, Prepare, Run, Pause,
       Release, Released, PrepareStarts, PrepareFails, StartAsio, AsioFails, StopAsio,
       AsioStopped, PrepareHardware, FirstD0Entry, D0Exit, D0Entry, Resume
  <2>4. QED
    BY <2>1, <2>2, <2>3
<1>2. IInv /\ [Next]_vars => [Owned]_vars
  BY <1>1
<1>3. QED
  BY <1>2, Invariance, PTL DEF Spec, OnlyOwnerStops

(* A running stream leaves its slot by its own pause or release, or for a  *)
(* stream that replaces it.                                                *)
THEOREM PausesAreOwn == Spec => OnlyOwnPause
<1> DEFINE Own == \A slot \in Slots :
                    running[slot] # NoStream /\ running'[slot] = NoStream
                      => stream'[running[slot]] # "running"
<1>1. ASSUME IInv, [Next]_vars PROVE Own
  <2> SUFFICES ASSUME NEW slot \in Slots, running[slot] # NoStream, running'[slot] = NoStream
               PROVE  stream'[running[slot]] # "running"
    OBVIOUS
  <2> USE AudioAssumption DEF AudioAssumption
  <2>1. running \in [Slots -> Streams \cup {NoStream}]
    BY <1>1 DEF IInv, TypeOK
  <2>2. ASSUME NEW s \in Streams, Pause(s) \/ Release(s)
        PROVE  stream'[running[slot]] # "running"
    BY <1>1, <2>1, <2>2 DEF Pause, Release, pause, IInv, TypeOK
  <2>3. ASSUME NEW s \in Streams, Run(s) PROVE FALSE
    BY <2>1, <2>3 DEF Run
  <2>4. \/ running' = running
        \/ \E s \in Streams : Run(s) \/ Pause(s) \/ Release(s)
    BY <1>1 DEF Next, vars, CreateStream, StreamCreated, DestroyStream, Prepare, Released,
       PrepareStarts, PrepareFails, StartAsio, AsioStarts, AsioFails, StopAsio, TakeAsio,
       AsioStopped, PrepareHardware, FirstD0Entry, D0Exit, D0Entry, Resume
  <2>5. QED
    BY <2>2, <2>3, <2>4
<1>2. IInv /\ [Next]_vars => [Own]_vars
  BY <1>1
<1>3. QED
  BY <1>2, Invariance, PTL DEF Spec, OnlyOwnPause

-----------------------------------------------------------------------------
(* Audio implements DeviceClock but for the rate a failed start loses.     *)

ClockSession ==
  IF control = "start" THEN "starting"
  ELSE IF asio # NoFile \/ control = "stop" THEN "on" ELSE "none"

(* What ends a stream's running or a session is its own request.           *)
THEOREM EndsAreOwn == Spec => OnlyOwnerEnds
BY PausesAreOwn, OwnersEndSessions DEF OnlyOwnerEnds


(* The count is zero where DeviceClock asks for no user and no session.    *)
LEMMA LastUser ==
  ASSUME IInv
  PROVE  /\ Existing = {} <=> streams = One(ClockSession # "none")
         /\ ClockSession = "starting" <=> control = "start"
         /\ ClockSession = "on" <=> asio # NoFile \/ control = "stop"
  BY Counting DEF IInv, StreamsCounted, TypeOK, ClockSession, One, JobIsSafe

LEMMA StepFollowsClock ==
  ASSUME IInv, Next, ~rateLost'
  PROVE  [Clock!Next]_(Clock!vars)
<1> USE AudioAssumption, LastUser
    DEF AudioAssumption, ClockSession, shared, hardware, job, history, One, NoJob
<1>0. streams \in Nat /\ TypeOK
  BY DEF IInv, TypeOK
<1>1. CASE \E s \in Streams, r \in Rates : CreateStream(s, r)
  <2>1. PICK s \in Streams, r \in Rates : CreateStream(s, r)
    BY <1>1
  <2>2. s \notin Existing /\ Existing' = Existing \cup {s}
    BY <1>0, <2>1 DEF CreateStream, Existing, TypeOK
  <2>3. Clock!Come(s, r)
    BY <2>1, <2>2 DEF CreateStream, claim_rate, Clock!Come
  <2>4. QED
    BY <2>3 DEF Clock!Next
<1>2. CASE \E s \in Streams : DestroyStream(s)
  <2>1. PICK s \in Streams : DestroyStream(s)
    BY <1>2
  <2>2. s \in Existing /\ Existing' = Existing \ {s}
    BY <1>0, <2>1 DEF DestroyStream, Existing, TypeOK
  <2>3. IInv'
    BY <2>1, DestroyStreamKeeps
  <2>4. Existing' = {} /\ ClockSession = "none" <=> streams' = 0
    <3>1. CountsMove(s, "none")
      BY <1>0, <2>1, Moving DEF DestroyStream
    <3>2. Cardinality(Existing') = Cardinality(Existing) - 1
      BY <1>0, <3>1, <2>2, Counting DEF CountsMove, Existing
    <3>3. IsFiniteSet(Existing')
      BY <1>0, <2>2, Counting, FS_RemoveElement
    <3>4. Existing' = {} <=> Cardinality(Existing) = 1
      BY <1>0, <3>2, <3>3, Counting, FS_EmptySet
    <3>5. streams' = streams - 1
      BY <2>1 DEF DestroyStream, release_rate
    <3> DEFINE session == asio # NoFile \/ control \in {"start", "stop"}
    <3>6. ClockSession = "none" <=> ~session
      OBVIOUS
    <3>7. streams = Cardinality(Existing) + One(session)
      BY Zenon DEF IInv, StreamsCounted
    <3>8. Cardinality(Existing) \in Nat /\ Cardinality(Existing) # 0
      BY <1>0, <2>2, Counting
    <3> HIDE DEF session, ClockSession
    <3>9. QED
      BY <1>0, <3>4, <3>5, <3>6, <3>7, <3>8
  <2>5. Clock!Go(s)
    BY <2>1, <2>2, <2>4 DEF DestroyStream, release_rate, Clock!Go
  <2>6. QED
    BY <2>1, <2>5 DEF Clock!Next
<1>3. CASE \E f \in Files, r \in Rates : StartAsio(f, r)
  <2>1. PICK f \in Files, r \in Rates : StartAsio(f, r)
    BY <1>3
  <2>2. Existing' = Existing
    BY <2>1, Staying DEF StartAsio
  <2>3. Clock!Start(r)
    BY <2>1, <2>2 DEF StartAsio, Clock!Start
  <2>4. QED
    BY <2>3 DEF Clock!Next
<1>4. CASE AsioStarts
  <2>1. Existing' = Existing
    BY <1>4, Staying DEF AsioStarts
  <2>2. asio' # NoFile
    BY <1>4 DEF AsioStarts, IInv, JobIsSafe
  <2>3. Clock!Confirm
    BY <1>4, <2>1, <2>2 DEF AsioStarts, Clock!Confirm
  <2>4. QED
    BY <2>3 DEF Clock!Next
<1>5. CASE AsioFails
  <2>1. Existing' = Existing
    BY <1>5, Staying DEF AsioFails
  <2>2. asio' = NoFile
    BY <1>5 DEF AsioFails, IInv, JobIsSafe
  <2>3. IF Existing = {} THEN streams' = 0 ELSE streams' > 0
    BY <1>0, <1>5, Counting DEF AsioFails, IInv, StreamsCounted
  <2>4. streams' > 0 => previous # NoRate
    BY <1>5, Zenon DEF AsioFails
  <2>5. rate' \in IF Existing = {} THEN {NoRate} ELSE Rates
    <3>1. rate' = IF streams' = 0 THEN NoRate ELSE previous
      BY <1>5 DEF AsioFails
    <3>2. previous \in Rates \cup {NoRate}
      BY <1>0 DEF TypeOK
    <3>3. streams' > 0 => streams' # 0
      OBVIOUS
    <3>4. QED
      BY <2>3, <2>4, <3>1, <3>2, <3>3
  <2>6. Clock!Abort
    BY <1>5, <2>1, <2>2, <2>5 DEF AsioFails, Clock!Abort
  <2>7. QED
    BY <2>6 DEF Clock!Next
<1>6. CASE AsioStopped
  <2>1. Existing' = Existing
    BY <1>6, Staying DEF AsioStopped
  <2>2. asio = NoFile /\ asio' = NoFile
    BY <1>6 DEF AsioStopped, IInv, JobIsSafe
  <2>3. Existing = {} <=> streams' = 0
    BY <1>0, <1>6, <2>2, Counting DEF AsioStopped, release_rate, IInv, StreamsCounted
  <2>4. Clock!End
    BY <1>6, <2>1, <2>2, <2>3 DEF AsioStopped, release_rate, Clock!End
  <2>5. QED
    BY <2>4 DEF Clock!Next
<1>7. CASE \E f \in Files, c \in Calls : TakeAsio(f, c)
  <2>1. Existing' = Existing
    BY <1>7, Staying DEF TakeAsio
  <2>2. ClockSession' = ClockSession /\ rate' = rate
    BY <1>7 DEF TakeAsio
  <2>3. QED
    BY <2>1, <2>2 DEF Clock!vars
<1>8. CASE \/ \E s \in Streams : \/ StreamCreated(s) \/ Prepare(s) \/ Run(s) \/ Pause(s)
                                 \/ Release(s) \/ Released(s)
           \/ PrepareStarts \/ PrepareFails
  <2>1. Existing' = Existing
    BY <1>0, <1>8 DEF StreamCreated, Prepare, Run, Pause, Release, Released, PrepareStarts,
       PrepareFails, Existing, TypeOK, IInv, JobIsSafe
  <2>2. ClockSession' = ClockSession /\ rate' = rate
    BY <1>8 DEF StreamCreated, Prepare, Run, Pause, Release, Released, PrepareStarts,
       PrepareFails
  <2>3. QED
    BY <2>1, <2>2 DEF Clock!vars
<1>9. CASE \/ \E f \in Files, c \in Calls : StopAsio(f, c)
           \/ PrepareHardware \/ FirstD0Entry \/ D0Exit \/ D0Entry \/ Resume
  <2>1. stream' = stream /\ ClockSession' = ClockSession /\ rate' = rate
    BY <1>9 DEF StopAsio, PrepareHardware, FirstD0Entry, D0Exit, D0Entry, Resume
  <2>2. QED
    BY <2>1, Staying DEF Clock!vars
<1>10. QED
  BY <1>1, <1>2, <1>3, <1>4, <1>5, <1>6, <1>7, <1>8, <1>9 DEF Next

(* The clock is the session's rate, otherwise the first stream's, until    *)
(* every stream is gone (audio.rs:2-3): Audio implements DeviceClock until *)
(* a failed start loses a stream's rate.                                   *)
THEOREM ClockIsFollowed == Spec => FollowsClock
<1>1. Init => Clock!Init
  BY DEF Init, Clock!Init, Existing
<1>2. IInv /\ [Next]_vars => (rateLost' \/ [Clock!Next]_(Clock!vars))
  <2> SUFFICES ASSUME IInv, [Next]_vars, ~rateLost' PROVE [Clock!Next]_(Clock!vars)
    BY Zenon
  <2>1. CASE UNCHANGED vars
    <3>1. Existing' = Existing
      BY <2>1, Staying DEF vars
    <3>2. UNCHANGED (Clock!vars)
      BY <2>1, <3>1 DEF vars, Clock!vars
    <3>3. QED
      BY <3>2
  <2>2. CASE Next
    BY <2>2, StepFollowsClock
  <2>3. QED
    BY <2>1, <2>2
<1>3. QED
  BY <1>1, <1>2, Invariance, PTL DEF Spec, FollowsClock
=============================================================================
