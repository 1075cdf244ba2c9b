---------------------------- MODULE EngineProofs ----------------------------
(***************************************************************************)
(* Proofs about Engine, for any number of transfers and processors.        *)
(*                                                                         *)
(* The argument: every step that changes in_flight moves one transfer or   *)
(* one routine across the boundary that Outstanding counts, and the other  *)
(* way round. That needs each transfer to be where the step takes it from: *)
(* a transfer start still has to send is not with the stack, and a         *)
(* playback transfer a routine has claimed is not either. Drained then     *)
(* finds nothing outstanding, and only StartEngine begins anything new.    *)
(***************************************************************************)
EXTENDS Engine, FiniteSetTheorems, TLAPS

(* What Outstanding counts.                                                *)
Held == {c \in Captures : capture[c] # "unsent"}
Sending == {c \in Captures : capture[c] \in {"answering", "resending"}}
Given == {p \in Playbacks : playback[p] # "unsent"}

submits == Cardinality(submitting)
holds == Cardinality(Held)
sends == Cardinality(Sending)
gives == Cardinality(Given)

LEMMA OutstandingIs == Outstanding = submits + holds + sends + gives + leaving
  BY DEF Outstanding, submits, holds, sends, gives, Held, Sending, Given

-----------------------------------------------------------------------------
(* The inductive invariant                                                 *)

(* TypeOK, but that in_flight is a natural number: its value says so.      *)
Types ==
  /\ phase \in {"none", "submit", "run", "stop", "purge capture", "purge playback", "wait",
                "restart"}
  /\ toSubmit \subseteq Captures
  /\ submitting \subseteq Captures
  /\ running \in BOOLEAN
  /\ target \in [Pipes -> {"started", "purged"}]
  /\ capture \in [Captures -> {"unsent", "sent"} \cup Working]
  /\ next \in [Captures -> 1..PlaybackCount + 1]
  /\ mine \in [Captures -> 0..PlaybackCount]
  /\ playback \in [Playbacks -> {"unsent", "sent", "completed"}]
  /\ busy \in [Playbacks -> BOOLEAN]
  /\ leaving \in Nat

(* start sends one transfer at a time, and each once.                      *)
SentInTurn ==
  /\ submitting # {} => phase = "submit"
  /\ \A c, d \in submitting : c = d
  /\ submitting \cap toSubmit = {}
  /\ \A c \in toSubmit \cup submitting : phase = "submit" => capture[c] = "unsent"

(* A routine has a playback transfer from its claim to its answer.         *)
Claims ==
  \A c \in Captures :
    /\ capture[c] \in {"answer", "answering"} => mine[c] # 0
    /\ mine[c] # 0 => capture[c] \in {"process", "answer", "answering"}

(* PlaybackExclusive without cardinalities.                                *)
Exclusive ==
  /\ \A c, d \in Captures : mine[c] # 0 /\ mine[c] = mine[d] => c = d
  /\ \A c \in Captures : mine[c] # 0 => playback[mine[c]] = "unsent"
  /\ \A p \in Playbacks :
       busy[p] <=> (\E c \in Captures : mine[c] = p) \/ playback[p] # "unsent"

Inv == Types /\ SentInTurn /\ Claims /\ Exclusive

IInv == Inv /\ CountedUntilQuiet

-----------------------------------------------------------------------------
(* Counting                                                                *)

(* Two sets that agree on all but x.                                       *)
LEMMA CountOne ==
  ASSUME NEW S, IsFiniteSet(S), NEW A \in SUBSET S, NEW B \in SUBSET S, NEW x \in S,
         \A y \in S : y # x => (y \in A <=> y \in B)
  PROVE  /\ Cardinality(A) \in Nat /\ Cardinality(B) \in Nat
         /\ x \in A /\ x \notin B => Cardinality(B) = Cardinality(A) - 1
         /\ x \notin A /\ x \in B => Cardinality(B) = Cardinality(A) + 1
         /\ (x \in A <=> x \in B) => Cardinality(B) = Cardinality(A)
<1>1. IsFiniteSet(A) /\ IsFiniteSet(B)
  BY FS_Subset
<1>2. Cardinality(A) \in Nat /\ Cardinality(B) \in Nat
  BY <1>1, FS_CardinalityType
<1>3. ASSUME x \in A, x \notin B PROVE Cardinality(B) = Cardinality(A) - 1
  <2>1. B = A \ {x}
    BY <1>3
  <2> QED BY <1>1, <1>3, <2>1, FS_RemoveElement
<1>4. ASSUME x \notin A, x \in B PROVE Cardinality(B) = Cardinality(A) + 1
  <2>1. B = A \cup {x}
    BY <1>4
  <2> QED BY <1>1, <1>4, <2>1, FS_AddElement
<1>5. ASSUME x \in A <=> x \in B PROVE Cardinality(B) = Cardinality(A)
  <2>1. A = B
    BY <1>5
  <2> QED BY <2>1
<1> QED BY <1>2, <1>3, <1>4, <1>5

LEMMA Indices ==
  /\ IsFiniteSet(Captures) /\ IsFiniteSet(Playbacks)
  /\ PlaybackCount \in Nat
  /\ 1 \in 1..PlaybackCount + 1 /\ 0 \in 0..PlaybackCount
  /\ \A n \in 1..PlaybackCount + 1 :
       n <= PlaybackCount =>
         n + 1 \in 1..PlaybackCount + 1 /\ n \in 0..PlaybackCount /\ n \in Playbacks
  /\ \A n \in 0..PlaybackCount : n # 0 <=> n \in Playbacks
  /\ 0 \notin Playbacks
<1>1. IsFiniteSet(Captures) /\ PlaybackCount \in Nat
  BY EngineAssumption
<1>2. IsFiniteSet(Playbacks)
  BY <1>1, FS_Interval DEF Playbacks
<1> QED BY <1>1, <1>2 DEF Playbacks

LEMMA Numbers ==
  ASSUME Types
  PROVE  submits \in Nat /\ holds \in Nat /\ sends \in Nat /\ gives \in Nat /\ leaving \in Nat
<1>1. /\ submitting \in SUBSET Captures /\ Held \in SUBSET Captures
      /\ Sending \in SUBSET Captures /\ Given \in SUBSET Playbacks
  BY DEF Types, Held, Sending, Given
<1>2. /\ IsFiniteSet(submitting) /\ IsFiniteSet(Held)
      /\ IsFiniteSet(Sending) /\ IsFiniteSet(Given)
  BY <1>1, Indices, FS_Subset
<1> QED BY <1>2, FS_CardinalityType DEF submits, holds, sends, gives, Types

(* Nothing is outstanding only if everything rests.                        *)
LEMMA NothingOutstanding ==
  ASSUME Types, Outstanding = 0
  PROVE  /\ submitting = {} /\ leaving = 0
         /\ \A c \in Captures : capture[c] = "unsent"
         /\ \A p \in Playbacks : playback[p] = "unsent"
<1>1. submits = 0 /\ holds = 0 /\ gives = 0 /\ leaving = 0
  <2>1. submits \in Nat /\ holds \in Nat /\ sends \in Nat /\ gives \in Nat /\ leaving \in Nat
    BY Numbers
  <2>2. submits + holds + sends + gives + leaving = 0
    BY OutstandingIs
  <2> QED BY <2>1, <2>2
<1>2. /\ submitting \in SUBSET Captures /\ Held \in SUBSET Captures
      /\ Given \in SUBSET Playbacks
  BY DEF Types, Held, Given
<1>3. IsFiniteSet(submitting) /\ IsFiniteSet(Held) /\ IsFiniteSet(Given)
  BY <1>2, Indices, FS_Subset
<1>4. submitting = {} /\ Held = {} /\ Given = {}
  BY <1>1, <1>3, FS_EmptySet DEF submits, holds, gives
<1> QED BY <1>1, <1>4 DEF Held, Given

(* A transfer, and only that one, is taken to a state.                     *)
Moves(c, s) == capture' = [capture EXCEPT ![c] = s]
PlaybackMoves(p, s) == playback' = [playback EXCEPT ![p] = s]

LEMMA CaptureMoves ==
  ASSUME Types, NEW c \in Captures, NEW s, Moves(c, s)
  PROVE  /\ capture[c] # "unsent" /\ s # "unsent" => holds' = holds
         /\ capture[c] = "unsent" /\ s # "unsent" => holds' = holds + 1
         /\ capture[c] # "unsent" /\ s = "unsent" => holds' = holds - 1
         /\ (capture[c] \in {"answering", "resending"} <=> s \in {"answering", "resending"})
              => sends' = sends
         /\ capture[c] \notin {"answering", "resending"} /\ s \in {"answering", "resending"}
              => sends' = sends + 1
         /\ capture[c] \in {"answering", "resending"} /\ s \notin {"answering", "resending"}
              => sends' = sends - 1
<1>1. \A d \in Captures : capture'[d] = IF d = c THEN s ELSE capture[d]
  BY DEF Types, Moves
<1>2. /\ Held \in SUBSET Captures /\ Held' \in SUBSET Captures
      /\ \A d \in Captures : d # c => (d \in Held <=> d \in Held')
      /\ c \in Held <=> capture[c] # "unsent"
      /\ c \in Held' <=> s # "unsent"
  BY <1>1 DEF Held
<1>3. /\ Sending \in SUBSET Captures /\ Sending' \in SUBSET Captures
      /\ \A d \in Captures : d # c => (d \in Sending <=> d \in Sending')
      /\ c \in Sending <=> capture[c] \in {"answering", "resending"}
      /\ c \in Sending' <=> s \in {"answering", "resending"}
  BY <1>1 DEF Sending
<1>4. /\ (c \in Held <=> c \in Held') => holds' = holds
      /\ c \notin Held /\ c \in Held' => holds' = holds + 1
      /\ c \in Held /\ c \notin Held' => holds' = holds - 1
  BY <1>2, Indices, CountOne DEF holds
<1>5. /\ (c \in Sending <=> c \in Sending') => sends' = sends
      /\ c \notin Sending /\ c \in Sending' => sends' = sends + 1
      /\ c \in Sending /\ c \notin Sending' => sends' = sends - 1
  BY <1>3, Indices, CountOne DEF sends
<1> QED BY <1>2, <1>3, <1>4, <1>5

LEMMA PlaybackMove ==
  ASSUME Types, NEW p \in Playbacks, NEW s, PlaybackMoves(p, s)
  PROVE  /\ playback[p] # "unsent" /\ s # "unsent" => gives' = gives
         /\ playback[p] = "unsent" /\ s # "unsent" => gives' = gives + 1
         /\ playback[p] # "unsent" /\ s = "unsent" => gives' = gives - 1
<1>1. \A q \in Playbacks : playback'[q] = IF q = p THEN s ELSE playback[q]
  BY DEF Types, PlaybackMoves
<1>2. /\ Given \in SUBSET Playbacks /\ Given' \in SUBSET Playbacks
      /\ \A q \in Playbacks : q # p => (q \in Given <=> q \in Given')
      /\ p \in Given <=> playback[p] # "unsent"
      /\ p \in Given' <=> s # "unsent"
  BY <1>1 DEF Given
<1>3. /\ (p \in Given <=> p \in Given') => gives' = gives
      /\ p \notin Given /\ p \in Given' => gives' = gives + 1
      /\ p \in Given /\ p \notin Given' => gives' = gives - 1
  BY <1>2, Indices, CountOne DEF gives
<1> QED BY <1>2, <1>3

-----------------------------------------------------------------------------
(* Steps                                                                   *)

(* Steps of start and stop, and of the routines, in their types.           *)
LEMMA TypesStep ==
  ASSUME Types, Next
  PROVE  Types'
<1> USE DEF control, routines, playbacks
<1>0. leaving \in Nat
  BY DEF Types
<1>1. CASE StartEngine \/ StopEngine \/ ClearRunning \/ CapturePurged \/ PlaybackPurged \/ Drained
  BY <1>1 DEF Types, StartEngine, StopEngine, ClearRunning, CapturePurged, PlaybackPurged, Drained,
              Pipes
<1>2. CASE FreeEngine
  BY <1>2, Indices DEF Types, FreeEngine
<1>3. ASSUME NEW c \in Captures, Submit(c) \/ SubmitSent(c) \/ SubmitFails(c)
      PROVE  Types'
  BY <1>3 DEF Types, Submit, SubmitSent, SubmitFails
<1>4. ASSUME NEW c \in Captures, CaptureCompletes(c) \/ Routine(c)
      PROVE  Types'
  <2> USE DEF Routine, CaptureCompletes, CheckRunning, TryClaim, Process, CountAnswer, SendAnswer,
              AnswerFails, CountCapture, SendCapture, CaptureFails
  <2>1. UNCHANGED control
    BY <1>4
  <2>2. capture' \in [Captures -> {"unsent", "sent"} \cup Working]
    BY <1>4 DEF Working, Types
  <2>3. next' \in [Captures -> 1..PlaybackCount + 1]
    <3>1. next[c] \in 1..PlaybackCount + 1 /\ next \in [Captures -> 1..PlaybackCount + 1]
      BY DEF Types
    <3>2. PICK n \in 1..PlaybackCount + 1 : next' = next \/ next' = [next EXCEPT ![c] = n]
      BY <1>4, <3>1, Indices
    <3> QED BY <3>1, <3>2
  <2>4. mine' \in [Captures -> 0..PlaybackCount]
    BY <1>4, Indices DEF Types
  <2>5. playback' \in [Playbacks -> {"unsent", "sent", "completed"}]
    BY <1>4 DEF Types
  <2>6. busy' \in [Playbacks -> BOOLEAN]
    BY <1>4 DEF Types
  <2>7. leaving' \in {leaving, leaving + 1}
    BY <1>4
  <2>8. leaving' \in Nat
    BY <1>0, <2>7
  <2> HIDE DEF Routine, CaptureCompletes
  <2> QED BY <2>1, <2>2, <2>3, <2>4, <2>5, <2>6, <2>8 DEF Types
<1>5. ASSUME NEW p \in Playbacks, PlaybackCompletes(p) \/ FreePlayback(p)
      PROVE  Types'
  <2>1. UNCHANGED <<control, routines>>
    BY <1>5 DEF PlaybackCompletes, FreePlayback
  <2>2. /\ playback' \in [Playbacks -> {"unsent", "sent", "completed"}]
        /\ busy' \in [Playbacks -> BOOLEAN]
    BY <1>5 DEF PlaybackCompletes, FreePlayback, Types
  <2>3. leaving' \in {leaving, leaving + 1}
    BY <1>5 DEF PlaybackCompletes, FreePlayback
  <2>4. leaving' \in Nat
    BY <1>0, <2>3
  <2> QED BY <2>1, <2>2, <2>4 DEF Types
<1>6. CASE Leave
  <2>1. leaving' \in Nat
    BY <1>0, <1>6 DEF Leave
  <2> QED BY <1>6, <2>1 DEF Leave, Types
<1> QED BY <1>1, <1>2, <1>3, <1>4, <1>5, <1>6 DEF Next, Control

(* Only start takes capture transfers to the stack that were unsent.       *)
LEMMA TurnStep ==
  ASSUME IInv, Next
  PROVE  SentInTurn'
<1> USE DEF IInv, Inv, Types, SentInTurn, control, routines, playbacks
<1>1. CASE StartEngine
  <2>1. submitting = {} /\ \A c \in Captures : capture[c] = "unsent"
    BY <1>1, NothingOutstanding DEF CountedUntilQuiet, FreedWhenQuiet, StartEngine
  <2> QED BY <1>1, <2>1 DEF StartEngine
<1>2. CASE StopEngine \/ ClearRunning \/ CapturePurged \/ PlaybackPurged \/ Drained \/ FreeEngine
  BY <1>2 DEF StopEngine, ClearRunning, CapturePurged, PlaybackPurged, Drained, FreeEngine
<1>3. ASSUME NEW c \in Captures, Submit(c) \/ SubmitFails(c)
      PROVE  SentInTurn'
  BY <1>3 DEF Submit, SubmitFails
<1>4. ASSUME NEW c \in Captures, SubmitSent(c)
      PROVE  SentInTurn'
  BY <1>4 DEF SubmitSent
<1>5. ASSUME NEW c \in Captures, CaptureCompletes(c) \/ Routine(c)
      PROVE  SentInTurn'
  <2>1. /\ UNCHANGED control
        /\ capture[c] # "unsent"
        /\ \A d \in Captures : d # c => capture'[d] = capture[d]
    BY <1>5 DEF CaptureCompletes, Routine, CheckRunning, TryClaim, Process, CountAnswer,
                SendAnswer, AnswerFails, CountCapture, SendCapture, CaptureFails
  <2> QED BY <2>1
<1>6. ASSUME NEW p \in Playbacks, PlaybackCompletes(p) \/ FreePlayback(p)
      PROVE  SentInTurn'
  BY <1>6 DEF PlaybackCompletes, FreePlayback
<1>7. CASE Leave
  BY <1>7 DEF Leave
<1> QED BY <1>1, <1>2, <1>3, <1>4, <1>5, <1>6, <1>7 DEF Next, Control

(* A routine claims one playback transfer and lets go of it.               *)
LEMMA ClaimsStep ==
  ASSUME Inv, Next
  PROVE  Claims'
<1> USE DEF Inv, Types, Claims, control, routines, playbacks
<1>1. CASE \/ StartEngine \/ StopEngine \/ ClearRunning \/ CapturePurged \/ PlaybackPurged
           \/ Drained \/ Leave
  BY <1>1 DEF StartEngine, StopEngine, ClearRunning, CapturePurged, PlaybackPurged, Drained, Leave
<1>2. CASE FreeEngine
  BY <1>2 DEF FreeEngine
<1>3. ASSUME NEW c \in Captures, Submit(c) \/ SubmitFails(c)
      PROVE  Claims'
  BY <1>3 DEF Submit, SubmitFails
<1>4. ASSUME NEW c \in Captures, SubmitSent(c)
      PROVE  Claims'
  BY <1>4 DEF SubmitSent, SentInTurn
<1>5. ASSUME NEW c \in Captures, CaptureCompletes(c) \/ CheckRunning(c)
      PROVE  Claims'
  BY <1>5 DEF CaptureCompletes, CheckRunning
<1>6. ASSUME NEW c \in Captures, TryClaim(c)
      PROVE  Claims'
  BY <1>6 DEF TryClaim
<1>7. ASSUME NEW c \in Captures, Process(c)
      PROVE  Claims'
  BY <1>7 DEF Process
<1>8. ASSUME NEW c \in Captures, CountAnswer(c) \/ SendAnswer(c) \/ AnswerFails(c)
      PROVE  Claims'
  BY <1>8 DEF CountAnswer, SendAnswer, AnswerFails
<1>9. ASSUME NEW c \in Captures, CountCapture(c) \/ SendCapture(c) \/ CaptureFails(c)
      PROVE  Claims'
  BY <1>9 DEF CountCapture, SendCapture, CaptureFails
<1>10. ASSUME NEW p \in Playbacks, PlaybackCompletes(p) \/ FreePlayback(p)
       PROVE  Claims'
  BY <1>10 DEF PlaybackCompletes, FreePlayback
<1> QED BY <1>1, <1>2, <1>3, <1>4, <1>5, <1>6, <1>7, <1>8, <1>9, <1>10 DEF Next, Control, Routine

(* Claims and playback transfers, with their types.                        *)
Hands == Types /\ Claims /\ Exclusive

(* A routine lets go of its transfer: it is the stack's, or free.          *)
LEMMA LetsGo ==
  ASSUME Hands, NEW c \in Captures, mine[c] \in Playbacks, mine' = [mine EXCEPT ![c] = 0],
         \/ /\ playback' = [playback EXCEPT ![mine[c]] = "sent"] /\ busy' = busy
         \/ /\ \A p \in Playbacks : busy'[p] <=> busy[p] /\ p # mine[c]
            /\ playback' = playback
  PROVE  Exclusive'
<1> USE DEF Hands
<1>1. \A d \in Captures : mine'[d] = IF d = c THEN 0 ELSE mine[d]
  BY DEF Types
<1>2. \A d \in Captures : mine[d] \in 0..PlaybackCount
  BY DEF Types
<1>3. \A d \in Captures : mine'[d] # 0 => d # c /\ mine[d] # mine[c]
  BY <1>1, Indices DEF Exclusive
<1>4. /\ \A p \in Playbacks : p # mine[c] => playback'[p] = playback[p]
      /\ \A p \in Playbacks : p # mine[c] => (busy'[p] <=> busy[p])
      /\ busy'[mine[c]] <=> playback'[mine[c]] # "unsent"
  <2>1. mine[c] # 0 /\ DOMAIN playback = Playbacks
    BY Indices DEF Types
  <2>2. busy[mine[c]] /\ playback[mine[c]] = "unsent"
    BY <2>1 DEF Exclusive
  <2>3. CASE playback' = [playback EXCEPT ![mine[c]] = "sent"] /\ busy' = busy
    <3>1. \A p \in Playbacks :
            playback'[p] = IF p = mine[c] THEN "sent" ELSE playback[p]
      BY <2>1, <2>3
    <3>2. playback'[mine[c]] # "unsent"
      BY <3>1
    <3> QED BY <2>2, <2>3, <3>1, <3>2, Zenon
  <2>4. CASE /\ \A p \in Playbacks : busy'[p] <=> busy[p] /\ p # mine[c]
             /\ playback' = playback
    BY <2>2, <2>4, Zenon
  <2> QED BY <2>3, <2>4
<1>5. \A d, e \in Captures : mine'[d] # 0 /\ mine'[d] = mine'[e] => d = e
  BY <1>1 DEF Exclusive
<1>6. \A d \in Captures : mine'[d] # 0 => playback'[mine'[d]] = "unsent"
  BY <1>1, <1>2, <1>3, <1>4, Indices DEF Exclusive
<1>7. \A p \in Playbacks : (\E d \in Captures : mine'[d] = p) <=>
                            (p # mine[c] /\ \E d \in Captures : mine[d] = p)
  BY <1>1, <1>3, Indices
<1>8. \A p \in Playbacks :
        busy'[p] <=> (\E d \in Captures : mine'[d] = p) \/ playback'[p] # "unsent"
  BY <1>4, <1>7 DEF Exclusive
<1> QED BY <1>5, <1>6, <1>8 DEF Exclusive

(* A routine claims a transfer that is not busy.                           *)
LEMMA Claimed ==
  ASSUME Hands, NEW c \in Captures, mine[c] = 0, NEW n \in Playbacks, ~busy[n],
         mine' = [mine EXCEPT ![c] = n], busy' = [busy EXCEPT ![n] = TRUE], playback' = playback
  PROVE  Exclusive'
<1> USE DEF Hands
<1>1. playback[n] = "unsent" /\ \A d \in Captures : mine[d] # n
  BY DEF Exclusive
<1>2. \A d \in Captures : mine'[d] = IF d = c THEN n ELSE mine[d]
  BY DEF Types
<1>3. \A p \in Playbacks : busy'[p] <=> busy[p] \/ p = n
  BY DEF Types
<1>4. \A d, e \in Captures : mine'[d] # 0 /\ mine'[d] = mine'[e] => d = e
  BY <1>1, <1>2 DEF Exclusive
<1>5. \A d \in Captures : mine'[d] # 0 => playback'[mine'[d]] = "unsent"
  BY <1>1, <1>2 DEF Exclusive
<1>6. \A p \in Playbacks : (\E d \in Captures : mine'[d] = p) <=>
                            (p = n \/ \E d \in Captures : mine[d] = p)
  BY <1>2, Indices
<1>7. \A p \in Playbacks :
        busy'[p] <=> (\E d \in Captures : mine'[d] = p) \/ playback'[p] # "unsent"
  BY <1>1, <1>3, <1>6 DEF Exclusive
<1> QED BY <1>4, <1>5, <1>7 DEF Exclusive

(* The claim of a free transfer, and its way to the stack and back, keep   *)
(* it in one hand.                                                         *)
LEMMA ExclusiveStep ==
  ASSUME Inv, Next
  PROVE  Exclusive'
<1> USE DEF control, routines, playbacks
<1>0. Hands /\ mine \in [Captures -> 0..PlaybackCount]
  BY DEF Inv, Hands, Types
<1>1. CASE UNCHANGED <<mine, playback, busy>>
  BY <1>0, <1>1 DEF Hands, Exclusive
<1>2. CASE FreeEngine
  BY <1>2, Indices DEF FreeEngine, Exclusive
<1>3. ASSUME NEW c \in Captures, TryClaim(c), ~UNCHANGED <<mine, playback, busy>>
      PROVE  Exclusive'
  <2>1. /\ next[c] <= PlaybackCount /\ ~busy[next[c]] /\ playback' = playback
        /\ mine' = [mine EXCEPT ![c] = next[c]] /\ busy' = [busy EXCEPT ![next[c]] = TRUE]
    BY <1>3 DEF TryClaim
  <2>2. next[c] \in Playbacks
    BY <2>1, Indices DEF Inv, Types
  <2>3. mine[c] = 0
    BY <1>3 DEF TryClaim, Inv, Claims
  <2> QED BY <1>0, <2>1, <2>2, <2>3, Claimed
<1>4. ASSUME NEW c \in Captures, Process(c), ~UNCHANGED <<mine, playback, busy>>
      PROVE  Exclusive'
  <2>1. /\ busy' = [p \in Playbacks |-> busy[p] /\ p # mine[c]]
        /\ mine' = [mine EXCEPT ![c] = 0] /\ playback' = playback
    BY <1>4 DEF Process
  <2>2. \A p \in Playbacks : busy'[p] <=> busy[p] /\ p # mine[c]
    BY <2>1
  <2>3. CASE mine[c] # 0
    <3>1. mine[c] \in Playbacks
      BY <1>0, <2>3, Indices
    <3> QED BY <1>0, <2>1, <2>2, <3>1, LetsGo
  <2>4. CASE mine[c] = 0
    <3>1. mine' = mine /\ \A p \in Playbacks : busy'[p] <=> busy[p]
      BY <1>0, <2>1, <2>2, <2>4, Indices
    <3> QED BY <1>0, <2>1, <3>1 DEF Hands, Exclusive
  <2> QED BY <2>3, <2>4
<1>5. ASSUME NEW c \in Captures, SendAnswer(c) \/ AnswerFails(c)
      PROVE  Exclusive'
  <2>1. mine[c] # 0
    BY <1>5 DEF SendAnswer, AnswerFails, Inv, Claims
  <2>2. mine[c] \in Playbacks
    BY <1>0, <2>1, Indices
  <2>3. mine' = [mine EXCEPT ![c] = 0]
    BY <1>5 DEF SendAnswer, AnswerFails
  <2>4. CASE SendAnswer(c)
    BY <1>0, <2>2, <2>3, <2>4, LetsGo DEF SendAnswer
  <2>5. CASE AnswerFails(c)
    <3>1. playback' = playback /\ \A p \in Playbacks : busy'[p] <=> busy[p] /\ p # mine[c]
      BY <2>5 DEF AnswerFails, Inv, Types
    <3> QED BY <1>0, <2>2, <2>3, <3>1, LetsGo
  <2> QED BY <1>5, <2>4, <2>5
<1>6. ASSUME NEW p \in Playbacks, PlaybackCompletes(p) \/ FreePlayback(p)
      PROVE  Exclusive'
  <2>1. mine' = mine /\ playback[p] # "unsent"
    BY <1>6 DEF PlaybackCompletes, FreePlayback
  <2>2. \A c \in Captures : mine[c] # p
    BY <2>1, Indices DEF Inv, Exclusive
  <2>3. \A q \in Playbacks : q # p => playback'[q] = playback[q] /\ (busy'[q] <=> busy[q])
    BY <1>6 DEF PlaybackCompletes, FreePlayback, Inv, Types
  <2>4. busy'[p] <=> playback'[p] # "unsent"
    BY <1>6, <2>1 DEF PlaybackCompletes, FreePlayback, Inv, Types, Exclusive
  <2>5. \A c \in Captures : mine[c] # 0 => mine[c] \in Playbacks
    BY <1>0, Indices
  <2> QED BY <1>0, <2>1, <2>2, <2>3, <2>4, <2>5 DEF Hands, Exclusive
<1>7. ASSUME NEW c \in Captures,
             \/ Submit(c) \/ SubmitSent(c) \/ SubmitFails(c)
             \/ CaptureCompletes(c) \/ CheckRunning(c) \/ CountAnswer(c)
             \/ CountCapture(c) \/ SendCapture(c) \/ CaptureFails(c)
      PROVE  UNCHANGED <<mine, playback, busy>>
  BY <1>7 DEF Submit, SubmitSent, SubmitFails, CaptureCompletes, CheckRunning, CountAnswer,
              CountCapture, SendCapture, CaptureFails
<1>8. ASSUME \/ StartEngine \/ StopEngine \/ ClearRunning \/ CapturePurged \/ PlaybackPurged
             \/ Drained \/ Leave
      PROVE  UNCHANGED <<mine, playback, busy>>
  BY <1>8 DEF StartEngine, StopEngine, ClearRunning, CapturePurged, PlaybackPurged, Drained, Leave
<1> QED BY <1>1, <1>2, <1>3, <1>4, <1>5, <1>6, <1>7, <1>8 DEF Next, Control, Routine

-----------------------------------------------------------------------------
(* Counting the steps                                                      *)

(* in_flight moves with what it counts.                                    *)
Tally == in_flight = submits + holds + sends + gives + leaving

LEMMA Unmoved ==
  /\ UNCHANGED submitting => submits' = submits
  /\ UNCHANGED capture => holds' = holds /\ sends' = sends
  /\ UNCHANGED playback => gives' = gives
  BY DEF submits, holds, sends, gives, Held, Sending, Given

(* start takes a transfer in hand, or has none in hand any more.           *)
LEMMA InHand ==
  /\ submitting = {} => submits = 0
  /\ submitting' = {} => submits' = 0
  /\ \A c \in Captures : submitting = {c} => submits = 1
  /\ \A c \in Captures : submitting' = {c} => submits' = 1
  BY FS_EmptySet, FS_Singleton DEF submits

LEMMA ControlCounts ==
  ASSUME Inv, Tally, NEW c \in Captures, Submit(c) \/ SubmitSent(c) \/ SubmitFails(c)
  PROVE  Tally'
<1> USE DEF control, routines, playbacks
<1>0. /\ Types
      /\ submits \in Nat /\ holds \in Nat /\ sends \in Nat /\ gives \in Nat /\ leaving \in Nat
      /\ in_flight = submits + holds + sends + gives + leaving
  BY Numbers DEF Inv, Tally
<1>1. c \in submitting => submitting = {c}
  BY DEF Inv, SentInTurn
<1>2. CASE Submit(c)
  <2>1. submits = 0 /\ submits' = 1 /\ in_flight' = in_flight + 1
    BY <1>2, InHand DEF Submit
  <2>2. holds' = holds /\ sends' = sends /\ gives' = gives /\ leaving' = leaving
    BY <1>2, Unmoved DEF Submit
  <2> QED BY <1>0, <2>1, <2>2 DEF Tally
<1>3. CASE SubmitSent(c)
  <2>1. submits = 1 /\ submits' = 0 /\ in_flight' = in_flight
    BY <1>1, <1>3, InHand DEF SubmitSent
  <2>2. gives' = gives /\ leaving' = leaving
    BY <1>3, Unmoved DEF SubmitSent
  <2>3. capture[c] = "unsent" /\ Moves(c, "sent")
    BY <1>1, <1>3 DEF SubmitSent, Inv, SentInTurn, Moves
  <2>4. holds' = holds + 1 /\ sends' = sends
    BY <1>0, <2>3, CaptureMoves
  <2> QED BY <1>0, <2>1, <2>2, <2>4 DEF Tally
<1>4. CASE SubmitFails(c)
  <2>1. holds' = holds /\ sends' = sends /\ gives' = gives /\ leaving' = leaving
    BY <1>4, Unmoved DEF SubmitFails
  <2>2. CASE c \in submitting
    <3>1. submits = 1 /\ submits' = 0 /\ in_flight' = in_flight - 1
      BY <1>1, <1>4, <2>2, InHand DEF SubmitFails
    <3> QED BY <1>0, <2>1, <3>1 DEF Tally
  <2>3. CASE c \notin submitting
    <3>1. submits = 0 /\ submits' = 0 /\ in_flight' = in_flight
      BY <1>4, <2>3, InHand DEF SubmitFails
    <3> QED BY <1>0, <2>1, <3>1 DEF Tally
  <2> QED BY <2>2, <2>3
<1> QED BY <1>2, <1>3, <1>4

LEMMA CaptureCounts ==
  ASSUME Inv, Tally, NEW c \in Captures, CaptureCompletes(c) \/ Routine(c)
  PROVE  Tally'
<1> USE DEF control, routines, playbacks
<1>0. /\ Types
      /\ submits \in Nat /\ holds \in Nat /\ sends \in Nat /\ gives \in Nat /\ leaving \in Nat
      /\ in_flight = submits + holds + sends + gives + leaving
  BY Numbers DEF Inv, Tally
<1>1. submits' = submits
  BY Unmoved DEF CaptureCompletes, Routine, CheckRunning, TryClaim, Process, CountAnswer, SendAnswer,
                 AnswerFails, CountCapture, SendCapture, CaptureFails
(* The transfer completes, or its routine is at work without counting.     *)
<1>2. ASSUME capture[c] \in {"sent", "check", "claim", "process"},
             capture' = capture
               \/ \E s \in {"check", "claim", "process", "answer", "resend"} :
                    Moves(c, s),
             UNCHANGED <<in_flight, playback, leaving>>
      PROVE  Tally'
  <2>1. holds' = holds /\ sends' = sends
    <3>1. CASE capture' = capture
      BY <3>1, Unmoved
    <3>2. ASSUME NEW s \in {"check", "claim", "process", "answer", "resend"},
                 Moves(c, s)
          PROVE  holds' = holds /\ sends' = sends
      <4>1. holds' = holds /\ sends' = sends
        BY <1>0, <1>2, <3>2, CaptureMoves
      <4> QED BY <1>0, <4>1
    <3> QED BY <1>2, <3>1, <3>2
  <2>2. gives' = gives
    BY <1>2, Unmoved
  <2> QED BY <1>0, <1>1, <1>2, <2>1, <2>2 DEF Tally
(* A routine is left with its final decrement.                             *)
<1>3. ASSUME capture[c] \in {"sent", "check", "resend"},
             Moves(c, "unsent"),
             leaving' = leaving + 1, UNCHANGED <<in_flight, playback>>
      PROVE  Tally'
  <2>1. holds' = holds - 1 /\ sends' = sends
    BY <1>0, <1>3, CaptureMoves
  <2>2. gives' = gives
    BY <1>3, Unmoved
  <2> QED BY <1>0, <1>1, <1>3, <2>1, <2>2 DEF Tally
(* A request is counted before it is sent.                                 *)
<1>4. ASSUME CountAnswer(c) \/ CountCapture(c)
      PROVE  Tally'
  <2>1. PICK s \in {"answering", "resending"} : Moves(c, s)
    BY <1>4 DEF CountAnswer, CountCapture, Moves
  <2>2. /\ capture[c] \in {"answer", "resend"}
        /\ in_flight' = in_flight + 1 /\ leaving' = leaving /\ playback' = playback
    BY <1>4 DEF CountAnswer, CountCapture
  <2>3. holds' = holds /\ sends' = sends + 1
    BY <1>0, <2>1, <2>2, CaptureMoves
  <2>4. gives' = gives
    BY <2>2, Unmoved
  <2> QED BY <1>0, <1>1, <2>2, <2>3, <2>4 DEF Tally
<1>5. CASE SendAnswer(c)
  <2>1. capture[c] = "answering" /\ Moves(c, "resend")
    BY <1>5 DEF SendAnswer, Moves
  <2>2. PlaybackMoves(mine[c], "sent")
    BY <1>5 DEF SendAnswer, PlaybackMoves
  <2>3. mine[c] \in Playbacks /\ playback[mine[c]] = "unsent"
    BY <1>0, <2>1, Indices DEF Inv, Claims, Exclusive, Types
  <2>4. holds' = holds /\ sends' = sends - 1
    BY <1>0, <2>1, CaptureMoves
  <2>5. gives' = gives + 1
    BY <1>0, <2>2, <2>3, PlaybackMove
  <2>6. in_flight' = in_flight /\ leaving' = leaving
    BY <1>5 DEF SendAnswer
  <2> QED BY <1>0, <1>1, <2>4, <2>5, <2>6 DEF Tally
<1>6. CASE AnswerFails(c)
  <2>1. Moves(c, "resend") /\ capture[c] \in {"answer", "answering"}
    BY <1>6 DEF AnswerFails, Moves
  <2>2. holds' = holds
    BY <1>0, <2>1, CaptureMoves
  <2>3. gives' = gives /\ leaving' = leaving
    BY <1>6, Unmoved DEF AnswerFails
  <2>4. CASE capture[c] = "answering"
    <3>1. sends' = sends - 1
      BY <1>0, <2>1, <2>4, CaptureMoves
    <3>2. in_flight' = in_flight - 1
      BY <1>6, <2>4 DEF AnswerFails
    <3> QED BY <1>0, <1>1, <2>2, <2>3, <3>1, <3>2 DEF Tally
  <2>5. CASE capture[c] = "answer"
    <3>1. sends' = sends
      BY <1>0, <2>1, <2>5, CaptureMoves
    <3>2. in_flight' = in_flight
      BY <1>6, <2>5 DEF AnswerFails
    <3> QED BY <1>0, <1>1, <2>2, <2>3, <3>1, <3>2 DEF Tally
  <2> QED BY <2>1, <2>4, <2>5
(* From here two routines may be at work for the transfer: its next one    *)
(* and this one, which leaves.                                             *)
<1>7. CASE SendCapture(c)
  <2>1. capture[c] = "resending" /\ Moves(c, "sent")
    BY <1>7 DEF SendCapture, Moves
  <2>2. holds' = holds /\ sends' = sends - 1
    BY <1>0, <2>1, CaptureMoves
  <2>3. gives' = gives /\ leaving' = leaving + 1 /\ in_flight' = in_flight
    BY <1>7, Unmoved DEF SendCapture
  <2> QED BY <1>0, <1>1, <2>1, <2>2, <2>3 DEF Tally
<1>8. ASSUME CaptureFails(c), capture[c] = "resending"
      PROVE  Tally'
  <2>1. /\ Moves(c, "unsent")
        /\ leaving' = leaving + 1 /\ playback' = playback /\ in_flight' = in_flight - 1
    BY <1>8 DEF CaptureFails, Moves
  <2>2. holds' = holds - 1 /\ sends' = sends - 1
    BY <1>0, <1>8, <2>1, CaptureMoves
  <2>3. gives' = gives
    BY <2>1, Unmoved
  <2> QED BY <1>0, <1>1, <2>1, <2>2, <2>3 DEF Tally
<1>9. CASE CaptureCompletes(c)
  BY <1>2, <1>3, <1>9 DEF CaptureCompletes, Moves
<1>10. CASE CheckRunning(c)
  BY <1>2, <1>3, <1>10 DEF CheckRunning, Moves
<1>11. CASE TryClaim(c) \/ Process(c)
  BY <1>2, <1>11 DEF TryClaim, Process, Moves
<1>12. CASE CaptureFails(c)
  BY <1>3, <1>8, <1>12 DEF CaptureFails, Moves
<1> QED BY <1>4, <1>5, <1>6, <1>7, <1>9, <1>10, <1>11, <1>12 DEF Routine

LEMMA PlaybackCounts ==
  ASSUME Inv, Tally, NEW p \in Playbacks, PlaybackCompletes(p) \/ FreePlayback(p)
  PROVE  Tally'
<1> USE DEF control, routines, playbacks
<1>0. /\ Types
      /\ submits \in Nat /\ holds \in Nat /\ sends \in Nat /\ gives \in Nat /\ leaving \in Nat
      /\ in_flight = submits + holds + sends + gives + leaving
  BY Numbers DEF Inv, Tally
<1>1. submits' = submits /\ holds' = holds /\ sends' = sends /\ in_flight' = in_flight
  BY Unmoved DEF PlaybackCompletes, FreePlayback
<1>2. CASE PlaybackCompletes(p)
  <2>1. playback[p] = "sent" /\ PlaybackMoves(p, "completed")
    BY <1>2 DEF PlaybackCompletes, PlaybackMoves
  <2>2. gives' = gives
    BY <1>0, <2>1, PlaybackMove
  <2>3. leaving' = leaving
    BY <1>2 DEF PlaybackCompletes
  <2> QED BY <1>0, <1>1, <2>2, <2>3 DEF Tally
<1>3. CASE FreePlayback(p)
  <2>1. /\ playback[p] = "completed" /\ PlaybackMoves(p, "unsent")
        /\ leaving' = leaving + 1
    BY <1>3 DEF FreePlayback, PlaybackMoves
  <2>2. gives' = gives - 1
    BY <1>0, <2>1, PlaybackMove
  <2> QED BY <1>0, <1>1, <2>1, <2>2 DEF Tally
<1> QED BY <1>2, <1>3

LEMMA TallyCounts == (Tally <=> InFlightCounts) /\ (Tally' <=> InFlightCounts')
  BY DEF Tally, InFlightCounts, Outstanding, submits, holds, sends, gives, Held, Sending, Given

(* Every step counts what it hands over.                                   *)
LEMMA CountStep ==
  ASSUME IInv, Next
  PROVE  InFlightCounts'
<1> USE DEF control, routines, playbacks
<1>0. Inv /\ Tally
  BY TallyCounts DEF IInv, CountedUntilQuiet
<1>1. CASE \/ StartEngine \/ StopEngine \/ ClearRunning \/ CapturePurged \/ PlaybackPurged
           \/ Drained
  <2>1. UNCHANGED <<submitting, capture, playback, leaving, in_flight>>
    BY <1>1 DEF StartEngine, StopEngine, ClearRunning, CapturePurged, PlaybackPurged, Drained
  <2> QED BY <1>0, <2>1, Unmoved, TallyCounts DEF Tally
<1>2. CASE FreeEngine
  <2>1. /\ \A c \in Captures : capture[c] = "unsent"
        /\ \A p \in Playbacks : playback[p] = "unsent"
    BY <1>0, <1>2, NothingOutstanding
       DEF FreeEngine, IInv, CountedUntilQuiet, FreedWhenQuiet, Inv
  <2>2. UNCHANGED <<submitting, capture, playback, leaving, in_flight>>
    BY <1>0, <1>2, <2>1 DEF FreeEngine, Inv, Types
  <2> QED BY <1>0, <2>2, Unmoved, TallyCounts DEF Tally
<1>3. CASE Leave
  <2>1. /\ submits' = submits /\ holds' = holds /\ sends' = sends /\ gives' = gives
        /\ leaving' = leaving - 1 /\ in_flight' = in_flight - 1
    BY <1>3, Unmoved DEF Leave
  <2>2. /\ submits \in Nat /\ holds \in Nat /\ sends \in Nat /\ gives \in Nat
        /\ leaving \in Nat
    BY <1>0, Numbers DEF Inv
  <2>3. Tally'
    BY <1>0, <2>1, <2>2 DEF Tally
  <2> QED BY <2>3, TallyCounts
<1>4. ASSUME Tally'
      PROVE  InFlightCounts'
  BY <1>4, TallyCounts
<1> QED BY <1>0, <1>1, <1>2, <1>3, <1>4, ControlCounts, CaptureCounts, PlaybackCounts
        DEF Next, Control

(* Drained is the only way into a phase where the engine is freed, and     *)
(* from there nothing begins before the next start.                        *)
LEMMA QuietStep ==
  ASSUME IInv, Next
  PROVE  FreedWhenQuiet'
<1> USE DEF control, routines, playbacks
<1>0. Inv /\ Types /\ InFlightCounts /\ FreedWhenQuiet /\ InFlightCounts' /\ Types'
  BY CountStep, TypesStep DEF IInv, Inv, CountedUntilQuiet
<1>1. CASE phase \in {"restart", "none"}
  <2>1. /\ submitting = {} /\ leaving = 0
        /\ \A c \in Captures : capture[c] = "unsent"
        /\ \A p \in Playbacks : playback[p] = "unsent"
        /\ in_flight = 0
    BY <1>0, <1>1, NothingOutstanding DEF FreedWhenQuiet, InFlightCounts
  <2>2. StartEngine \/ FreeEngine
    <3>1. ~(StopEngine \/ ClearRunning \/ CapturePurged \/ PlaybackPurged \/ Drained)
      BY <1>1 DEF StopEngine, ClearRunning, CapturePurged, PlaybackPurged, Drained
    <3>0. ~Leave
      BY <2>1 DEF Leave
    <3>2. \A c \in Captures : ~(Submit(c) \/ SubmitSent(c) \/ SubmitFails(c))
      BY <1>1, <2>1 DEF Submit, SubmitSent, SubmitFails
    <3>3. \A c \in Captures : ~(CaptureCompletes(c) \/ Routine(c))
      BY <2>1 DEF CaptureCompletes, Routine, CheckRunning, TryClaim, Process, CountAnswer,
                  SendAnswer, AnswerFails, CountCapture, SendCapture, CaptureFails
    <3>4. \A p \in Playbacks : ~(PlaybackCompletes(p) \/ FreePlayback(p))
      BY <2>1 DEF PlaybackCompletes, FreePlayback
    <3> QED BY <3>0, <3>1, <3>2, <3>3, <3>4 DEF Next, Control
  <2>3. in_flight' = 0
    BY <2>1, <2>2 DEF StartEngine, FreeEngine
  <2> QED BY <1>0, <2>3 DEF InFlightCounts, FreedWhenQuiet
<1>2. CASE phase \notin {"restart", "none"}
  <2>1. CASE Drained
    <3>1. in_flight' = 0
      BY <2>1 DEF Drained
    <3> QED BY <1>0, <3>1 DEF InFlightCounts, FreedWhenQuiet
  <2>2. CASE ~Drained
    <3>1. phase' \notin {"restart", "none"}
      BY <1>2, <2>2 DEF Next, Control, Routine, StartEngine, StopEngine, Submit, SubmitSent,
         SubmitFails, ClearRunning, CapturePurged, PlaybackPurged, FreeEngine, CaptureCompletes,
         CheckRunning, TryClaim, Process, CountAnswer, SendAnswer, AnswerFails, CountCapture,
         SendCapture, CaptureFails, PlaybackCompletes, FreePlayback, Leave
    <3> QED BY <3>1 DEF FreedWhenQuiet
  <2> QED BY <2>1, <2>2
<1> QED BY <1>1, <1>2

-----------------------------------------------------------------------------
(* Invariance                                                              *)

LEMMA InvariantInit == Init => IInv
<1> SUFFICES ASSUME Init PROVE IInv
  OBVIOUS
<1>1. Inv
  BY Indices DEF Init, Inv, Types, SentInTurn, Claims, Exclusive, Pipes
<1>2. submits = 0 /\ holds = 0 /\ sends = 0 /\ gives = 0 /\ leaving = 0 /\ in_flight = 0
  <2>1. submitting = {} /\ Held = {} /\ Sending = {} /\ Given = {}
    BY DEF Init, Held, Sending, Given
  <2> QED BY <2>1, FS_EmptySet DEF Init, submits, holds, sends, gives
<1>3. Outstanding = 0
  BY <1>2, OutstandingIs
<1> QED BY <1>1, <1>2, <1>3 DEF IInv, CountedUntilQuiet, InFlightCounts, FreedWhenQuiet

LEMMA InvariantStep == IInv /\ [Next]_vars => IInv'
<1>1. ASSUME IInv, Next PROVE IInv'
  <2>1. Inv'
    BY <1>1, TypesStep, TurnStep, ClaimsStep, ExclusiveStep DEF IInv, Inv
  <2> QED BY <1>1, <2>1, CountStep, QuietStep DEF IInv, CountedUntilQuiet
<1>2. ASSUME IInv, UNCHANGED vars PROVE IInv'
  <2>1. Inv'
    BY <1>2 DEF IInv, Inv, Types, SentInTurn, Claims, Exclusive, vars
  <2>2. Outstanding' = Outstanding /\ in_flight' = in_flight /\ phase' = phase
    BY <1>2 DEF vars, Outstanding
  <2> QED BY <1>2, <2>1, <2>2 DEF IInv, CountedUntilQuiet, InFlightCounts, FreedWhenQuiet
<1> QED BY <1>1, <1>2

LEMMA Invariance == Spec => []IInv
  BY InvariantInit, InvariantStep, PTL DEF Spec

(* The variables of the engine keep their types; in_flight, a counter that *)
(* is decremented, never falls below zero.                                 *)
THEOREM TypeCorrect == Spec => []TypeOK
<1>1. IInv => TypeOK
  <2> SUFFICES ASSUME IInv PROVE TypeOK
    OBVIOUS
  <2>1. in_flight \in Nat
    <3>1. Types
      BY DEF IInv, Inv
    <3>2. submits + holds + sends + gives + leaving \in Nat
      BY <3>1, Numbers
    <3> QED BY <3>2, TallyCounts DEF IInv, CountedUntilQuiet, Tally
  <2> QED BY <2>1 DEF IInv, Inv, Types, TypeOK
<1> QED BY <1>1, Invariance, PTL

(* stop waits for in_flight to be 0, and then no transfer is with the USB  *)
(* stack and no routine has the engine, with any number of transfers on    *)
(* any number of processors.                                               *)
THEOREM QuietWhenFreed == Spec => []CountedUntilQuiet
<1>1. IInv => CountedUntilQuiet
  BY DEF IInv
<1> QED BY <1>1, Invariance, PTL

(* No two parties use a playback transfer at once, and busy says whether   *)
(* one does.                                                               *)
THEOREM OneUser == Spec => []PlaybackExclusive
<1>1. IInv => PlaybackExclusive
  <2> SUFFICES ASSUME IInv, NEW p \in Playbacks, NEW claims, claims = {c \in Captures : mine[c] = p}
               PROVE  /\ Cardinality(claims) <= 1
                      /\ claims # {} => playback[p] = "unsent"
                      /\ busy[p] <=> claims # {} \/ playback[p] # "unsent"
    BY DEF PlaybackExclusive
  <2>1. p # 0
    BY Indices
  <2>2. claims = {} \/ \E c \in Captures : claims = {c}
    BY <2>1 DEF IInv, Inv, Exclusive
  <2>3. Cardinality(claims) <= 1
    <3>1. Cardinality(claims) = 0 \/ Cardinality(claims) = 1
      BY <2>2, FS_EmptySet, FS_Singleton
    <3> QED BY <3>1
  <2>4. claims # {} => playback[p] = "unsent"
    BY <2>1 DEF IInv, Inv, Exclusive
  <2>5. busy[p] <=> claims # {} \/ playback[p] # "unsent"
    BY DEF IInv, Inv, Exclusive
  <2> QED BY <2>3, <2>4, <2>5
<1> QED BY <1>1, Invariance, PTL

=============================================================================
