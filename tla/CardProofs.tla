----------------------------- MODULE CardProofs -----------------------------
(***************************************************************************)
(* Proofs about what crosses the cable: the commands of UsbCommand, for    *)
(* any attempts, room and slowness the assumptions allow, and the audio    *)
(* packets of Mode2, of any length.                                        *)
(*                                                                         *)
(* Alignment: a transfer that is dropped flips one side's toggle only,     *)
(* so after one transfer in a direction, dropped or not, the two sides     *)
(* agree in that direction. Every attempt of sync sends one, and sync ends *)
(* with a message it has taken.                                            *)
(*                                                                         *)
(* Answers: the firmware takes a command when it has answered the last, so *)
(* the answer to the command under way is the last one that comes. Sync    *)
(* ends at a message it asked for, which is behind every earlier answer.   *)
(*                                                                         *)
(* Attempts: an attempt of sync that is not answered has aligned one more  *)
(* direction; one of set_audio_params uses up a message that was there     *)
(* when the command was sent, and the firmware holds at most Room.         *)
(*                                                                         *)
(* Packets: a sample ends in the block after the one it begins in, with    *)
(* the tail in between when that is in another packet.                     *)
(***************************************************************************)
EXTENDS UsbCommand, Mode2, TLAPS, FiniteSetTheorems

ToggleType == host \in Toggles /\ firmware \in Toggles

SentOnce == pc \in {"syncing", "ready", "asking", "unanswered"} => Reached

AlignedInv == ToggleType /\ SentOnce /\ SyncAligns

(* A transfer to the firmware aligns the two sides.                        *)
LEMMA TransmitAligns ==
  ASSUME NEW m, ToggleType, Transmit(m)
  PROVE  /\ ToggleType' /\ Reached'
         /\ host'.in = host.in /\ firmware'.in = firmware.in
<1>1. CASE Reached
  BY <1>1 DEF ToggleType, Toggles, Transmit, Reached
<1>2. CASE ~Reached
  BY <1>2 DEF ToggleType, Toggles, Transmit, Reached
<1>3. QED
  BY <1>1, <1>2

(* A transfer from the firmware aligns them, and is taken if they were.    *)
LEMMA FetchAligns ==
  ASSUME ToggleType, Fetch,
         host' = IF Taken THEN [host EXCEPT !.in = 1 - @] ELSE host
  PROVE  /\ ToggleType' /\ Taken'
         /\ Reached' <=> Reached
BY DEF ToggleType, Toggles, Fetch, Taken, Reached

LEMMA AlignedInit == Init => AlignedInv
BY DEF Init, AlignedInv, ToggleType, Toggles, SentOnce, SyncAligns

LEMMA AlignedStep == AlignedInv /\ [Next]_vars => AlignedInv'
<1> SUFFICES ASSUME AlignedInv, [Next]_vars PROVE AlignedInv'
  OBVIOUS
<1> USE DEF AlignedInv, SentOnce, SyncAligns
<1>1. CASE Open
  BY <1>1 DEF Open, ToggleType, Toggles
<1>2. CASE SyncSends
  BY <1>2, TransmitAligns DEF SyncSends
<1>3. CASE SyncReceives
  <2>1. ToggleType' /\ Taken' /\ (Reached' <=> Reached)
    BY <1>3, FetchAligns DEF SyncReceives
  <2>2. QED
    BY <1>3, <2>1 DEF SyncReceives
<1>4. CASE \E r \in Rates : Ask(r)
  <2>1. PICK m : Transmit(m)
    BY <1>4 DEF Ask
  <2>2. pc = "ready" /\ pc' = "asking"
    BY <1>4 DEF Ask
  <2>3. QED
    BY <2>1, <2>2, TransmitAligns DEF Taken
<1>5. CASE AskReceives
  <2>1. ToggleType' /\ Taken' /\ (Reached' <=> Reached)
    BY <1>5, FetchAligns DEF AskReceives
  <2>2. pc = "asking"
    BY <1>5 DEF AskReceives
  <2>3. QED
    BY <2>1, <2>2
<1>6. CASE Sleep
  BY <1>6 DEF Sleep, ToggleType
<1>7. CASE UNCHANGED vars
  BY <1>7 DEF vars, ToggleType, Reached, Taken
<1>8. CASE \/ SyncNotSent \/ SyncTimesOut \/ SyncGivesUp \/ AskNotSent \/ AskTimesOut
           \/ AskGivesUp \/ Fails \/ Unload \/ Answer \/ Report
  BY <1>8 DEF SyncNotSent, SyncTimesOut, SyncGivesUp, AskNotSent, AskTimesOut, AskGivesUp,
              Fails, Unload, Answer, Report, ToggleType, Reached, Taken
<1>9. QED
  BY <1>1, <1>2, <1>3, <1>4, <1>5, <1>6, <1>7, <1>8 DEF Next, Sync, SetAudioParams

(* Once sync has been answered, no transfer of a command is dropped in     *)
(* either direction, until the next SET_INTERFACE.                         *)
THEOREM SyncAlignsBoth == Spec => []SyncAligns
<1>1. AlignedInv => SyncAligns
  BY DEF AlignedInv
<1>2. QED
  BY <1>1, AlignedInit, AlignedStep, PTL DEF Spec

-----------------------------------------------------------------------------
(* Answers. The firmware takes one command at a time and answers in order, *)
(* so the answer to the last command is behind every other one.            *)

Types ==
  /\ attempt \in Nat
  /\ replies \in Seq(Messages) /\ Len(replies) <= Room
  /\ owed \in Answers \cup {"info", Nothing}
  /\ wanted \in Rates \cup {NoRate}

(* The answer to the command under way is the i-th message to come; what   *)
(* the firmware still owes is the one after those it holds.                *)
Own(i) ==
  /\ i \in 1..Len(replies) + 1
  /\ i <= Len(replies) =>
       /\ owed = Nothing /\ replies[i] \in Answers
       /\ replies[i] = "accepted" => card = wanted
  /\ i = Len(replies) + 1 =>
       /\ owed \in Answers
       /\ owed = "accepted" => card = wanted
  /\ \A j \in 1..Len(replies) : j > i => replies[j] = "report"

(* The n first messages were there when it was sent; only reports can have *)
(* come between them and the answer.                                       *)
Ahead(i, n) ==
  /\ attempt + n <= Room \/ (disturbed /\ n = 0)
  /\ \A j \in 1..Len(replies) : n < j /\ j < i => replies[j] = "report"

NoneBefore(i) == \A j \in 1..Len(replies) : j < i => replies[j] \notin Answers

AnswerComes ==
  pc = "asking" => \E i, n \in Nat : Own(i) /\ Ahead(i, n) /\ (missed \/ NoneBefore(i))

InfoComes == owed = "info" \/ \E i \in 1..Len(replies) : replies[i] = "info"

(* No answer to set_audio_params is still to come; none comes behind an    *)
(* answer to sync.                                                         *)
Answered ==
  owed \notin Answers /\ \A i \in 1..Len(replies) : replies[i] \notin Answers

InfosLast ==
  \A i \in 1..Len(replies) : replies[i] = "info" =>
    owed \notin Answers /\ \A j \in 1..Len(replies) : j > i => replies[j] \notin Answers

(* What commands and syncs leave for later ones to find. A command that is *)
(* given up has taken every answer to sync before.                         *)
Leftovers ==
  /\ pc # "asking" => InfosLast
  /\ pc \in {"sync", "syncing"} => ~missed
  /\ pc \in {"ready", "unanswered"} /\ ~missed => Answered
  /\ pc \in {"ready", "asking", "unanswered"} /\ missed => ~InfoComes

(* What each attempt of a sync that met plain answers only has gained: the *)
(* first aligns OUT, the second IN.                                        *)
SyncGains ==
  ~disturbed =>
    /\ pc \in {"sync", "syncing"} => attempt <= 2
    /\ pc = "sync" => (attempt >= 1 => Reached) /\ (attempt = 2 => Taken)
    /\ pc = "syncing" =>
         /\ Reached
         /\ attempt = 1 => Taken \/ InfoComes
         /\ attempt = 2 => Taken /\ InfoComes

(* A rate is reported from a command's success to the next one.            *)
RateWhenReady == rate # NoRate => pc = "ready"

IInv == AlignedInv /\ Types /\ AnswerComes /\ Leftovers /\ RateWhenReady /\ AnswerIsOwn
          /\ SyncGains /\ AttemptsSuffice

LEMMA TakenFromQueue ==
  ASSUME NEW s \in Seq(Messages), s # <<>>
  PROVE  /\ Tail(s) \in Seq(Messages) /\ Len(s) \in Nat /\ Len(s) >= 1
         /\ Len(Tail(s)) = Len(s) - 1 /\ Head(s) = s[1] /\ s[1] \in Messages
         /\ \A j \in 1..Len(Tail(s)) : Tail(s)[j] = s[j + 1]
OBVIOUS

LEMMA Appends ==
  ASSUME NEW s \in Seq(Messages), NEW m \in Messages
  PROVE  /\ Append(s, m) \in Seq(Messages) /\ Len(s) \in Nat
         /\ Len(Append(s, m)) = Len(s) + 1 /\ Append(s, m)[Len(s) + 1] = m
         /\ \A j \in 1..Len(s) : Append(s, m)[j] = s[j]
OBVIOUS

LEMMA Distinct ==
  /\ Nothing \notin Answers /\ Nothing # "info"
  /\ "info" \notin Answers /\ "report" \notin Answers
  /\ Answers \subseteq Messages /\ "info" \in Messages /\ "report" \in Messages
  /\ Room \in Nat /\ SYNC_ATTEMPTS \in Nat /\ REPLY_ATTEMPTS \in Nat
  BY UsbCommandAssumption DEF Answers, Messages

LEMMA TypesStep == Types /\ [Next]_vars => Types'
<1> SUFFICES ASSUME Types, [Next]_vars PROVE Types'
  OBVIOUS
<1>1. attempt' \in Nat
  <2>1. attempt' \in {0, attempt, attempt + 1}
    BY DEF Next, Sync, SetAudioParams, vars, Open, SyncSends, SyncNotSent, SyncReceives, SyncTimesOut,
       SyncGivesUp, Ask, AskNotSent, AskReceives, AskTimesOut, AskGivesUp, Fails, Unload, Sleep,
       Answer, Report
  <2> QED BY <2>1 DEF Types
<1>2. wanted' \in Rates \cup {NoRate}
  BY DEF Types, Next, Sync, SetAudioParams, vars, Open, SyncSends, SyncNotSent, SyncReceives,
     SyncTimesOut, SyncGivesUp, Ask, AskNotSent, AskReceives, AskTimesOut, AskGivesUp, Fails, Unload,
     Sleep, Answer, Report
<1>3. owed' \in {owed, "info", "accepted", "rejected", Nothing}
  BY DEF Next, Sync, SetAudioParams, vars, Open, SyncSends, SyncNotSent, SyncReceives, SyncTimesOut,
     SyncGivesUp, Ask, AskNotSent, AskReceives, AskTimesOut, AskGivesUp, Fails, Unload, Sleep, Answer,
     Report, Transmit, Fetch
<1>4. owed' \in Answers \cup {"info", Nothing}
  BY <1>3 DEF Types, Answers
<1>5. \/ replies' = replies
      \/ replies # <<>> /\ replies' = Tail(replies)
      \/ replies' = <<>>
      \/ Len(replies) < Room /\ \E m \in Messages : replies' = Append(replies, m)
  <2>1. CASE Answer
    <3>1. owed \in Messages
      BY <2>1, Distinct DEF Answer, Types, Answers
    <3> QED BY <2>1, <3>1 DEF Answer
  <2>2. CASE Report
    BY <2>2, Distinct DEF Report
  <2>3. CASE ~Answer /\ ~Report
    BY <2>3 DEF Next, Sync, SetAudioParams, vars, Open, SyncSends, SyncNotSent, SyncReceives,
       SyncTimesOut, SyncGivesUp, Ask, AskNotSent, AskReceives, AskTimesOut, AskGivesUp, Fails,
       Unload, Sleep, Transmit, Fetch
  <2> QED BY <2>1, <2>2, <2>3
<1>6. replies' \in Seq(Messages) /\ Len(replies') <= Room
  <2>1. replies \in Seq(Messages) /\ Len(replies) \in Nat /\ Len(replies) <= Room /\ Room \in Nat
    BY Distinct DEF Types
  <2>2. CASE replies' = replies
    BY <2>1, <2>2
  <2>3. CASE replies # <<>> /\ replies' = Tail(replies)
    BY <2>1, <2>3, TakenFromQueue
  <2>4. CASE replies' = <<>>
    BY <2>1, <2>4
  <2>5. ASSUME Len(replies) < Room, NEW m \in Messages, replies' = Append(replies, m)
        PROVE  replies' \in Seq(Messages) /\ Len(replies') <= Room
    <3>1. replies' \in Seq(Messages) /\ Len(replies') = Len(replies) + 1
      BY <2>1, <2>5, Appends
    <3> QED BY <2>1, <2>5, <3>1
  <2> QED BY <1>5, <2>2, <2>3, <2>4, <2>5
<1> QED BY <1>1, <1>2, <1>4, <1>6 DEF Types

-----------------------------------------------------------------------------
(* Steps                                                                   *)

(* A message less: nothing comes that did not come before.                 *)
LEMMA TailKeeps ==
  ASSUME replies \in Seq(Messages), replies # <<>>, replies' = Tail(replies), owed' = owed
  PROVE  /\ InfosLast => InfosLast'
         /\ Answered => Answered'
         /\ ~InfoComes => ~InfoComes'
         /\ InfosLast /\ replies[1] = "info" => Answered'
<1>1. /\ Len(replies) \in Nat /\ Len(replies) >= 1 /\ Len(replies') = Len(replies) - 1
      /\ \A j \in 1..Len(replies') : replies'[j] = replies[j + 1]
  BY TakenFromQueue
<1>2. \A j \in 1..Len(replies') : j + 1 \in 1..Len(replies)
  BY <1>1
<1>3. InfosLast => InfosLast'
  <2> SUFFICES ASSUME InfosLast, NEW i \in 1..Len(replies'), replies'[i] = "info"
               PROVE  /\ owed' \notin Answers
                      /\ \A j \in 1..Len(replies') : j > i => replies'[j] \notin Answers
    BY DEF InfosLast
  <2>1. i + 1 \in 1..Len(replies) /\ replies[i + 1] = "info"
    BY <1>1, <1>2
  <2>2. ASSUME NEW j \in 1..Len(replies'), j > i PROVE replies'[j] \notin Answers
    <3>1. j + 1 \in 1..Len(replies) /\ j + 1 > i + 1 /\ replies'[j] = replies[j + 1]
      BY <1>1, <1>2, <2>2
    <3> QED BY <2>1, <3>1 DEF InfosLast
  <2> QED BY <2>1, <2>2 DEF InfosLast
<1>4. Answered => Answered'
  BY <1>1, <1>2 DEF Answered
<1>5. ~InfoComes => ~InfoComes'
  BY <1>1, <1>2 DEF InfoComes
<1>6. InfosLast /\ replies[1] = "info" => Answered'
  <2> SUFFICES ASSUME InfosLast, replies[1] = "info" PROVE Answered'
    OBVIOUS
  <2>1. owed \notin Answers /\ \A j \in 1..Len(replies) : j > 1 => replies[j] \notin Answers
    BY <1>1 DEF InfosLast
  <2>2. \A j \in 1..Len(replies') : j + 1 > 1
    BY <1>1
  <2> QED BY <1>1, <1>2, <2>1, <2>2 DEF Answered
<1> QED BY <1>3, <1>4, <1>5, <1>6

(* Messages: what comes and what stays.                                    *)
LEMMA MessageStep ==
  ASSUME IInv, Answer \/ Report
  PROVE  /\ AnswerComes' /\ Leftovers' /\ AnswerIsOwn'
         /\ InfoComes => InfoComes'
<1>1. /\ replies \in Seq(Messages) /\ Len(replies) \in Nat
      /\ UNCHANGED <<pc, attempt, wanted, rate, card, disturbed, missed>>
  BY DEF IInv, Types, Answer, Report
<1>2. PICK m \in Messages :
        /\ replies' = Append(replies, m)
        /\ \/ m = owed /\ owed # Nothing /\ owed' = Nothing
           \/ m = "report" /\ owed' = owed
  <2>1. CASE Answer
    BY <2>1, Distinct DEF Answer, IInv, Types
  <2>2. CASE Report
    BY <2>2, Distinct DEF Report
  <2> QED BY <2>1, <2>2
<1>3. /\ Len(replies') = Len(replies) + 1 /\ replies'[Len(replies) + 1] = m
      /\ \A j \in 1..Len(replies) : replies'[j] = replies[j]
  BY <1>1, <1>2, Appends
<1>4. AnswerIsOwn'
  BY <1>1 DEF AnswerIsOwn, IInv
<1>5. ASSUME NEW i \in Nat, Own(i)
      PROVE  \E k \in Nat :
               /\ Own(k)'
               /\ \A n \in Nat : Ahead(i, n) => Ahead(k, n)'
               /\ NoneBefore(i) => NoneBefore(k)'
  <2>1. CASE i <= Len(replies)
    <3>1. m = "report" /\ owed' = Nothing
      BY <1>1, <1>2, <1>5, <2>1 DEF Own
    <3>2. Own(i)'
      BY <1>1, <1>3, <1>5, <2>1, <3>1, Distinct DEF Own
    <3>3. \A n \in Nat : Ahead(i, n) => Ahead(i, n)'
      BY <1>1, <1>3, <2>1 DEF Ahead
    <3>4. NoneBefore(i) => NoneBefore(i)'
      BY <1>1, <1>3, <2>1 DEF NoneBefore
    <3> QED BY <3>2, <3>3, <3>4
  <2>2. CASE i = Len(replies) + 1 /\ m = owed /\ owed' = Nothing
    <3>1. Own(i)'
      BY <1>1, <1>3, <1>5, <2>2 DEF Own
    <3>2. \A n \in Nat : Ahead(i, n) => Ahead(i, n)'
      BY <1>1, <1>3, <2>2 DEF Ahead
    <3>3. NoneBefore(i) => NoneBefore(i)'
      BY <1>1, <1>3, <2>2 DEF NoneBefore
    <3> QED BY <3>1, <3>2, <3>3
  <2>3. CASE i = Len(replies) + 1 /\ m = "report" /\ owed' = owed
    <3>1. i + 1 \in Nat /\ Own(i + 1)'
      BY <1>1, <1>3, <1>5, <2>3, Distinct DEF Own
    <3>2. \A n \in Nat : Ahead(i, n) => Ahead(i + 1, n)'
      BY <1>1, <1>3, <2>3 DEF Ahead
    <3>3. NoneBefore(i) => NoneBefore(i + 1)'
      BY <1>1, <1>3, <2>3, Distinct DEF NoneBefore
    <3> QED BY <3>1, <3>2, <3>3
  <2>4. i <= Len(replies) \/ i = Len(replies) + 1
    BY <1>1, <1>5 DEF Own
  <2> QED BY <1>2, <2>1, <2>2, <2>3, <2>4
<1>6. AnswerComes'
  <2> SUFFICES ASSUME pc = "asking"
               PROVE  \E i, n \in Nat : Own(i)' /\ Ahead(i, n)' /\ (missed \/ NoneBefore(i))'
    BY <1>1 DEF AnswerComes
  <2>1. PICK i \in Nat, n \in Nat : Own(i) /\ Ahead(i, n) /\ (missed \/ NoneBefore(i))
    BY DEF IInv, AnswerComes
  <2>2. PICK k \in Nat : Own(k)' /\ Ahead(k, n)' /\ (NoneBefore(i) => NoneBefore(k)')
    BY <1>5, <2>1
  <2> QED BY <1>1, <2>1, <2>2
<1>7. InfoComes => InfoComes'
  <2>1. CASE owed = "info"
    BY <1>1, <1>2, <1>3, <2>1, Distinct DEF InfoComes
  <2>2. CASE \E i \in 1..Len(replies) : replies[i] = "info"
    BY <1>1, <1>3, <2>2 DEF InfoComes
  <2> QED BY <2>1, <2>2 DEF InfoComes
<1>8. InfosLast => InfosLast'
  <2> SUFFICES ASSUME InfosLast, NEW i \in 1..Len(replies'), replies'[i] = "info"
               PROVE  /\ owed' \notin Answers
                      /\ \A j \in 1..Len(replies') : j > i => replies'[j] \notin Answers
    BY DEF InfosLast
  <2>1. owed' \notin Answers \/ i \in 1..Len(replies)
    BY <1>1, <1>2, <1>3, Distinct
  <2>2. CASE i \in 1..Len(replies)
    <3>1. /\ owed \notin Answers /\ m \notin Answers
          /\ \A j \in 1..Len(replies) : j > i => replies[j] \notin Answers
      BY <1>2, <1>3, <2>2, Distinct DEF InfosLast
    <3> QED BY <1>1, <1>2, <1>3, <3>1, Distinct
  <2>3. CASE i = Len(replies) + 1
    <3>1. m = "info"
      BY <1>3, <2>3
    <3> QED BY <1>1, <1>2, <1>3, <2>3, <3>1, Distinct
  <2> QED BY <1>1, <1>3, <2>2, <2>3
<1>9. Answered => Answered'
  BY <1>1, <1>2, <1>3, Distinct DEF Answered
<1>10. ~InfoComes => ~InfoComes'
  BY <1>1, <1>2, <1>3, Distinct DEF InfoComes
<1>11. Leftovers'
  BY <1>1, <1>8, <1>9, <1>10 DEF IInv, Leftovers
<1> QED BY <1>4, <1>6, <1>7, <1>11

(* A new command: its answer is behind all there is.                       *)
LEMMA AskStep ==
  ASSUME IInv, NEW r \in Rates, Ask(r)
  PROVE  AnswerComes' /\ Leftovers' /\ RateWhenReady' /\ AnswerIsOwn'
<1>1. PICK obeys \in BOOLEAN :
        /\ Transmit(IF obeys THEN "accepted" ELSE "rejected")
        /\ card' = IF obeys /\ Reached THEN r ELSE card
  BY DEF Ask
<1>2. Reached
  BY DEF Ask, IInv, AlignedInv, SyncAligns
<1>3. /\ owed' \in Answers
      /\ owed' = "accepted" => card' = wanted'
  BY <1>1, <1>2 DEF Transmit, Answers, Ask
<1>4. /\ replies' = replies /\ attempt' = 0 /\ pc' = "asking" /\ rate' = NoRate
      /\ replies \in Seq(Messages) /\ Len(replies) \in Nat /\ Len(replies) <= Room
      /\ pc = "ready" /\ missed' = missed
  BY <1>1 DEF Ask, Transmit, IInv, Types
<1> DEFINE last == Len(replies) + 1
<1>5. last \in Nat /\ Own(last)'
  BY <1>3, <1>4 DEF Own
<1>6. Ahead(last, Len(replies))'
  BY <1>4, Distinct DEF Ahead
<1>7. missed \/ NoneBefore(last)'
  BY <1>4 DEF NoneBefore, IInv, Leftovers, Answered
<1>8. AnswerComes'
  BY <1>4, <1>5, <1>6, <1>7 DEF AnswerComes
<1>9. Leftovers'
  <2>1. missed => ~InfoComes
    BY <1>4 DEF IInv, Leftovers
  <2>2. missed => ~InfoComes'
    BY <1>3, <1>4, <2>1, Distinct DEF InfoComes
  <2> QED BY <1>4, <2>2 DEF Leftovers
<1> QED BY <1>4, <1>8, <1>9 DEF RateWhenReady, AnswerIsOwn

(* A message comes while a command waits: none is dropped.                 *)
LEMMA AskReceivesStep ==
  ASSUME IInv, AskReceives
  PROVE  /\ AnswerComes' /\ Leftovers' /\ RateWhenReady' /\ AnswerIsOwn'
         /\ pc' # "unanswered"
<1>1. /\ replies # <<>> /\ replies \in Seq(Messages) /\ replies' = Tail(replies)
      /\ owed' = owed /\ wanted' = wanted /\ card' = card /\ missed' = missed
  BY DEF AskReceives, Fetch, IInv, Types
<1>2. /\ Len(replies) \in Nat /\ Len(replies') = Len(replies) - 1 /\ Head(replies) = replies[1]
      /\ \A j \in 1..Len(replies') : replies'[j] = replies[j + 1]
  BY <1>1, TakenFromQueue
<1>3. Taken /\ pc = "asking"
  BY DEF AskReceives, IInv, AlignedInv, SyncAligns
<1>4. PICK i \in Nat, n \in Nat : Own(i) /\ Ahead(i, n) /\ (missed \/ NoneBefore(i))
  BY <1>3 DEF IInv, AnswerComes
<1>5. rate = NoRate
  BY <1>3 DEF IInv, RateWhenReady
<1>6. disturbed' = (disturbed \/ replies[1] = "report")
  BY <1>2, <1>3 DEF AskReceives
<1>7. CASE replies[1] \in Answers
  <2>1. /\ pc' = "ready"
        /\ rate' = IF replies[1] = "accepted" THEN wanted ELSE NoRate
    BY <1>2, <1>3, <1>7 DEF AskReceives
  <2>2. CASE missed
    <3>1. ~InfoComes'
      BY <1>1, <1>3, <2>2, TailKeeps DEF IInv, Leftovers
    <3>2. InfosLast'
      BY <3>1 DEF InfosLast, InfoComes
    <3> QED BY <1>1, <2>1, <2>2, <3>1, <3>2 DEF AnswerComes, Leftovers, RateWhenReady, AnswerIsOwn
  <2>3. CASE ~missed
    <3>1. i = 1
      BY <1>1, <1>2, <1>4, <1>7, <2>3, TakenFromQueue DEF Own, NoneBefore
    <3>2. /\ owed = Nothing
          /\ replies[1] = "accepted" => card = wanted
          /\ \A j \in 1..Len(replies) : j > 1 => replies[j] = "report"
      BY <1>1, <1>2, <1>4, <3>1, TakenFromQueue DEF Own
    <3>3. \A j \in 1..Len(replies') : replies'[j] = "report"
      BY <1>2, <3>2
    <3>4. Answered' /\ InfosLast'
      BY <1>1, <3>2, <3>3, Distinct DEF Answered, InfosLast
    <3>5. Leftovers'
      BY <1>1, <2>1, <2>3, <3>4 DEF Leftovers
    <3>6. AnswerIsOwn'
      BY <1>1, <2>1, <3>2 DEF AnswerIsOwn
    <3> QED BY <2>1, <3>5, <3>6 DEF AnswerComes, RateWhenReady
  <2> QED BY <2>2, <2>3
<1>8. CASE replies[1] \notin Answers
  <2>1. pc' = "asking" /\ attempt' = attempt + 1 /\ rate' = NoRate
    BY <1>2, <1>3, <1>5, <1>8 DEF AskReceives
  <2>2. i - 1 \in Nat /\ i >= 2
    BY <1>1, <1>2, <1>4, <1>8, TakenFromQueue DEF Own
  <2>3. Own(i - 1)'
    BY <1>1, <1>2, <1>4, <2>2 DEF Own
  <2>4. PICK k \in Nat : Ahead(i - 1, k)'
    <3>1. attempt \in Nat /\ Room \in Nat
      BY Distinct DEF IInv, Types
    <3>2. CASE n = 0
      <4>1. replies[1] = "report"
        BY <1>1, <1>2, <1>4, <2>2, <3>2, TakenFromQueue DEF Ahead
      <4>2. disturbed'
        BY <1>6, <4>1
      <4>3. Ahead(i - 1, 0)'
        BY <1>2, <1>4, <2>2, <3>2, <4>2 DEF Ahead
      <4> QED BY <4>3
    <3>3. CASE n >= 1
      <4>1. n - 1 \in Nat /\ attempt' + (n - 1) <= Room
        BY <1>4, <2>1, <3>1, <3>3 DEF Ahead
      <4>2. Ahead(i - 1, n - 1)'
        BY <1>2, <1>4, <2>2, <4>1 DEF Ahead
      <4> QED BY <4>1, <4>2
    <3> QED BY <3>2, <3>3
  <2>5. missed \/ NoneBefore(i - 1)'
    BY <1>2, <1>4, <2>2 DEF NoneBefore
  <2>6. Leftovers'
    BY <1>1, <1>3, <2>1, TailKeeps DEF IInv, Leftovers
  <2> QED BY <1>1, <2>1, <2>2, <2>3, <2>4, <2>5, <2>6 DEF AnswerComes, RateWhenReady, AnswerIsOwn
<1>9. pc' # "unanswered"
  BY <1>3 DEF AskReceives
<1> QED BY <1>7, <1>8, <1>9

(* A command is given up: what was there when it was sent has been taken.  *)
LEMMA GivenUp ==
  ASSUME IInv, AskTimesOut \/ AskGivesUp
  PROVE  InfosLast' /\ ~InfoComes'
<1>1. /\ pc = "asking" /\ owed' = owed /\ replies' = replies
      /\ attempt \in Nat /\ Len(replies) \in Nat
      /\ replies = <<>> \/ attempt = REPLY_ATTEMPTS
  BY DEF AskTimesOut, AskGivesUp, NothingComes, IInv, Types
<1>2. PICK i \in Nat, n \in Nat : Own(i) /\ Ahead(i, n)
  BY <1>1 DEF IInv, AnswerComes
<1>3. owed # "info"
  BY <1>1, <1>2, Distinct DEF Own
<1>4. ASSUME NEW j \in 1..Len(replies) PROVE replies[j] # "info"
  <2>1. attempt = REPLY_ATTEMPTS
    BY <1>1, <1>4
  <2>2. n = 0
    BY <1>1, <1>2, <2>1, Distinct, AttemptsAssumption DEF Ahead
  <2>3. CASE j < i
    BY <1>2, <1>4, <2>2, <2>3 DEF Ahead
  <2>4. CASE j = i
    BY <1>2, <1>4, <2>4, Distinct DEF Own
  <2>5. CASE j > i
    BY <1>2, <1>4, <2>5 DEF Own
  <2> QED BY <1>2, <2>3, <2>4, <2>5
<1> QED BY <1>1, <1>3, <1>4 DEF InfosLast, InfoComes

(* Everything else that commands do.                                       *)
LEMMA OtherStep ==
  ASSUME IInv, [Next]_vars, ~Answer, ~Report, ~AskReceives, \A r \in Rates : ~Ask(r)
  PROVE  AnswerComes' /\ Leftovers' /\ RateWhenReady' /\ AnswerIsOwn'
<1> USE DEF IInv
<1>1. CASE UNCHANGED vars
  BY <1>1 DEF vars, AnswerComes, Own, Ahead, NoneBefore, RateWhenReady, AnswerIsOwn, Leftovers,
              InfosLast, Answered, InfoComes
<1>2. CASE Open \/ Sync
  <2>1. /\ rate' = rate /\ pc \in {"closed", "sync", "syncing"} /\ pc' # "asking"
        /\ pc' # "unanswered"
    BY <1>2 DEF Open, Sync, SyncSends, SyncNotSent, SyncReceives, SyncTimesOut, SyncGivesUp
  <2>2. rate = NoRate
    BY <2>1 DEF RateWhenReady
  <2>3. ~missed' /\ InfosLast
    BY <1>2 DEF Leftovers, Open, Sync, SyncSends, SyncNotSent, SyncReceives, SyncTimesOut, SyncGivesUp
  <2>4. InfosLast' /\ (pc' = "ready" => Answered')
    <3>1. CASE SyncReceives
      <4>1. /\ replies \in Seq(Messages) /\ replies # <<>> /\ replies' = Tail(replies)
            /\ owed' = owed
        BY <3>1 DEF SyncReceives, Fetch, Types
      <4>2. Head(replies) = replies[1]
        BY <4>1, TakenFromQueue
      <4>3. pc' = "ready" => replies[1] = "info"
        BY <3>1, <4>2 DEF SyncReceives
      <4> QED BY <2>3, <4>1, <4>3, TailKeeps
    <3>2. CASE SyncSends
      <4>1. replies' = replies /\ owed' \in {owed, "info"} /\ pc' = "syncing"
        BY <3>2 DEF SyncSends, Transmit
      <4> QED BY <2>3, <4>1, Distinct DEF InfosLast
    <3>3. CASE Open \/ SyncNotSent \/ SyncTimesOut \/ SyncGivesUp
      <4>1. replies' = replies /\ owed' = owed /\ pc' # "ready"
        BY <3>3 DEF Open, SyncNotSent, SyncTimesOut, SyncGivesUp
      <4> QED BY <2>3, <4>1 DEF InfosLast
    <3> QED BY <1>2, <3>1, <3>2, <3>3 DEF Sync
  <2>5. Leftovers'
    BY <2>1, <2>3, <2>4 DEF Leftovers
  <2> QED BY <2>1, <2>2, <2>5 DEF AnswerComes, RateWhenReady, AnswerIsOwn
<1>3. CASE AskNotSent \/ AskTimesOut \/ AskGivesUp \/ Fails \/ Unload \/ Sleep
  <2>1. pc' # "asking" /\ rate' = NoRate
    BY <1>3 DEF AskNotSent, AskTimesOut, AskGivesUp, Fails, Unload, Sleep, RateWhenReady
  <2>2. CASE AskTimesOut \/ AskGivesUp
    <3>1. pc' = "unanswered" /\ missed'
      BY <2>2 DEF AskTimesOut, AskGivesUp
    <3> QED BY <2>1, <2>2, <3>1, GivenUp
            DEF Leftovers, AnswerComes, RateWhenReady, AnswerIsOwn
  <2>3. CASE Sleep
    <3>1. pc' = "closed" /\ replies' = <<>>
      BY <2>3 DEF Sleep
    <3>2. InfosLast'
      BY <3>1 DEF InfosLast
    <3> QED BY <2>1, <3>1, <3>2 DEF Leftovers, AnswerComes, RateWhenReady, AnswerIsOwn
  <2>4. CASE AskNotSent \/ Fails \/ Unload
    <3>1. /\ replies' = replies /\ owed' = owed /\ missed' = missed /\ pc # "asking"
          /\ pc' \in {"unanswered", "ready"} => pc \in {"unanswered", "ready"}
          /\ pc' \in {"unanswered", "ready", "closed"}
      BY <2>4 DEF AskNotSent, Fails, Unload
    <3>2. /\ InfosLast' <=> InfosLast
          /\ Answered' <=> Answered
          /\ InfoComes' <=> InfoComes
      BY <3>1 DEF InfosLast, Answered, InfoComes
    <3> QED BY <2>1, <3>1, <3>2 DEF Leftovers, AnswerComes, RateWhenReady, AnswerIsOwn
  <2> QED BY <1>3, <2>2, <2>3, <2>4
<1> QED BY <1>1, <1>2, <1>3 DEF Next, SetAudioParams

(* A command that only met plain answers is not given up.                  *)
LEMMA AskSuffices ==
  ASSUME IInv, AskGivesUp \/ AskTimesOut \/ AskNotSent
  PROVE  disturbed'
<1>1. CASE AskGivesUp
  <2>1. pc = "asking" /\ attempt = REPLY_ATTEMPTS /\ disturbed' = disturbed
    BY <1>1 DEF AskGivesUp
  <2>2. ASSUME ~disturbed PROVE FALSE
    <3>1. PICK n \in Nat : attempt + n <= Room
      BY <2>1, <2>2 DEF IInv, AnswerComes, Ahead
    <3> QED BY <2>1, <3>1, Distinct, AttemptsAssumption
  <2> QED BY <2>1, <2>2
<1>2. CASE AskTimesOut
  <2>1. pc = "asking" /\ replies = <<>> /\ disturbed' = (disturbed \/ owed # Nothing)
    BY <1>2 DEF AskTimesOut, NothingComes
  <2>2. PICK i \in Nat : Own(i)
    BY <2>1 DEF IInv, AnswerComes
  <2>3. owed \in Answers
    BY <2>1, <2>2 DEF Own
  <2> QED BY <2>1, <2>3, Distinct
<1>3. CASE AskNotSent
  BY <1>3 DEF AskNotSent
<1> QED BY <1>1, <1>2, <1>3

(* Sync: an attempt that is not answered aligns a direction.               *)
LEMMA SyncStep ==
  ASSUME IInv, Sync
  PROVE  SyncGains' /\ AttemptsSuffice'
<1>0. ToggleType /\ attempt \in Nat
  BY DEF IInv, AlignedInv, Types
<1>1. CASE SyncSends
  <2>1. /\ Reached' /\ host'.in = host.in /\ firmware'.in = firmware.in
        /\ pc' = "syncing" /\ attempt' = attempt /\ disturbed' = disturbed
    BY <1>0, <1>1, TransmitAligns DEF SyncSends
  <2>2. Taken' <=> Taken
    BY <2>1 DEF Taken
  <2>3. Reached => owed' = "info"
    BY <1>1 DEF SyncSends, Transmit
  <2>4. attempt >= 1 /\ ~disturbed => InfoComes'
    BY <1>1, <2>3 DEF IInv, SyncGains, SyncSends, InfoComes
  <2> QED BY <1>0, <1>1, <2>1, <2>2, <2>4 DEF IInv, SyncGains, AttemptsSuffice, SyncSends
<1>2. CASE SyncReceives
  <2>1. ToggleType' /\ Taken' /\ (Reached' <=> Reached) /\ pc = "syncing"
    BY <1>0, <1>2, FetchAligns DEF SyncReceives
  <2>2. CASE Taken
    BY <1>2, <2>1, <2>2 DEF SyncReceives, IInv, SyncGains, AttemptsSuffice
  <2>3. CASE ~Taken
    BY <1>0, <1>2, <2>1, <2>3 DEF SyncReceives, IInv, SyncGains, AttemptsSuffice
  <2> QED BY <2>2, <2>3
<1>3. CASE SyncTimesOut
  <2>1. /\ pc = "syncing" /\ pc' = "sync" /\ attempt' = attempt + 1
        /\ replies = <<>> /\ disturbed' = (disturbed \/ owed # Nothing)
        /\ (Taken' <=> Taken) /\ (Reached' <=> Reached)
    BY <1>3 DEF SyncTimesOut, NothingComes, Taken, Reached
  <2>2. ASSUME ~disturbed' PROVE ~InfoComes /\ ~disturbed
    <3>1. owed = Nothing /\ ~disturbed
      BY <2>1, <2>2
    <3>2. Len(replies) = 0
      BY <2>1
    <3>3. ~ \E i \in 1..Len(replies) : replies[i] = "info"
      BY <3>2
    <3> QED BY <3>1, <3>3, Distinct DEF InfoComes
  <2>3. ASSUME ~disturbed'
        PROVE  /\ attempt' <= 2 /\ Reached'
               /\ attempt' = 2 => Taken'
    <3>1. ~InfoComes /\ ~disturbed
      BY <2>2, <2>3
    <3>2. /\ attempt <= 2 /\ Reached
          /\ attempt = 1 => Taken
          /\ attempt # 2
      BY <2>1, <3>1 DEF IInv, SyncGains
    <3>3. attempt = 0 \/ attempt = 1
      BY <1>0, <3>2
    <3> QED BY <2>1, <3>2, <3>3
  <2>4. SyncGains'
    BY <2>1, <2>3 DEF SyncGains
  <2> QED BY <2>1, <2>4 DEF AttemptsSuffice
<1>4. CASE SyncGivesUp
  <2>1. pc = "sync" /\ attempt = SYNC_ATTEMPTS /\ disturbed' = disturbed /\ pc' = "failed"
    BY <1>4 DEF SyncGivesUp
  <2>2. disturbed
    BY <1>0, <2>1, Distinct, AttemptsAssumption DEF IInv, SyncGains
  <2> QED BY <2>1, <2>2 DEF SyncGains, AttemptsSuffice
<1>5. CASE SyncNotSent
  BY <1>5 DEF SyncNotSent, SyncGains, AttemptsSuffice
<1> QED BY <1>1, <1>2, <1>3, <1>4, <1>5 DEF Sync

LEMMA GainsStep ==
  ASSUME IInv, [Next]_vars
  PROVE  SyncGains' /\ AttemptsSuffice'
<1>1. CASE Sync
  BY <1>1, SyncStep
<1>2. CASE Answer \/ Report
  <2>1. InfoComes => InfoComes'
    BY <1>2, MessageStep
  <2>2. UNCHANGED <<pc, attempt, host, firmware, disturbed>>
    BY <1>2 DEF Answer, Report
  <2> QED BY <2>1, <2>2 DEF IInv, SyncGains, AttemptsSuffice, Taken, Reached
<1>3. CASE UNCHANGED vars
  BY <1>3 DEF vars, IInv, SyncGains, AttemptsSuffice, Taken, Reached, InfoComes
<1>4. CASE Open
  BY <1>4 DEF Open, SyncGains, AttemptsSuffice
<1>5. CASE AskGivesUp \/ AskTimesOut \/ AskNotSent
  BY <1>5, AskSuffices DEF SyncGains, AttemptsSuffice, IInv
<1>6. CASE AskReceives
  <2>1. pc' # "unanswered"
    BY <1>6, AskReceivesStep
  <2>2. pc' \in {"asking", "ready"}
    BY <1>6 DEF AskReceives
  <2> QED BY <2>1, <2>2 DEF SyncGains, AttemptsSuffice
<1>7. CASE Fails \/ Unload \/ Sleep \/ \E r \in Rates : Ask(r)
  <2>1. pc' \in {"ready", "closed", "asking"}
    BY <1>7 DEF Fails, Unload, Sleep, Ask
  <2> QED BY <2>1 DEF SyncGains, AttemptsSuffice
<1> QED BY <1>1, <1>2, <1>3, <1>4, <1>5, <1>6, <1>7 DEF Next, SetAudioParams

-----------------------------------------------------------------------------
(* Invariance                                                              *)

LEMMA InvariantInit == Init => IInv
<1> SUFFICES ASSUME Init PROVE IInv
  OBVIOUS
<1>1. Types
  BY Distinct DEF Init, Types
<1> QED BY <1>1, AlignedInit
        DEF Init, IInv, AnswerComes, Leftovers, InfosLast, RateWhenReady, AnswerIsOwn, SyncGains,
            AttemptsSuffice

LEMMA InvariantStep == IInv /\ [Next]_vars => IInv'
<1> SUFFICES ASSUME IInv, [Next]_vars PROVE IInv'
  OBVIOUS
<1>1. AlignedInv' /\ Types'
  BY AlignedStep, TypesStep DEF IInv
<1>2. SyncGains' /\ AttemptsSuffice'
  BY GainsStep
<1>3. AnswerComes' /\ Leftovers' /\ RateWhenReady' /\ AnswerIsOwn'
  <2>1. CASE Answer \/ Report
    <3>1. RateWhenReady'
      BY <2>1 DEF Answer, Report, IInv, RateWhenReady
    <3> QED BY <2>1, <3>1, MessageStep
  <2>2. CASE AskReceives
    BY <2>2, AskReceivesStep
  <2>3. CASE \E r \in Rates : Ask(r)
    BY <2>3, AskStep
  <2> QED BY <2>1, <2>2, <2>3, OtherStep
<1> QED BY <1>1, <1>2, <1>3 DEF IInv

LEMMA Invariance == Spec => []IInv
  BY InvariantInit, InvariantStep, PTL DEF Spec

(* Until a command is given up before its answer has come, a rate that     *)
(* set_audio_params reports as set is the card's; and again from the next  *)
(* sync on, whatever answers that sync finds.                              *)
THEOREM AnswersAreOwn == Spec => []AnswerIsOwn
<1>1. IInv => AnswerIsOwn
  BY DEF IInv
<1> QED BY <1>1, Invariance, PTL

(* Three attempts align the toggles of a card that only answers, and       *)
(* REPLY_ATTEMPTS find the answer among as many messages as the firmware   *)
(* holds.                                                                  *)
THEOREM AttemptsAreEnough == Spec => []AttemptsSuffice
<1>1. IInv => AttemptsSuffice
  BY DEF IInv
<1> QED BY <1>1, Invariance, PTL

-----------------------------------------------------------------------------
(* The packets: samples                                                    *)

LEMMA Division ==
  ASSUME NEW a \in Int, NEW n \in Nat \ {0}
  PROVE  /\ a \div n \in Int /\ a % n \in 0..(n - 1)
         /\ a = n * (a \div n) + (a % n)
  OBVIOUS

(* A sample of 24 bits is the one its three bytes are read as              *)
(* (mode2.rs:98-105).                                                      *)
THEOREM SamplesSurvive ==
  ASSUME NEW x \in Samples
  PROVE  to_be24(x) \in Bytes \X Bytes \X Bytes /\ from_be24(to_be24(x)) = x
<1> DEFINE b == to_be24(x)
           high == x \div 256
           top == high \div 256
<1>1. /\ x \in Int /\ high \in Int /\ top \in Int
      /\ x = 256 * high + (x % 256) /\ x % 256 \in Bytes
      /\ high = 256 * top + (high % 256) /\ high % 256 \in Bytes
  BY Division DEF Samples, Bytes
<1>2. x \div (256 * 256) = top
  BY <1>1, SMTT(20) DEF Bytes
<1>3. top \in -128..127
  BY <1>2 DEF Samples
<1>4. b = <<top % 256, high % 256, x % 256>>
  BY <1>2 DEF to_be24
<1> HIDE DEF b, high, top
<1>5. top % 256 \in Bytes /\ Signed(top % 256) = top
  BY <1>3, SMTT(20) DEF Signed, Bytes
<1>6. from_be24(b) = 256 * (256 * top + (high % 256)) + (x % 256)
  BY <1>4, <1>5 DEF from_be24
<1>7. from_be24(b) = x
  BY <1>1, <1>6
<1> QED BY <1>1, <1>4, <1>5, <1>7 DEF b

-----------------------------------------------------------------------------
(* Playback                                                                *)

Tails == [Streams -> Bytes \X Bytes]

(* Where the bytes of a block lie.                                         *)
Place(block, stream, k) == 8 * block + 2 * k + stream

LEMMA Places ==
  ASSUME NEW block \in Int, NEW stream \in Streams, NEW k \in 0..3
  PROVE  /\ Place(block, stream, k) \in Int
         /\ Place(block, stream, k) \div 8 = block
         /\ Place(block, stream, k) % 2 = stream
         /\ (Place(block, stream, k) % 8) \div 2 = k
<1> DEFINE n == Place(block, stream, k)
<1>1. n \in Int /\ n = 8 * block + 2 * k + stream /\ stream \in 0..1
  BY DEF Place, Streams
<1> HIDE DEF n
<1>2. n \div 8 = block /\ n % 8 = 2 * k + stream
  BY <1>1, SMTT(20)
<1>3. n % 2 = stream
  BY <1>1, SMTT(20)
<1>4. (2 * k + stream) \div 2 = k
  BY <1>1, SMTT(20)
<1> QED BY <1>1, <1>2, <1>3, <1>4 DEF n

LEMMA BlockBytes ==
  ASSUME NEW tail, NEW frames \in Seq(Frames), NEW block \in 0..(2 * Len(frames) - 1),
         NEW stream \in Streams, NEW k \in 0..3
  PROVE  encode(tail, frames).packet[8 * block + 2 * k + stream + 1]
           = PlaybackByte(tail, frames, block, stream, k)
<1> DEFINE n == Place(block, stream, k)
<1>1. n + 1 \in 1..(16 * Len(frames)) /\ n \in Int /\ (n + 1) - 1 = n /\ block \in Int
      /\ n + 1 = 8 * block + 2 * k + stream + 1
  BY DEF Streams, Place
<1>2. n \div 8 = block /\ n % 2 = stream /\ (n % 8) \div 2 = k
  BY <1>1, Places
<1> HIDE DEF n
<1>3. encode(tail, frames).packet[n + 1]
        = PlaybackByte(tail, frames, n \div 8, n % 2, (n % 8) \div 2)
  BY <1>1 DEF encode
<1> QED BY <1>1, <1>2, <1>3

LEMMA BegunBytes ==
  ASSUME NEW frames \in Seq(Frames), NEW block \in 0..(2 * Len(frames) - 1), NEW stream \in Streams
  PROVE  /\ frames[block \div 2 + 1][2 * stream + (block % 2)] \in Samples
         /\ Begun(frames, block, stream) \in Bytes \X Bytes \X Bytes
<1>1. block \div 2 + 1 \in 1..Len(frames) /\ block % 2 \in 0..1
  BY SMTT(20)
<1>2. 2 * stream + (block % 2) \in Channels
  BY <1>1 DEF Streams, Channels
<1>3. frames[block \div 2 + 1] \in Frames
  BY <1>1
<1>4. frames[block \div 2 + 1][2 * stream + (block % 2)] \in Samples
  BY <1>2, <1>3 DEF Frames
<1> QED BY <1>4, SamplesSurvive DEF Begun

(* The card hears each sample as it was rendered, from two blocks in a row *)
(* (mode2.rs:9-12).                                                        *)
THEOREM EncodedIsHeard ==
  ASSUME NEW tail, NEW frames \in Seq(Frames), NEW block \in 0..(2 * Len(frames) - 2),
         NEW stream \in Streams
  PROVE  Heard(encode(tail, frames).packet, block, stream)
           = frames[block \div 2 + 1][2 * stream + (block % 2)]
<1> DEFINE p == encode(tail, frames).packet
           b == Begun(frames, block, stream)
<1>1. block \in 0..(2 * Len(frames) - 1) /\ block + 1 \in 0..(2 * Len(frames) - 1)
      /\ block + 1 # 0 /\ (block + 1) - 1 = block /\ stream \in 0..1
  BY DEF Streams
<1>2. p[8 * block + 2 * 3 + stream + 1] = b[1]
  BY <1>1, BlockBytes DEF PlaybackByte
<1>9. Ended(tail, frames, block + 1, stream) = <<b[2], b[3]>>
  BY <1>1 DEF Ended
<1>3. p[8 * (block + 1) + 2 * 0 + stream + 1] = b[2]
  <2> DEFINE next == block + 1
  <2>0. next \in 0..(2 * Len(frames) - 1) /\ 0 \in 0..3
    BY <1>1
  <2> HIDE DEF next, p
  <2>1. p[8 * next + 2 * 0 + stream + 1] = PlaybackByte(tail, frames, next, stream, 0)
    BY <2>0, BlockBytes DEF p
  <2> USE DEF next
  <2> QED BY <1>9, <2>1 DEF PlaybackByte
<1>4. p[8 * (block + 1) + 2 * 1 + stream + 1] = b[3]
  <2> DEFINE next == block + 1
  <2>0. next \in 0..(2 * Len(frames) - 1) /\ 1 \in 0..3
    BY <1>1
  <2> HIDE DEF next, p
  <2>1. p[8 * next + 2 * 1 + stream + 1] = PlaybackByte(tail, frames, next, stream, 1)
    BY <2>0, BlockBytes DEF p
  <2> USE DEF next
  <2> QED BY <1>9, <2>1 DEF PlaybackByte
<1>5. b \in Bytes \X Bytes \X Bytes
      /\ from_be24(b) = frames[block \div 2 + 1][2 * stream + (block % 2)]
  BY <1>1, BegunBytes, SamplesSurvive DEF Begun
<1>6. b = <<b[1], b[2], b[3]>>
  BY <1>5
<1> HIDE DEF p, b
<1>7. /\ 8 * block + 2 * 3 + stream + 1 = 8 * block + 6 + stream + 1
      /\ 8 * (block + 1) + 2 * 0 + stream + 1 = 8 * block + 8 + stream + 1
      /\ 8 * (block + 1) + 2 * 1 + stream + 1 = 8 * block + 10 + stream + 1
  BY <1>1
<1>8. Heard(p, block, stream) = from_be24(<<b[1], b[2], b[3]>>)
  BY <1>2, <1>3, <1>4, <1>7 DEF Heard
<1> QED BY <1>5, <1>6, <1>8 DEF p

(* Splitting frames into packets                                           *)

LEMMA Joined ==
  ASSUME NEW S, NEW f \in Seq(S), NEW g \in Seq(S)
  PROVE  /\ f \o g \in Seq(S) /\ Len(f \o g) = Len(f) + Len(g)
         /\ \A i \in 1..Len(f) : (f \o g)[i] = f[i]
         /\ \A i \in 1..Len(g) : (f \o g)[i + Len(f)] = g[i]
  OBVIOUS

LEMMA SecondOfJoined ==
  ASSUME NEW S, NEW f \in Seq(S), NEW g \in Seq(S), NEW i \in 1..Len(g)
  PROVE  (f \o g)[i + Len(f)] = g[i]
  OBVIOUS

LEMMA BegunJoined ==
  ASSUME NEW f \in Seq(Frames), NEW g \in Seq(Frames), NEW stream \in Streams
  PROVE  /\ \A block \in 0..(2 * Len(f) - 1) :
              Begun(f \o g, block, stream) = Begun(f, block, stream)
         /\ \A block \in 0..(2 * Len(g) - 1) :
              Begun(f \o g, block + 2 * Len(f), stream) = Begun(g, block, stream)
<1>1. ASSUME NEW block \in 0..(2 * Len(f) - 1)
      PROVE  Begun(f \o g, block, stream) = Begun(f, block, stream)
  <2>1. block \div 2 + 1 \in 1..Len(f)
    BY SMTT(20)
  <2>2. (f \o g)[block \div 2 + 1] = f[block \div 2 + 1]
    BY <2>1, Joined
  <2> QED BY <2>2 DEF Begun
<1>2. ASSUME NEW block \in 0..(2 * Len(g) - 1)
      PROVE  Begun(f \o g, block + 2 * Len(f), stream) = Begun(g, block, stream)
  <2> DEFINE n == block \div 2 + 1
  <2>1. n \in 1..Len(g)
    BY SMTT(20)
  <2>2. (block + 2 * Len(f)) \div 2 + 1 = n + Len(f) /\ (block + 2 * Len(f)) % 2 = block % 2
    BY SMTT(20)
  <2> HIDE DEF n
  <2>3. (f \o g)[n + Len(f)] = g[n]
    BY <2>1, Joined
  <2> QED BY <2>2, <2>3 DEF Begun, n
<1> QED BY <1>1, <1>2

LEMMA EndedJoined ==
  ASSUME NEW tail, NEW f \in Seq(Frames), NEW g \in Seq(Frames), NEW stream \in Streams
  PROVE  /\ \A block \in 0..(2 * Len(f)) :
              Ended(tail, f \o g, block, stream) = Ended(tail, f, block, stream)
         /\ \A block \in 0..(2 * Len(g)) :
              Ended(tail, f \o g, block + 2 * Len(f), stream)
                = Ended(encode(tail, f).tail, g, block, stream)
<1>1. ASSUME NEW block \in 0..(2 * Len(f))
      PROVE  Ended(tail, f \o g, block, stream) = Ended(tail, f, block, stream)
  <2>1. CASE block = 0
    BY <2>1 DEF Ended
  <2>2. CASE block # 0
    <3>1. block - 1 \in 0..(2 * Len(f) - 1)
      BY <2>2
    <3>2. Begun(f \o g, block - 1, stream) = Begun(f, block - 1, stream)
      BY <3>1, BegunJoined
    <3> QED BY <2>2, <3>2 DEF Ended
  <2> QED BY <2>1, <2>2
<1>2. ASSUME NEW block \in 0..(2 * Len(g))
      PROVE  Ended(tail, f \o g, block + 2 * Len(f), stream)
               = Ended(encode(tail, f).tail, g, block, stream)
  <2>1. CASE block = 0
    <3>1. encode(tail, f).tail[stream] = Ended(tail, f, 2 * Len(f), stream)
      BY DEF encode
    <3>2. 2 * Len(f) \in 0..(2 * Len(f)) /\ block + 2 * Len(f) = 2 * Len(f)
      BY <2>1
    <3>3. Ended(tail, f \o g, 2 * Len(f), stream) = Ended(tail, f, 2 * Len(f), stream)
      BY <1>1, <3>2
    <3>4. Ended(encode(tail, f).tail, g, block, stream) = encode(tail, f).tail[stream]
      BY <2>1 DEF Ended
    <3> QED BY <3>1, <3>2, <3>3, <3>4
  <2>2. CASE block # 0
    <3>1. block - 1 \in 0..(2 * Len(g) - 1) /\ block + 2 * Len(f) # 0
          /\ (block + 2 * Len(f)) - 1 = (block - 1) + 2 * Len(f)
      BY <2>2
    <3>2. Begun(f \o g, (block - 1) + 2 * Len(f), stream) = Begun(g, block - 1, stream)
      BY <3>1, BegunJoined
    <3> QED BY <2>2, <3>1, <3>2 DEF Ended
  <2> QED BY <2>1, <2>2
<1> QED BY <1>1, <1>2

LEMMA PacketsAreBytes ==
  ASSUME NEW tail \in Tails, NEW frames \in Seq(Frames)
  PROVE  /\ encode(tail, frames).packet \in Seq(Bytes)
         /\ Len(encode(tail, frames).packet) = 16 * Len(frames)
<1> DEFINE L == 16 * Len(frames)
           Byte(n) == PlaybackByte(tail, frames, (n - 1) \div 8, (n - 1) % 2, ((n - 1) % 8) \div 2)
<1>1. encode(tail, frames).packet = [n \in 1..L |-> Byte(n)] /\ L \in Nat
  BY DEF encode
<1>2. ASSUME NEW n \in 1..L PROVE Byte(n) \in Bytes
  <2> DEFINE block == (n - 1) \div 8
             stream == (n - 1) % 2
             k == ((n - 1) % 8) \div 2
  <2>1. block \in 0..(2 * Len(frames) - 1)
    BY SMTT(20)
  <2>2. stream \in Streams
    BY SMTT(20) DEF Streams
  <2>3. k \in 0..3
    BY SMTT(20)
  <2> HIDE DEF block, stream, k
  <2>4. Begun(frames, block, stream) \in Bytes \X Bytes \X Bytes
    BY <2>1, <2>2, BegunBytes
  <2>5. Ended(tail, frames, block, stream) \in Bytes \X Bytes
    <3>1. CASE block = 0
      BY <2>2, <3>1 DEF Ended, Tails
    <3>2. CASE block # 0
      <4>1. block - 1 \in 0..(2 * Len(frames) - 1)
        BY <2>1, <3>2
      <4>2. Begun(frames, block - 1, stream) \in Bytes \X Bytes \X Bytes
        BY <2>2, <4>1, BegunBytes
      <4> QED BY <3>2, <4>2 DEF Ended
    <3> QED BY <3>1, <3>2
  <2>6. check_byte(stream, block) \in Bytes
    BY <2>2 DEF check_byte, Streams, Bytes
  <2>7. PlaybackByte(tail, frames, block, stream, k) \in Bytes
    BY <2>3, <2>4, <2>5, <2>6 DEF PlaybackByte
  <2> QED BY <2>7 DEF block, stream, k
<1> HIDE DEF L, Byte
<1> QED BY <1>1, <1>2 DEF L

LEMMA TailsAreTails ==
  ASSUME NEW tail \in Tails, NEW frames \in Seq(Frames)
  PROVE  encode(tail, frames).tail \in Tails
<1> SUFFICES ASSUME NEW stream \in Streams
             PROVE  Ended(tail, frames, 2 * Len(frames), stream) \in Bytes \X Bytes
  BY DEF encode, Tails
<1>1. CASE Len(frames) = 0
  BY <1>1 DEF Ended, Tails
<1>2. CASE Len(frames) # 0
  <2>1. 2 * Len(frames) - 1 \in 0..(2 * Len(frames) - 1) /\ 2 * Len(frames) # 0
    BY <1>2
  <2>2. Begun(frames, 2 * Len(frames) - 1, stream) \in Bytes \X Bytes \X Bytes
    BY <2>1, BegunBytes
  <2> QED BY <2>1, <2>2 DEF Ended
<1> QED BY <1>1, <1>2

(* The bytes of a packet do not depend on how the frames before it were    *)
(* put into packets: those of frames f and then g are the bytes of f       *)
(* followed by those of g, with the tail carried in between, and the       *)
(* parity of the check bytes, which restarts (mode2.rs:67-92).             *)
THEOREM PacketsJoin ==
  ASSUME NEW tail \in Tails, NEW f \in Seq(Frames), NEW g \in Seq(Frames)
  PROVE  /\ encode(tail, f \o g).packet
              = encode(tail, f).packet \o encode(encode(tail, f).tail, g).packet
         /\ encode(tail, f \o g).tail = encode(encode(tail, f).tail, g).tail
<1> DEFINE later == encode(tail, f).tail
           p == encode(tail, f).packet
           q == encode(later, g).packet
           whole == encode(tail, f \o g).packet
<1>0. f \o g \in Seq(Frames) /\ Len(f \o g) = Len(f) + Len(g) /\ later \in Tails
  BY Joined, TailsAreTails
<1>1. p \in Seq(Bytes) /\ Len(p) = 16 * Len(f)
  BY PacketsAreBytes
<1>2. q \in Seq(Bytes) /\ Len(q) = 16 * Len(g)
  BY <1>0, PacketsAreBytes
<1>3. whole \in Seq(Bytes) /\ Len(whole) = 16 * Len(f) + 16 * Len(g)
  <2>1. whole \in Seq(Bytes) /\ Len(whole) = 16 * Len(f \o g)
    BY <1>0, PacketsAreBytes
  <2> QED BY <1>0, <2>1
<1>4. ASSUME NEW n \in 1..(16 * Len(f))
      PROVE  whole[n] = p[n]
  <2> DEFINE block == (n - 1) \div 8
             stream == (n - 1) % 2
             k == ((n - 1) % 8) \div 2
  <2>1. block \in 0..(2 * Len(f) - 1)
    BY SMTT(20)
  <2>2. stream \in Streams
    BY SMTT(20) DEF Streams
  <2>3. whole[n] = PlaybackByte(tail, f \o g, block, stream, k)
    BY <1>0 DEF encode
  <2>4. p[n] = PlaybackByte(tail, f, block, stream, k)
    BY DEF encode
  <2> HIDE DEF block, stream, k, whole, p
  <2> HIDE DEF later, q
  <2>5. Begun(f \o g, block, stream) = Begun(f, block, stream)
    BY <2>1, <2>2, BegunJoined
  <2>6. Ended(tail, f \o g, block, stream) = Ended(tail, f, block, stream)
    <3>1. block \in 0..(2 * Len(f))
      BY <2>1
    <3> QED BY <2>2, <3>1, EndedJoined
  <2> QED BY <2>3, <2>4, <2>5, <2>6 DEF PlaybackByte
<1>5. ASSUME NEW n \in 1..(16 * Len(g))
      PROVE  whole[n + 16 * Len(f)] = q[n]
  <2> DEFINE block == (n - 1) \div 8
             stream == (n - 1) % 2
             k == ((n - 1) % 8) \div 2
             m == n + 16 * Len(f)
  <2>1. block \in 0..(2 * Len(g) - 1)
    BY SMTT(20)
  <2>2. stream \in Streams
    BY SMTT(20) DEF Streams
  <2>3. m \in 1..(16 * Len(f \o g))
    BY <1>0
  <2>4. (m - 1) \div 8 = block + 2 * Len(f)
    BY SMTT(20)
  <2>5. (m - 1) % 2 = stream /\ ((m - 1) % 8) \div 2 = k
    <3>1. (m - 1) % 2 = stream
      BY SMTT(20)
    <3>2. (m - 1) % 8 = (n - 1) % 8
      BY SMTT(20)
    <3> QED BY <3>1, <3>2
  <2> HIDE DEF m
  <2>6. whole[m] = PlaybackByte(tail, f \o g, (m - 1) \div 8, (m - 1) % 2, ((m - 1) % 8) \div 2)
    BY <2>3 DEF encode
  <2>7. q[n] = PlaybackByte(later, g, block, stream, k)
    BY DEF encode
  <2> HIDE DEF block, stream, k, whole, q
  <2>8. /\ Begun(f \o g, block + 2 * Len(f), stream) = Begun(g, block, stream)
        /\ Ended(tail, f \o g, block + 2 * Len(f), stream) = Ended(later, g, block, stream)
    BY <2>1, <2>2, BegunJoined, EndedJoined
  <2>9. check_byte(stream, block + 2 * Len(f)) = check_byte(stream, block)
    <3>1. (block + 2 * Len(f)) % 2 = block % 2
      BY <2>1, SMTT(20)
    <3> QED BY <3>1 DEF check_byte
  <2>10. whole[m] = PlaybackByte(tail, f \o g, block + 2 * Len(f), stream, k)
    BY <2>4, <2>5, <2>6
  <2>11. whole[m] = q[n]
    BY <2>7, <2>8, <2>9, <2>10 DEF PlaybackByte
  <2> QED BY <2>11 DEF m
<1>6. whole = p \o q
  <2> HIDE DEF whole, p, q, later
  <2>1. p \o q \in Seq(Bytes) /\ Len(p \o q) = 16 * Len(f) + 16 * Len(g)
    BY <1>1, <1>2, Joined
  <2>2. ASSUME NEW n \in 1..(16 * Len(f) + 16 * Len(g))
        PROVE  whole[n] = (p \o q)[n]
    <3>1. CASE n <= 16 * Len(f)
      <4>1. n \in 1..(16 * Len(f)) /\ n \in 1..Len(p)
        BY <1>1, <3>1
      <4>2. (p \o q)[n] = p[n]
        BY <1>1, <1>2, <4>1, Joined
      <4> QED BY <1>4, <4>1, <4>2
    <3>2. CASE n > 16 * Len(f)
      <4> DEFINE i == n - 16 * Len(f)
      <4>1. i \in 1..(16 * Len(g)) /\ n = i + 16 * Len(f)
        BY <3>2
      <4> HIDE DEF i
      <4>2. whole[n] = q[i]
        BY <1>5, <4>1
      <4>3. (p \o q)[n] = q[i]
        <5>1. i \in 1..Len(q) /\ n = i + Len(p)
          BY <1>1, <1>2, <4>1
        <5>2. (p \o q)[i + Len(p)] = q[i]
          <6>1. p \in Seq(Bytes) /\ q \in Seq(Bytes) /\ i \in 1..Len(q)
            BY <1>1, <1>2, <5>1
          <6> QED BY <6>1, SecondOfJoined
        <5>3. n = i + Len(p)
          BY <5>1
        <5> QED BY <5>2, <5>3, Zenon
      <4> QED BY <4>2, <4>3
    <3>3. n <= 16 * Len(f) \/ n > 16 * Len(f)
      OBVIOUS
    <3> QED BY <3>1, <3>2, <3>3
  <2> QED BY <1>3, <2>1, <2>2
<1>7. encode(tail, f \o g).tail = encode(later, g).tail
  <2>1. ASSUME NEW stream \in Streams
        PROVE  Ended(tail, f \o g, 2 * Len(f \o g), stream) = Ended(later, g, 2 * Len(g), stream)
    <3>1. 2 * Len(g) \in 0..(2 * Len(g)) /\ 2 * Len(f \o g) = 2 * Len(g) + 2 * Len(f)
      BY <1>0
    <3> QED BY <3>1, EndedJoined
  <2> QED BY <2>1 DEF encode
<1> QED BY <1>6, <1>7

-----------------------------------------------------------------------------
(* Capture                                                                 *)

LEMMA SentSamples ==
  ASSUME NEW frames \in Seq(Frames), NEW block \in 0..(2 * Len(frames) - 1), NEW stream \in Streams
  PROVE  SentSample(frames, block, stream) \in Samples
<1>1. block \div 2 + 1 \in 1..Len(frames) /\ block % 2 \in 0..1
  BY SMTT(20)
<1>2. 2 * stream + 1 - (block % 2) \in Channels
  BY <1>1 DEF Streams, Channels
<1>3. frames[block \div 2 + 1] \in Frames
  BY <1>1
<1> QED BY <1>2, <1>3 DEF SentSample, Frames

LEMMA CapturedBytes ==
  ASSUME NEW frames \in Seq(Frames), NEW rejects \in BOOLEAN
  PROVE  /\ Captured(frames, rejects) \in Seq(Int)
         /\ Len(Captured(frames, rejects)) = 16 * Len(frames)
         /\ \A block \in 0..(2 * Len(frames) - 1), stream \in Streams, k \in 0..3 :
              CaptureByte(Captured(frames, rejects), block, stream, k)
                = SentByte(frames, rejects, block, stream, k)
<1> DEFINE L == 16 * Len(frames)
           Byte(n) == SentByte(frames, rejects, (n - 1) \div 8, (n - 1) % 2, ((n - 1) % 8) \div 2)
           packet == Captured(frames, rejects)
<1>1. packet = [n \in 1..L |-> Byte(n)] /\ L \in Nat
  BY DEF Captured
<1>2. ASSUME NEW n \in 1..L PROVE Byte(n) \in Int
  <2> DEFINE block == (n - 1) \div 8
             stream == (n - 1) % 2
             k == ((n - 1) % 8) \div 2
  <2>1. block \in 0..(2 * Len(frames) - 1)
    BY SMTT(20)
  <2>2. stream \in Streams
    BY SMTT(20) DEF Streams
  <2>3. k \in 0..3
    BY SMTT(20)
  <2> HIDE DEF block, stream, k
  <2>4. SentSample(frames, block, stream) \in Samples
    BY <2>1, <2>2, SentSamples
  <2>5. to_be24(SentSample(frames, block, stream)) \in Bytes \X Bytes \X Bytes
    BY <2>4, SamplesSurvive
  <2>6. check_byte(stream, block) \in Int
    BY <2>2 DEF check_byte, Streams
  <2>7. SentByte(frames, rejects, block, stream, k) \in Int
    <3>1. CASE k = 0
      BY <2>6, <3>1 DEF SentByte
    <3>2. CASE k # 0
      <4>1. k \in {1, 2, 3}
        BY <2>3, <3>2
      <4>2. to_be24(SentSample(frames, block, stream))[k] \in Bytes
        BY <2>5, <4>1
      <4>3. SentByte(frames, rejects, block, stream, k)
              = to_be24(SentSample(frames, block, stream))[k]
        BY <3>2 DEF SentByte
      <4>4. \A x \in Bytes : x \in Int
        BY DEF Bytes
      <4> QED BY <4>2, <4>3, <4>4
    <3> QED BY <3>1, <3>2
  <2> QED BY <2>7 DEF block, stream, k
<1>3. packet \in Seq(Int) /\ Len(packet) = L
  <2> HIDE DEF L, Byte, packet
  <2> QED BY <1>1, <1>2
<1>4. ASSUME NEW block \in 0..(2 * Len(frames) - 1), NEW stream \in Streams, NEW k \in 0..3
      PROVE  CaptureByte(packet, block, stream, k) = SentByte(frames, rejects, block, stream, k)
  <2> DEFINE n == Place(block, stream, k)
  <2>1. n + 1 \in 1..L /\ n \in Int /\ (n + 1) - 1 = n /\ block \in Int
        /\ n + 1 = 8 * block + 2 * k + stream + 1
    BY DEF Streams, Place
  <2>2. n \div 8 = block /\ n % 2 = stream /\ (n % 8) \div 2 = k
    BY <2>1, Places
  <2> HIDE DEF n, packet, L
  <2>3. packet[n + 1] = SentByte(frames, rejects, n \div 8, n % 2, (n % 8) \div 2)
    BY <1>1, <2>1
  <2> QED BY <2>1, <2>2, <2>3 DEF CaptureByte
<1> QED BY <1>3, <1>4

(* A packet of the card is decoded to the frames in it, without check      *)
(* errors, and shows whether the card rejects playback (mode2.rs:43-65).   *)
THEOREM CapturedIsRead ==
  ASSUME NEW frames \in Seq(Frames), NEW rejects \in BOOLEAN
  PROVE  decode_capture(Captured(frames, rejects)) =
           [frames |-> frames, check_errors |-> 0,
            output_rejected |-> rejects /\ Len(frames) > 0]
<1> DEFINE packet == Captured(frames, rejects)
           checks == (0..(2 * Len(frames) - 1)) \X Streams
           check(c) == CaptureByte(packet, c[1], c[2], 0)
           decoded == [i \in 1..Len(frames) |->
                         [c \in Channels |-> CaptureSample(packet, 2 * i - 1 - (c % 2), c \div 2)]]
<1>1. Len(packet) \div 16 = Len(frames)
  <2>1. Len(packet) = 16 * Len(frames) /\ Len(frames) \in Nat
    BY CapturedBytes
  <2> HIDE DEF packet
  <2> QED BY <2>1, SMTT(20)
<1>2. decode_capture(packet) =
        [frames |-> decoded,
         check_errors |-> Cardinality({c \in checks : check(c) % 64 # check_byte(c[2], c[1])}),
         output_rejected |-> \E c \in checks : check(c) >= 128]
  BY <1>1 DEF decode_capture
<1>3. ASSUME NEW block \in 0..(2 * Len(frames) - 1), NEW stream \in Streams
      PROVE  /\ CaptureSample(packet, block, stream) = SentSample(frames, block, stream)
             /\ CaptureByte(packet, block, stream, 0)
                  = check_byte(stream, block) + (IF rejects THEN 128 ELSE 0)
  <2> DEFINE b == to_be24(SentSample(frames, block, stream))
  <2>1. b \in Bytes \X Bytes \X Bytes /\ from_be24(b) = SentSample(frames, block, stream)
    BY SentSamples, SamplesSurvive
  <2>2. \A k \in 0..3 : CaptureByte(packet, block, stream, k)
                          = SentByte(frames, rejects, block, stream, k)
    BY CapturedBytes
  <2> HIDE DEF packet
  <2>3. /\ CaptureByte(packet, block, stream, 1) = b[1]
        /\ CaptureByte(packet, block, stream, 2) = b[2]
        /\ CaptureByte(packet, block, stream, 3) = b[3]
        /\ CaptureByte(packet, block, stream, 0)
             = check_byte(stream, block) + (IF rejects THEN 128 ELSE 0)
    BY <2>2 DEF SentByte
  <2> HIDE DEF b
  <2>4. b = <<b[1], b[2], b[3]>>
    BY <2>1
  <2> QED BY <2>1, <2>3, <2>4 DEF CaptureSample
<1>4. decoded = frames
  <2>1. ASSUME NEW i \in 1..Len(frames)
        PROVE  decoded[i] = frames[i]
    <3>1. frames[i] \in [Channels -> Samples]
      BY DEF Frames
    <3>2. ASSUME NEW c \in Channels
          PROVE  CaptureSample(packet, 2 * i - 1 - (c % 2), c \div 2) = frames[i][c]
      <4> DEFINE block == 2 * i - 1 - (c % 2)
                 stream == c \div 2
      <4>1. c \in {0, 1, 2, 3}
        BY DEF Channels
      <4>2. /\ block \in 0..(2 * Len(frames) - 1) /\ stream \in Streams
            /\ block \div 2 + 1 = i /\ 2 * stream + 1 - (block % 2) = c
        BY <4>1, SMTT(20) DEF Streams
      <4> HIDE DEF block, stream, packet
      <4>3. CaptureSample(packet, block, stream) = SentSample(frames, block, stream)
        BY <1>3, <4>2
      <4>4. SentSample(frames, block, stream) = frames[i][c]
        BY <4>2 DEF SentSample
      <4> QED BY <4>3, <4>4 DEF block, stream
    <3> HIDE DEF packet
    <3> QED BY <3>1, <3>2
  <2>2. decoded = [i \in 1..Len(frames) |-> decoded[i]]
    OBVIOUS
  <2> HIDE DEF decoded
  <2>3. frames = [i \in 1..Len(frames) |-> frames[i]]
    OBVIOUS
  <2> QED BY <2>1, <2>2, <2>3
<1>5. ASSUME NEW c \in checks
      PROVE  check(c) = check_byte(c[2], c[1]) + (IF rejects THEN 128 ELSE 0)
  BY <1>3
<1>6. ASSUME NEW c \in checks
      PROVE  check_byte(c[2], c[1]) \in 0..3
  BY DEF check_byte, Streams
<1>7. ASSUME NEW c \in checks
      PROVE  check(c) % 64 = check_byte(c[2], c[1])
  <2> DEFINE byte == check_byte(c[2], c[1])
             flag == IF rejects THEN 128 ELSE 0
  <2>1. byte \in 0..3 /\ check(c) = byte + flag
    BY <1>5, <1>6
  <2>2. flag \in {0, 128}
    OBVIOUS
  <2> HIDE DEF byte, check, flag
  <2>3. (byte + flag) % 64 = byte
    BY <2>1, <2>2, SMTT(20)
  <2>4. check(c) % 64 = byte
    BY <2>1, <2>3
  <2> QED BY <2>4 DEF byte
<1>8. Cardinality({c \in checks : check(c) % 64 # check_byte(c[2], c[1])}) = 0
  <2> HIDE DEF check, checks
  <2>1. {c \in checks : check(c) % 64 # check_byte(c[2], c[1])} = {}
    BY <1>7
  <2> QED BY <2>1, FS_EmptySet
<1>9. (\E c \in checks : check(c) >= 128) <=> rejects /\ Len(frames) > 0
  <2>1. CASE rejects /\ Len(frames) > 0
    <3>1. <<0, 0>> \in checks
      BY <2>1 DEF Streams
    <3> HIDE DEF check, checks
    <3>2. check(<<0, 0>>) >= 128
      BY <1>5, <1>6, <2>1, <3>1
    <3> QED BY <2>1, <3>1, <3>2
  <2>2. CASE ~rejects
    <3> HIDE DEF check, checks
    <3> QED BY <1>5, <1>6, <2>2
  <2>3. CASE Len(frames) = 0
    <3>1. checks = {}
      BY <2>3
    <3> HIDE DEF check, checks
    <3> QED BY <2>3, <3>1
  <2> QED BY <2>1, <2>2, <2>3
<1> QED
  <2> HIDE DEF check, checks, decoded
  <2> QED BY <1>2, <1>4, <1>8, <1>9

-----------------------------------------------------------------------------
(* Lost packets                                                            *)

LEMMA Seconds == MICROFRAMES_PER_SECOND \in Nat \ {0} /\ MAX_FRAMES_PER_PACKET = 32
BY SMTT(20) DEF MICROFRAMES_PER_SECOND, MAX_FRAMES_PER_PACKET

LEMMA Quotients ==
  ASSUME NEW n \in Nat \ {0}, NEW limit \in Nat, NEW q \in Int, NEW r \in 0..(n - 1),
         n * q + r >= 0, n * q + r <= limit * n + (n - 1)
  PROVE  q \in 0..limit
<1>1. ASSUME q < 0
      PROVE  n * q <= -n
  <2> DEFINE d == -q - 1
  <2>1. d \in Nat /\ n * d >= 0
    BY <1>1
  <2>2. n * q = -n - n * d
    OBVIOUS
  <2> QED BY <2>1, <2>2
<1>2. ASSUME q > limit
      PROVE  n * q >= limit * n + n
  <2> DEFINE d == q - limit - 1
  <2>1. d \in Nat /\ n * d >= 0
    BY <1>2
  <2>2. n * q = limit * n + n + n * d
    OBVIOUS
  <2> QED BY <2>1, <2>2
<1>3. ~(q < 0)
  BY <1>1
<1>4. ~(q > limit)
  BY <1>2
<1> QED BY <1>3, <1>4

(* What a lost packet leaves over is carried to the next one, so no frame  *)
(* is gained or lost over any number of them, and the frames of one fit a  *)
(* packet at every rate of the card (stream.rs:103-108).                   *)
THEOREM LostKeepPace ==
  ASSUME NEW rate_hz \in 0..(24 * MICROFRAMES_PER_SECOND),
         NEW remainder \in 0..(MICROFRAMES_PER_SECOND - 1)
  PROVE  LET lost == nominal_frames(remainder, rate_hz)
         IN  /\ MICROFRAMES_PER_SECOND * lost.frames + lost.remainder = remainder + rate_hz
             /\ lost.remainder \in 0..(MICROFRAMES_PER_SECOND - 1)
             /\ lost.frames \in 0..MAX_FRAMES_PER_PACKET
<1> DEFINE total == remainder + rate_hz
           frames == total \div MICROFRAMES_PER_SECOND
           rest == total % MICROFRAMES_PER_SECOND
<1>1. total \in Int /\ total >= 0 /\ total <= 24 * MICROFRAMES_PER_SECOND
                                                 + (MICROFRAMES_PER_SECOND - 1)
  BY Seconds
<1>2. nominal_frames(remainder, rate_hz) = [frames |-> frames, remainder |-> rest]
  BY DEF nominal_frames
<1> HIDE DEF total
<1>3. /\ frames \in Int /\ rest \in 0..(MICROFRAMES_PER_SECOND - 1)
      /\ total = MICROFRAMES_PER_SECOND * frames + rest
  BY <1>1, Seconds, Division
<1> HIDE DEF frames, rest
<1>4. frames \in 0..24
  BY <1>1, <1>3, Seconds, Quotients
<1>5. frames \in 0..MAX_FRAMES_PER_PACKET
  BY <1>4, Seconds
<1>6. total = remainder + rate_hz
  BY DEF total
<1> QED BY <1>2, <1>3, <1>5, <1>6
=============================================================================
