------------------------------ MODULE UsbCommand ----------------------------
(***************************************************************************)
(* The commands of the card (driver/ak1-acx/src/usb.rs): sync, which       *)
(* repeats a query until the toggles of both command endpoints agree with  *)
(* the firmware's, and set_audio_params, which sets the rate and looks for *)
(* the answer among other messages.                                        *)
(*                                                                         *)
(* USB bulk transfers carry a toggle. A transfer with the toggle of the    *)
(* one before is taken for its repetition: it is acknowledged and dropped. *)
(* SET_INTERFACE resets the host's toggles but not this firmware's.        *)
(***************************************************************************)
EXTENDS Integers, Sequences

CONSTANTS
  Rates,
  NoRate,
  Nothing,
  SYNC_ATTEMPTS,
  REPLY_ATTEMPTS,
  Room,       \* messages the firmware holds for the host
  Slow        \* commands the firmware may answer after their timeout

ASSUME UsbCommandAssumption ==
  /\ NoRate \notin Rates /\ Nothing \notin {"accepted", "rejected", "info"}
  /\ SYNC_ATTEMPTS \in Nat /\ REPLY_ATTEMPTS \in Nat /\ Room \in Nat
  /\ Slow \subseteq {"info", "rate"}

(* One attempt for a transfer that is dropped in each direction, and one   *)
(* that is answered; set_audio_params looks further than the firmware      *)
(* holds messages (that it holds so few is external).                      *)
ASSUME AttemptsAssumption == SYNC_ATTEMPTS >= 3 /\ REPLY_ATTEMPTS > Room

VARIABLES
  pc,        \* what the driver is doing
  attempt,   \* the loop counter of sync or set_audio_params
  wanted,    \* the rate set_audio_params asks for
  rate,      \* the rate it last reported as set, NoRate after a failure
  host,      \* the host's next toggles
  firmware,  \* the firmware's
  owed,      \* what the firmware is going to answer
  replies,   \* messages the host has not fetched
  card,      \* the rate of the card
  \* history
  disturbed, \* this sync or command met anything but plain answers
  missed     \* a command since the last sync was given up before its answer came

vars == <<pc, attempt, wanted, rate, host, firmware, owed, replies, card, disturbed, missed>>

Toggles == [out : 0..1, in : 0..1]
Answers == {"accepted", "rejected"}

Messages == Answers \cup {"info", "report"}

(* The card was left by another session, at either toggle.                 *)
Init ==
  /\ pc = "closed"
  /\ attempt = 0
  /\ wanted = NoRate /\ rate = NoRate /\ card = NoRate
  /\ host = [out |-> 0, in |-> 0]
  /\ firmware \in Toggles
  /\ owed = Nothing /\ replies = <<>>
  /\ disturbed = FALSE /\ missed = FALSE

-----------------------------------------------------------------------------
(* The host reaches the firmware only if their toggles agree.              *)
Reached == host.out = firmware.out

(* One OUT transfer: acknowledged in any case, so the host's toggle flips; *)
(* the firmware is going to answer with m what it has not dropped. It      *)
(* takes no command before it has answered the last.                       *)
Transmit(m) ==
  /\ owed = Nothing
  /\ host' = [host EXCEPT !.out = 1 - @]
  /\ IF Reached
       THEN firmware' = [firmware EXCEPT !.out = 1 - @] /\ owed' = m
       ELSE UNCHANGED <<firmware, owed>>
  /\ UNCHANGED replies

(* One IN transfer: the firmware's toggle flips in any case.               *)
Fetch ==
  /\ replies # <<>>
  /\ replies' = Tail(replies)
  /\ firmware' = [firmware EXCEPT !.in = 1 - @]
  /\ UNCHANGED owed

Taken == host.in = firmware.in

(* The answer a command waits for may be late.                             *)
NothingComes(command) ==
  replies = <<>> /\ (owed = Nothing \/ command \in Slow)

(* Mutant: no sync.                                                        *)
Open_WithoutSync ==
  /\ pc = "closed"
  /\ host' = [out |-> 0, in |-> 0]
  /\ pc' = "ready"
  /\ attempt' = 0
  /\ disturbed' = FALSE /\ missed' = FALSE
  /\ UNCHANGED <<wanted, rate, firmware, owed, replies, card>>

(* open or restore: SET_INTERFACE; sync begins.                            *)
Open ==
  /\ pc = "closed"
  /\ host' = [out |-> 0, in |-> 0]
  /\ pc' = "sync"
  /\ attempt' = 0
  /\ disturbed' = FALSE /\ missed' = FALSE
  /\ UNCHANGED <<wanted, rate, firmware, owed, replies, card>>

SyncSends ==
  /\ pc = "sync" /\ attempt < SYNC_ATTEMPTS
  /\ Transmit("info")
  /\ pc' = "syncing"
  /\ UNCHANGED <<attempt, wanted, rate, card, disturbed, missed>>

(* The firmware is still busy with the last command: the transfer fails.   *)
SyncNotSent ==
  /\ pc = "sync" /\ attempt < SYNC_ATTEMPTS /\ owed # Nothing
  /\ pc' = "failed"
  /\ disturbed' = TRUE
  /\ UNCHANGED <<attempt, wanted, rate, host, firmware, owed, replies, card, missed>>

(* Mutant: two attempts, one for each direction.                           *)
SyncGivesUp_AfterTwo ==
  /\ pc = "sync" /\ attempt = 2
  /\ pc' = "failed"
  /\ UNCHANGED <<attempt, wanted, rate, host, firmware, owed, replies, card, disturbed, missed>>

SyncGivesUp ==
  /\ pc = "sync" /\ attempt = SYNC_ATTEMPTS
  /\ pc' = "failed"
  /\ UNCHANGED <<attempt, wanted, rate, host, firmware, owed, replies, card, disturbed, missed>>

(* Mutant: any message ends sync.                                          *)
SyncReceives_Any ==
  /\ pc = "syncing" /\ Fetch
  /\ IF Taken
       THEN host' = [host EXCEPT !.in = 1 - @] /\ pc' = "ready"
       ELSE UNCHANGED <<pc, host>>
  /\ UNCHANGED <<attempt, wanted, rate, card, disturbed, missed>>

(* A message comes while sync waits: the answer ends it, any other one     *)
(* uses up the attempt. A dropped one leaves it waiting.                   *)
SyncReceives ==
  /\ pc = "syncing" /\ Fetch
  /\ IF Taken
       THEN /\ host' = [host EXCEPT !.in = 1 - @]
            /\ IF Head(replies) = "info"
                 THEN pc' = "ready" /\ UNCHANGED <<attempt, disturbed>>
                 ELSE pc' = "sync" /\ attempt' = attempt + 1 /\ disturbed' = TRUE
       ELSE UNCHANGED <<pc, attempt, host, disturbed>>
  /\ UNCHANGED <<wanted, rate, card, missed>>

(* None comes in time.                                                     *)
SyncTimesOut ==
  /\ pc = "syncing"
  /\ NothingComes("info")
  /\ pc' = "sync"
  /\ attempt' = attempt + 1
  /\ disturbed' = (disturbed \/ owed # Nothing)
  /\ UNCHANGED <<wanted, rate, host, firmware, owed, replies, card, missed>>

(* set_audio_params of r; the card, if the command reaches it, obeys or    *)
(* refuses.                                                                *)
Ask(r) ==
  /\ pc = "ready"
  /\ \E obeys \in BOOLEAN :
       /\ Transmit(IF obeys THEN "accepted" ELSE "rejected")
       /\ card' = IF obeys /\ Reached THEN r ELSE card
  /\ wanted' = r
  /\ rate' = NoRate
  /\ attempt' = 0
  /\ pc' = "asking"
  /\ disturbed' = FALSE
  /\ UNCHANGED missed

(* Mutant: a refusal is taken for success.                                 *)
AskReceives_Any ==
  /\ pc = "asking" /\ attempt < REPLY_ATTEMPTS /\ Fetch
  /\ IF Taken
       THEN /\ host' = [host EXCEPT !.in = 1 - @]
            /\ disturbed' = (disturbed \/ Head(replies) = "report")
            /\ IF Head(replies) \in Answers
                 THEN rate' = wanted /\ pc' = "ready" /\ UNCHANGED attempt
                 ELSE attempt' = attempt + 1 /\ UNCHANGED <<pc, rate>>
       ELSE UNCHANGED <<pc, attempt, rate, host, disturbed>>
  /\ UNCHANGED <<wanted, card, missed>>

(* A message comes: the answer, or one of REPLY_ATTEMPTS others.           *)
AskReceives ==
  /\ pc = "asking" /\ attempt < REPLY_ATTEMPTS /\ Fetch
  /\ IF Taken
       THEN /\ host' = [host EXCEPT !.in = 1 - @]
            /\ disturbed' = (disturbed \/ Head(replies) = "report")
            /\ IF Head(replies) \in Answers
                 THEN /\ rate' = IF Head(replies) = "accepted" THEN wanted ELSE NoRate
                      /\ pc' = "ready" /\ UNCHANGED attempt
                 ELSE attempt' = attempt + 1 /\ UNCHANGED <<pc, rate>>
       ELSE UNCHANGED <<pc, attempt, rate, host, disturbed>>
  /\ UNCHANGED <<wanted, card, missed>>

(* Mutant: the first message decides.                                      *)
AskGivesUp_AtOnce ==
  /\ pc = "asking" /\ attempt = 1
  /\ pc' = "unanswered"
  /\ missed' = TRUE
  /\ UNCHANGED <<attempt, wanted, rate, host, firmware, owed, replies, card, disturbed>>

AskGivesUp ==
  /\ pc = "asking" /\ attempt = REPLY_ATTEMPTS
  /\ pc' = "unanswered"
  /\ missed' = TRUE
  /\ UNCHANGED <<attempt, wanted, rate, host, firmware, owed, replies, card, disturbed>>

(* No message comes for COMMAND_TIMEOUT_MS; or the command is not taken.   *)
AskTimesOut ==
  /\ pc = "asking" /\ attempt < REPLY_ATTEMPTS
  /\ NothingComes("rate")
  /\ pc' = "unanswered"
  /\ missed' = TRUE
  /\ disturbed' = (disturbed \/ owed # Nothing)
  /\ UNCHANGED <<attempt, wanted, rate, host, firmware, owed, replies, card>>

AskNotSent ==
  /\ pc = "ready" /\ owed # Nothing
  /\ rate' = NoRate
  /\ pc' = "unanswered"
  /\ disturbed' = TRUE
  /\ UNCHANGED <<attempt, wanted, host, firmware, owed, replies, card, missed>>

(* set_audio_params fails; the driver goes on, another start may succeed.  *)
Fails ==
  /\ pc = "unanswered"
  /\ pc' = "ready"
  /\ UNCHANGED <<attempt, wanted, rate, host, firmware, owed, replies, card, disturbed, missed>>

(* The driver is unloaded, and the firmware keeps its toggles.             *)
Unload ==
  /\ pc \in {"ready", "failed"}
  /\ pc' = "closed"
  /\ rate' = NoRate
  /\ UNCHANGED <<attempt, wanted, host, firmware, owed, replies, card, disturbed, missed>>

(* The computer slept; restore resets the port first.                      *)
Sleep ==
  /\ pc \in {"ready", "failed"}
  /\ pc' = "closed"
  /\ rate' = NoRate /\ card' = NoRate
  /\ firmware' \in Toggles
  /\ owed' = Nothing /\ replies' = <<>>
  /\ UNCHANGED <<attempt, wanted, host, disturbed, missed>>

(* The firmware answers, in its own time.                                  *)
Answer ==
  /\ owed # Nothing /\ Len(replies) < Room
  /\ replies' = Append(replies, owed)
  /\ owed' = Nothing
  /\ UNCHANGED <<pc, attempt, wanted, rate, host, firmware, card, disturbed, missed>>

(* The firmware sends a report nobody asked for.                           *)
Report ==
  /\ Len(replies) < Room
  /\ replies' = Append(replies, "report")
  /\ UNCHANGED <<pc, attempt, wanted, rate, host, firmware, owed, card, disturbed, missed>>

Sync == SyncSends \/ SyncNotSent \/ SyncReceives \/ SyncTimesOut \/ SyncGivesUp

SetAudioParams ==
  \/ \E r \in Rates : Ask(r)
  \/ AskNotSent \/ AskReceives \/ AskTimesOut \/ AskGivesUp \/ Fails

Next == Open \/ Sync \/ SetAudioParams \/ Unload \/ Sleep \/ Answer \/ Report

Spec == Init /\ [][Next]_vars

-----------------------------------------------------------------------------
(* Properties                                                              *)

TypeOK ==
  /\ pc \in {"closed", "sync", "syncing", "ready", "asking", "unanswered", "failed"}
  /\ attempt \in Nat
  /\ wanted \in Rates \cup {NoRate} /\ rate \in Rates \cup {NoRate}
  /\ card \in Rates \cup {NoRate}
  /\ host \in Toggles /\ firmware \in Toggles
  /\ owed \in Answers \cup {"info", Nothing}
  /\ replies \in Seq(Messages) /\ Len(replies) <= Room
  /\ attempt <= IF pc \in {"sync", "syncing"} THEN SYNC_ATTEMPTS
                ELSE IF REPLY_ATTEMPTS < SYNC_ATTEMPTS THEN SYNC_ATTEMPTS ELSE REPLY_ATTEMPTS
  /\ disturbed \in BOOLEAN /\ missed \in BOOLEAN

(* After sync, no transfer is dropped in either direction (usb.rs:98-101), *)
(* whatever answered it: a message of an earlier session, a late answer or *)
(* the answer.                                                             *)
SyncAligns ==
  pc \in {"ready", "asking", "unanswered"} =>
    Reached /\ Taken

(* The rate the driver reported as set is the card's (stream.rs:117), and  *)
(* sync makes it so whatever late answers it finds: it ends at a message   *)
(* behind all of them. Not so from a timeout to the next sync: the answer  *)
(* that was given up may come later and be taken for the next command's,   *)
(* for nothing in it says which it answers.                                *)
AnswerIsOwn ==
  pc = "ready" /\ rate # NoRate /\ ~missed => card = rate

(* SYNC_ATTEMPTS align any toggles, and REPLY_ATTEMPTS find the answer     *)
(* behind those that came late for sync, unless reports or slow answers    *)
(* use them up: a card that only answers is never given up.                *)
AttemptsSuffice == pc \in {"failed", "unanswered"} => disturbed

=============================================================================
