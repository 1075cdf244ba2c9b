----------------------------- MODULE DeviceClock ----------------------------
(***************************************************************************)
(* What driver/ak1-acx/src/audio.rs:1-5 promises of the card's one clock:  *)
(* an ASIO session sets its rate, otherwise the first stream does, until   *)
(* every stream is gone. The abstract specification Audio is compared to.  *)
(***************************************************************************)
CONSTANTS
  Streams,   \* streams Windows may open
  Rates,     \* sample rates
  NoRate     \* the clock is not set

VARIABLES
  users,     \* the streams there are
  session,   \* "none", "starting" or "on"
  rate       \* the clock's rate

vars == <<users, session, rate>>

Init == users = {} /\ session = "none" /\ rate = NoRate

(* The first stream sets the rate, later ones and those beside a session   *)
(* are resampled.                                                          *)
Come(s, r) ==
  /\ s \notin users
  /\ users' = users \cup {s}
  /\ rate' = IF rate = NoRate THEN r ELSE rate
  /\ UNCHANGED session

(* The rate is forgotten with its last user.                               *)
Go(s) ==
  /\ s \in users
  /\ users' = users \ {s}
  /\ rate' = IF users' = {} /\ session = "none" THEN NoRate ELSE rate
  /\ UNCHANGED session

Start(r) ==
  /\ session = "none"
  /\ session' = "starting"
  /\ rate' = r
  /\ UNCHANGED users

Confirm == session = "starting" /\ session' = "on" /\ UNCHANGED <<users, rate>>

(* A session that cannot start leaves the streams that exist a rate.       *)
Abort ==
  /\ session = "starting"
  /\ session' = "none"
  /\ rate' \in IF users = {} THEN {NoRate} ELSE Rates
  /\ UNCHANGED users

End ==
  /\ session = "on"
  /\ session' = "none"
  /\ rate' = IF users = {} THEN NoRate ELSE rate
  /\ UNCHANGED users

Next ==
  \/ \E s \in Streams, r \in Rates : Come(s, r)
  \/ \E s \in Streams : Go(s)
  \/ \E r \in Rates : Start(r)
  \/ Confirm \/ Abort \/ End

Spec == Init /\ [][Next]_vars

(* The clock is set exactly while something uses it.                       *)
SetWhileUsed == rate = NoRate <=> users = {} /\ session = "none"

=============================================================================
