--------------------------- MODULE RequestService ---------------------------
(***************************************************************************)
(* What the phone's program may rely on when it sends write requests one   *)
(* after the other. Only the newest one counts: its units are taken from   *)
(* the first one on, none of them twice, whatever the box still has to     *)
(* read of those before. "ok" is the answer to this request, and said once *)
(* all of it was taken. The box may lose count of a request, and end it    *)
(* before: it answers in the same way, but the phone can rely on no more   *)
(* than that its request was begun. A request that has failed may still    *)
(* be taken.                                                               *)
(***************************************************************************)
EXTENDS Naturals

VARIABLES
  id,      \* the newest request
  want,    \* its units
  taken,   \* how many of them, counted from the first, were taken to be written
  answer   \* "none" while the phone waits, then "ok", "unsure" or "failed"

sVars == <<id, want, taken, answer>>

SInit == id = 0 /\ want = 0 /\ taken = 0 /\ answer = "failed"

(* A new request; the phone may have given up waiting for the last one. *)
Ask ==
  /\ id' = id + 1
  /\ want' \in Nat \ {0}
  /\ taken' = 0
  /\ answer' = "none"

(* What the box has answered it has done with. *)
Take ==
  /\ answer \notin {"ok", "unsure"}
  /\ taken' \in (taken + 1)..want
  /\ UNCHANGED <<id, want, answer>>

Acknowledge ==
  /\ answer = "none" /\ taken = want
  /\ answer' = "ok"
  /\ UNCHANGED <<id, want, taken>>

(* An answer after the box has lost count. *)
Miscount ==
  /\ answer = "none" /\ taken > 0
  /\ answer' = "unsure"
  /\ UNCHANGED <<id, want, taken>>

(* An error is answered, or the connection is lost. *)
Fail ==
  /\ answer' = "failed"
  /\ UNCHANGED <<id, want, taken>>

SNext == Ask \/ Take \/ Acknowledge \/ Miscount \/ Fail

SSpec == SInit /\ [][SNext]_sVars
=============================================================================
