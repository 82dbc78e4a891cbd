---------------------------- MODULE WriteService ----------------------------
(***************************************************************************)
(* What the phone may rely on when it sends one SCSI_WRITE request to the  *)
(* box: sectors reach the disk from the first one on, in order; the        *)
(* answer "ok" is given only once the whole request is on the disk; a      *)
(* request that fails leaves a prefix of it there.                         *)
(***************************************************************************)
EXTENDS Naturals

CONSTANT MaxSectors    \* longest request, in sectors

VARIABLES
  want,     \* sectors the current request asks to write
  stored,   \* how many of them, counted from the first, are on the disk
  answer    \* "none" while the request is served, then "ok" or "error"

sVars == <<want, stored, answer>>

SInit ==
  /\ want = 0
  /\ stored = 0
  /\ answer = "error"

(* The phone issues a request; its first packet may already fill sectors. *)
Request ==
  /\ answer # "none"
  /\ want' \in 0..MaxSectors
  /\ stored' \in 0..want'
  /\ answer' \in {"none", "error"}

(* Some more sectors reach the disk, or a write fails. *)
Store ==
  /\ answer = "none"
  /\ stored' \in stored..want
  /\ answer' \in {"none", "error"}
  /\ UNCHANGED want

(* The request is acknowledged, or its acknowledgement is lost. *)
Answer ==
  /\ answer = "none"
  /\ stored = want
  /\ answer' \in {"ok", "error"}
  /\ UNCHANGED <<want, stored>>

SNext == Request \/ Store \/ Answer

SSpec == SInit /\ [][SNext]_sVars
=============================================================================
