---------------------------- MODULE ReadService ----------------------------
(***************************************************************************)
(* What the phone may rely on when it sends one SCSI_READ request to the   *)
(* box: it gets a header and then the data in order, never more than it    *)
(* has asked for, or one header that says no and nothing else. The box     *)
(* takes a read for done only when all of it was sent; one that breaks off *)
(* leaves the phone with the beginning of the answer.                      *)
(***************************************************************************)
EXTENDS Naturals, Sequences

CONSTANTS HeadOk, HeadErr    \* the headers of an answer

VARIABLES
  want,     \* cells of data the current request asks for
  stream,   \* what the phone has been sent of the answer
  end       \* "none" while the request is served, then "ok", "refused" or "broken"

sVars == <<want, stream, end>>

(* The first n cells of the answer; data cells are numbered from 0. *)
Answer(n) == [i \in 1..n |-> IF i = 1 THEN HeadOk ELSE i - 2]

SInit == want = 0 /\ stream = <<>> /\ end = "broken"

Request ==
  /\ end # "none"
  /\ want' \in Nat
  /\ stream' = <<>>
  /\ end' = "none"

(* The answer goes on where it stands. *)
Deliver ==
  /\ end = "none" /\ stream # <<HeadErr>>
  /\ \E n \in (Len(stream) + 1)..(want + 1) : stream' = Answer(n)
  /\ UNCHANGED <<want, end>>

Refuse ==
  /\ end = "none" /\ stream = <<>>
  /\ stream' = <<HeadErr>>
  /\ UNCHANGED <<want, end>>

Finish ==
  /\ end = "none"
  /\ \/ end' = "ok" /\ stream = Answer(want + 1)
     \/ end' = "refused" /\ stream = <<HeadErr>>
     \/ end' = "broken"
  /\ UNCHANGED <<want, stream>>

SNext == Request \/ Deliver \/ Refuse \/ Finish

SSpec == SInit /\ [][SNext]_sVars
=============================================================================
