---------------------------- MODULE WriteRequest ----------------------------
(***************************************************************************)
(* usStorage_diskWRITE: a write request arrives from the phone as a header *)
(* with a first piece of payload, then piece by piece from                 *)
(* usProtocol_RecvPackage. Whole sectors go to the disk at once; the tail  *)
(* that does not fill a sector is carried in the local buffer `sector`     *)
(* until the next piece completes it.                                      *)
(*                                                                         *)
(* A byte of the request is its offset in the payload. Sector numbers are  *)
(* relative to header->addr. `disk` holds what this request has written.   *)
(***************************************************************************)
EXTENDS Integers

CONSTANTS
  SectorSize,   \* USDISK_SECTOR, 512 in the build
  MaxSectors    \* longest request the phone sends, in sectors

ASSUME SectorSizeIsPos == SectorSize \in Nat \ {0}
ASSUME MaxSectorsIsPos == MaxSectors \in Nat \ {0}

Sectors == 0..MaxSectors-1
Cells   == 0..SectorSize-1
NoByte  == -1
Blank   == [c \in Cells |-> NoByte]

VARIABLES
  segmented,  \* the phone has put this request into several iOS packets
  pc,       \* "idle", "recv" (RecvPackage), "rest" (after the carried sector), "send"
  len,      \* header->len
  pos,      \* payload bytes taken from the transport and stored or carried
  pay,      \* paySize: bytes of the current piece not handled yet
  curSize,  \* bytes the loop believes it has handled
  secSize,  \* bytes in the carry buffer
  sector,   \* the carry buffer
  addr,     \* next sector to write
  disk,     \* sectors written by this request
  reply     \* outcome: "none" while it runs, "ok", "error", "lost", "silent"

vars == <<segmented, pc, len, pos, pay, curSize, secSize, sector, addr, disk, reply>>

OP_DIV(x) == x \div SectorSize
OP_MOD(x) == x % SectorSize

(* Variant: the last sector of a run is forgotten. *)
DiskWriteOneLess(d, a, p, k) ==
  [s \in Sectors |->
     IF a <= s /\ s < a + k - 1
     THEN [c \in Cells |-> p + (s - a) * SectorSize + c]
     ELSE d[s]]

(* The disk after k sectors, taken from payload offset p on, are written   *)
(* at addr.                                                                *)
DiskWriteSectors(d, a, p, k) ==
  [s \in Sectors |->
     IF a <= s /\ s < a + k
     THEN [c \in Cells |-> p + (s - a) * SectorSize + c]
     ELSE d[s]]

(* Variants: one byte short; always to the start of the buffer. *)
CopyInOneShort(buf, from, p, n) ==
  [c \in Cells |-> IF from <= c /\ c < from + n - 1 THEN p + (c - from) ELSE buf[c]]
CopyInAtStart(buf, from, p, n) ==
  [c \in Cells |-> IF c < n THEN p + c ELSE buf[c]]

(* memcpy of n payload bytes from offset p into the carry buffer at `from`. *)
CopyIn(buf, from, p, n) ==
  [c \in Cells |-> IF from <= c /\ c < from + n THEN p + (c - from) ELSE buf[c]]

(* Variant: RecvPackage forgets what it has handed out before. *)
PieceUnbounded(n) ==
  /\ n \in 1..len
  /\ segmented \/ OP_MOD(n) = 0 \/ n = len - pos

(***************************************************************************)
(* Pieces RecvPackage may return. Within one packet every piece but the    *)
(* last is a multiple of a sector; packets may end anywhere, so a request  *)
(* split over several of them arrives in pieces of any size.               *)
(***************************************************************************)
Piece(n) ==
  /\ n \in 1..(len - pos)
  /\ segmented \/ OP_MOD(n) = 0 \/ n = len - pos

Init ==
  /\ segmented = FALSE
  /\ pc = "idle"
  /\ len = 0 /\ pos = 0 /\ pay = 0
  /\ curSize = 0 /\ secSize = 0
  /\ sector = Blank
  /\ addr = 0
  /\ disk = [s \in Sectors |-> Blank]
  /\ reply = "silent"

(* Variants: the response code is left at 0; the loop goes on. *)
FailAcked ==
  /\ pc' = "idle"
  /\ reply' = "ok"
FailContinues ==
  /\ pc' = "recv"
  /\ reply' = "none"

(* header->relag = 1; usStorage_sendHEAD; return 1. *)
Fail ==
  /\ pc' = "idle"
  /\ reply' = "error"

(* A request without payload is dropped without an answer. *)
BeginEmpty ==
  /\ pc = "idle"
  /\ segmented' = FALSE
  /\ len' = 0 /\ pos' = 0 /\ pay' = 0
  /\ curSize' = 0 /\ secSize' = 0
  /\ sector' = Blank
  /\ addr' = 0
  /\ disk' = [s \in Sectors |-> Blank]
  /\ reply' = "silent"
  /\ UNCHANGED pc

(* The first piece: n payload bytes came along with the header. *)
Begin(l, n) ==
  /\ pc = "idle"
  /\ segmented' \in BOOLEAN
  /\ len' = l * SectorSize
  /\ pos' = n
  /\ pay' = 0
  /\ secSize' = OP_MOD(n)
  /\ sector' = CopyIn(Blank, 0, OP_DIV(n) * SectorSize, OP_MOD(n))
  /\ \/ /\ addr' = OP_DIV(n)
        /\ curSize' = n - OP_MOD(n)
        /\ disk' = DiskWriteSectors([s \in Sectors |-> Blank], 0, 0, OP_DIV(n))
        /\ pc' = IF curSize' < len' THEN "recv" ELSE "send"
        /\ reply' = "none"
     \/ /\ OP_DIV(n) > 0
        /\ addr' = 0 /\ curSize' = 0
        /\ disk' = [s \in Sectors |-> Blank]
        /\ Fail

(* usProtocol_RecvPackage fails: the phone is gone or the stream is broken. *)
RecvFails ==
  /\ pc = "recv"
  /\ Fail
  /\ UNCHANGED <<segmented, len, pos, pay, curSize, secSize, sector, addr, disk>>

(* The piece does not fill the carried sector. *)
FillShort(n) ==
  /\ pc = "recv"
  /\ Piece(n)
  /\ secSize > 0
  /\ n < SectorSize - secSize
  /\ sector' = CopyIn(sector, secSize, pos, n)
  /\ pos' = pos + n
  /\ curSize' = curSize + n
  /\ secSize' = secSize + n
  /\ pc' = IF curSize' < len THEN "recv" ELSE "send"
  /\ UNCHANGED <<segmented, len, pay, addr, disk, reply>>

(* The piece completes the carried sector, which is written on its own. *)
FillSector(n) ==
  LET fill == SectorSize - secSize IN
  /\ pc = "recv"
  /\ Piece(n)
  /\ secSize > 0
  /\ n >= fill
  /\ sector' = CopyIn(sector, secSize, pos, fill)
  /\ \/ /\ disk' = [disk EXCEPT ![addr] = sector']
        /\ addr' = addr + 1
        /\ curSize' = curSize + SectorSize
        /\ pos' = pos + fill
        /\ pay' = n - fill
        /\ secSize' = 0
        /\ pc' = "rest"
        /\ UNCHANGED reply
     \/ /\ Fail
        /\ UNCHANGED <<disk, addr, curSize, pos, pay, secSize>>
  /\ UNCHANGED <<segmented, len>>

(* Nothing is carried: the whole piece is handled by WriteRest. *)
NoCarry(n) ==
  /\ pc = "recv"
  /\ Piece(n)
  /\ secSize = 0
  /\ pay' = n
  /\ pc' = "rest"
  /\ UNCHANGED <<segmented, len, pos, curSize, secSize, sector, addr, disk, reply>>

(* The sectors the piece still holds are written, its tail is carried. *)
WriteRest ==
  LET secCount == OP_DIV(pay) IN
  /\ pc = "rest"
  /\ secSize' = OP_MOD(pay)
  /\ sector' = CopyIn(sector, 0, pos + secCount * SectorSize, OP_MOD(pay))
  /\ \/ /\ disk' = DiskWriteSectors(disk, addr, pos, secCount)
        /\ addr' = addr + secCount
        /\ curSize' = curSize + secCount * SectorSize
        /\ pos' = pos + pay
        /\ pay' = 0
        /\ pc' = IF curSize' < len THEN "recv" ELSE "send"
        /\ UNCHANGED reply
     \/ /\ secCount > 0
        /\ Fail
        /\ UNCHANGED <<disk, addr, curSize, pos, pay>>
  /\ UNCHANGED <<segmented, len>>

(* Variant: the answer does not wait for the rest of the piece. *)
ReplyEarly ==
  /\ pc \in {"rest", "send"}
  /\ pc' = "idle"
  /\ reply' \in {"ok", "lost"}
  /\ UNCHANGED <<segmented, len, pos, pay, curSize, secSize, sector, addr, disk>>

(* The header goes back with relag = 0; the send itself may fail. *)
Reply ==
  /\ pc = "send"
  /\ pc' = "idle"
  /\ reply' \in {"ok", "lost"}
  /\ UNCHANGED <<segmented, len, pos, pay, curSize, secSize, sector, addr, disk>>

Receive == \E n \in 1..(MaxSectors * SectorSize) :
             FillShort(n) \/ FillSector(n) \/ NoCarry(n)

Next ==
  \/ BeginEmpty
  \/ \E l \in 1..MaxSectors : \E n \in 0..(l * SectorSize) : Begin(l, n)
  \/ RecvFails
  \/ Receive
  \/ WriteRest
  \/ Reply

Spec == Init /\ [][Next]_vars

(***************************************************************************)
(* The phone sends the whole payload it announced, and the task runs: a    *)
(* pending receive returns.                                                *)
(***************************************************************************)
FairSpec == Spec /\ WF_vars(Receive) /\ WF_vars(WriteRest) /\ WF_vars(Reply)

-----------------------------------------------------------------------------
TypeOK ==
  /\ segmented \in BOOLEAN
  /\ pc \in {"idle", "recv", "rest", "send"}
  /\ len \in 0..(MaxSectors * SectorSize)
  /\ pos \in 0..len
  /\ pay \in 0..(len - pos)
  /\ curSize \in Nat
  /\ secSize \in Cells
  /\ sector \in [Cells -> Int]
  /\ addr \in 0..MaxSectors
  /\ disk \in [Sectors -> [Cells -> Int]]
  /\ reply \in {"none", "ok", "error", "lost", "silent"}

(* Every sector below addr holds exactly its own bytes, and no other       *)
(* sector was touched: no byte is misplaced, swapped or written twice over *)
(* another, however the payload was cut into pieces (diskWRITE's addr and  *)
(* its two write calls).                                                   *)
DiskHoldsPrefix ==
  \A s \in Sectors : disk[s] = IF s < addr
                               THEN [c \in Cells |-> s * SectorSize + c]
                               ELSE Blank

(* No byte is lost between the transport and the disk: what was taken from *)
(* the phone is on the disk or in the carry buffer, in order.              *)
NoByteLost ==
  pc \in {"recv", "rest", "send"} =>
    /\ pos = addr * SectorSize + secSize
    /\ \A c \in 0..(secSize - 1) : sector[c] = addr * SectorSize + c

(* The response code 0 means the request is on the disk: an acknowledged   *)
(* write has every sector it announced. The code does not ensure it for a  *)
(* request in several packets (curSize counts some bytes twice).           *)
AckedIsStored == reply = "ok" => addr * SectorSize = len

(* It does ensure it for a request that comes in one packet.               *)
WholeAckedIsStored == ~segmented => AckedIsStored

(* A request under way comes to an end: the loop on curSize < header->len  *)
(* never waits for bytes the phone did not announce.                       *)
Answered == (pc # "idle") ~> (pc = "idle")

-----------------------------------------------------------------------------
(* The write service this handler provides. An acknowledgement of a        *)
(* request in several packets is not one the phone may rely on.            *)
Service == INSTANCE WriteService WITH
  want   <- OP_DIV(len),
  stored <- addr,
  answer <- IF pc # "idle" THEN "none"
            ELSE IF reply = "ok" /\ ~segmented THEN "ok" ELSE "error"

ImplementsService == Service!SSpec
=============================================================================
