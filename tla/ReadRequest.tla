---------------------------- MODULE ReadRequest ----------------------------
(***************************************************************************)
(* usStorage_diskREAD and the iOS transport under it. A request that fits  *)
(* the transport's buffer is read at once and sent as a header and one     *)
(* package (SIGREAD); a longer one is a header and a package per buffer    *)
(* (MULREAD). usProtocol_iosSendPackage cuts a package by the phone's      *)
(* receive window and IOS_MAX_PACKET, and send_big_packet moves each piece *)
(* to the front of the buffer the package itself lies in.                  *)
(*                                                                         *)
(* A cell stands for PRO_HDR bytes. A data cell of the request is its      *)
(* number; sector numbers are relative to header->addr. The phone's TCP    *)
(* holds what the phone's program has not taken yet and answers with its   *)
(* window in units of 2^8 bytes, which are more than a header.             *)
(***************************************************************************)
EXTENDS Integers, Sequences

CONSTANTS
  SectorSize,  \* cells of USDISK_SECTOR
  MaxSectors,  \* longest request, in sectors
  BufSize,     \* max_payload: cells of the transport's buffer
  MaxPacket,   \* IOS_MAX_PACKET
  Magic,       \* IOS_MAGIC_SIZE
  Small,       \* longest piece send_small_packet takes
  Window,      \* receive window of the phone
  WinUnit,     \* what the window is rounded down to
  Wrap,        \* 2^32: the window is a uint32_t
  MaxAcks,     \* acknowledgements queued in the bulk pipe, at most
  MaxFaults    \* disk and USB errors, at most

ASSUME SizesArePos ==
  /\ {SectorSize, MaxSectors, Small, WinUnit, MaxAcks} \subseteq Nat \ {0}
  /\ BufSize \in Nat /\ SectorSize <= BufSize
  /\ Magic \in Nat /\ MaxPacket \in Nat /\ Magic < MaxPacket
  /\ Window \in Nat /\ Window % WinUnit = 0
  /\ Wrap \in Nat /\ Window < Wrap
  /\ MaxFaults \in Nat
ASSUME UnitHoldsHeader == WinUnit > 1 /\ Window > 0

Junk    == -1
HeadOk  == -2   \* a header with relag = 0
HeadErr == -3   \* a header with relag = 1

VARIABLES
  pc,      \* "idle", "read" (usDisk_DiskReadSectors), "loop" and "piece" (iosSendPackage)
  what,    \* what iosSendPackage is sending, see After
  len, rsize, addr,    \* request; part answered; next sector
  buf,     \* the payload part of ib_buf
  size, curSize, win,  \* iosSendPackage: package, part sent, local rx_win
  rx_win,  \* tcpinfo.rx_win
  sent,    \* cells handed to the phone for this request
  result,  \* "none" while it runs, "ok", or what went wrong: "disk", "send"
  headLost,            \* history: SIGREAD's header did not go out
  held,    \* phone: cells its program has not taken
  due,     \* phone: something has happened since its last acknowledgement
  acks,    \* acknowledgements on their way, as windows
  faults

request == <<len, rsize, addr>>
package == <<what, size, curSize, win>>
peer    == <<held, due, acks>>
vars == <<pc, request, buf, package, rx_win, sent, result, headLost, peer, faults>>

Slots == 0..BufSize-1
Least(a, b) == IF a < b THEN a ELSE b
Fault == faults < MaxFaults /\ faults' = faults + 1

OP_DIV(x) == x \div SectorSize
OP_MOD(x) == x % SectorSize

(* diskREAD's choice: MULREAD when header and data exceed the buffer. *)
Multi == BufSize < len + 1

Init ==
  /\ pc = "idle" /\ what = "data"
  /\ len = 0 /\ rsize = 0 /\ addr = 0
  /\ buf = [c \in Slots |-> Junk]
  /\ size = 0 /\ curSize = 0 /\ win = 0
  /\ rx_win = Window
  /\ sent = <<>> /\ result = "none" /\ headLost = FALSE
  /\ held = 0 /\ due = FALSE /\ acks = <<>>
  /\ faults = 0

(* Variant: nothing is sent before the next acknowledgement. *)
OpenWindowShut(w) == 0

(* "may be send header to peer, so we decrease PRO_HDR" *)
OpenWindow(w) == (w + Wrap - 1) % Wrap

SendPackage(n, kind, w) ==
  /\ pc' = "loop"
  /\ what' = kind
  /\ size' = n
  /\ curSize' = 0
  /\ win' = OpenWindow(w)

Finish(r) ==
  /\ pc' = "idle"
  /\ result' = r

-----------------------------------------------------------------------------
(* A request for l sectors. The phone's program has taken the answer to    *)
(* the previous one, and the window comes with the packet.                 *)
Begin(l) ==
  /\ pc = "idle"
  /\ held = 0
  /\ len' = l * SectorSize /\ rsize' = 0 /\ addr' = 0
  /\ rx_win' = Window
  /\ sent' = <<>> /\ result' = "none" /\ headLost' = FALSE
  /\ due' = FALSE /\ acks' = <<>>
  /\ UNCHANGED <<held, faults>>

BeginEmpty ==
  /\ Begin(0)
  /\ SendPackage(1, "errhead", Window)
  /\ UNCHANGED buf

BeginSingle ==
  \E l \in 1..MaxSectors :
    /\ Begin(l)
    /\ ~(BufSize < len' + 1)
    /\ pc' = "read"
    /\ UNCHANGED <<buf, package>>

(* MULREAD puts the header into the transport's buffer and sends it. *)
BeginMulti ==
  \E l \in 1..MaxSectors :
    /\ Begin(l)
    /\ BufSize < len' + 1
    /\ buf' = [buf EXCEPT ![0] = HeadOk]
    /\ SendPackage(1, "mulhead", Window)

(* Variant: whole buffers only. *)
AvsizeWhole == IF Multi THEN SectorSize * OP_DIV(BufSize) ELSE len

(* Cells of the next package: avsize, or all of a request that fits. *)
Avsize == IF Multi THEN Least(SectorSize * OP_DIV(BufSize), len - rsize) ELSE len

ReadInto(b, a, n) ==
  [c \in Slots |-> IF c < n THEN a * SectorSize + c ELSE b[c]]

(* Variant: SIGREAD's header goes through the transport's buffer. *)
ReadDoneHeadInBuffer ==
  /\ pc = "read"
  /\ IF Multi
     THEN /\ buf' = ReadInto(buf, addr, OP_DIV(Avsize) * SectorSize)
          /\ SendPackage(Avsize, "muldata", rx_win)
     ELSE /\ buf' = [ReadInto(buf, addr, len) EXCEPT ![0] = HeadOk]
          /\ SendPackage(1, "head", rx_win)
  /\ UNCHANGED <<request, rx_win, sent, result, headLost, peer, faults>>

ReadDone ==
  /\ pc = "read"
  /\ IF Multi
     THEN /\ buf' = ReadInto(buf, addr, OP_DIV(Avsize) * SectorSize)
          /\ SendPackage(Avsize, "muldata", rx_win)
     ELSE /\ buf' = ReadInto(buf, addr, len)
          /\ SendPackage(1, "head", rx_win)
  /\ UNCHANGED <<request, rx_win, sent, result, headLost, peer, faults>>

(* Variant: SIGREAD returns as MULREAD does. *)
ReadFailsSilently ==
  /\ pc = "read"
  /\ Fault
  /\ Finish("disk")
  /\ UNCHANGED <<request, buf, package, rx_win, sent, headLost, peer>>

(* SIGREAD answers with relag = 1; MULREAD just returns. *)
ReadFails ==
  /\ pc = "read"
  /\ Fault
  /\ IF Multi
     THEN Finish("disk") /\ UNCHANGED package
     ELSE SendPackage(1, "errhead", rx_win) /\ UNCHANGED result
  /\ UNCHANGED <<request, buf, rx_win, sent, headLost, peer>>

-----------------------------------------------------------------------------
(* Variant: the window is not looked at. *)
PieceAnyWindow ==
  IF size - curSize >= MaxPacket THEN MaxPacket - Magic ELSE size - curSize

(* sndSize *)
Piece == Least(IF size - curSize >= MaxPacket THEN MaxPacket - Magic ELSE size - curSize,
               win)

Sending == curSize < size /\ (pc = "piece" \/ (pc = "loop" /\ win # 0))

(* A header of its own lies on the stack; everything else in ib_buf. *)
Source(c) ==
  CASE what = "errhead" -> HeadErr
    [] what = "head"    -> HeadOk
    [] OTHER            -> buf[c]

(* send_big_packet: memcpy to the front, unless the piece is there. Source *)
(* and target may overlap; the copy runs upwards.                          *)
MoveUp(b, from, n) ==
  IF n <= Small \/ what \in {"head", "errhead"} THEN b
  ELSE [c \in Slots |-> IF c < n THEN b[from + c] ELSE b[c]]

SendPiece ==
  /\ Sending
  /\ Piece # 0
  /\ sent' = sent \o [i \in 1..Piece |-> Source(curSize + i - 1)]
  /\ buf' = MoveUp(buf, curSize, Piece)
  /\ curSize' = curSize + Piece
  /\ win' = win - Piece
  /\ held' = held + Piece
  /\ due' = TRUE
  /\ pc' = "loop"
  /\ UNCHANGED <<request, what, size, rx_win, result, headLost, acks, faults>>

(* The package is given up. SIGREAD does not look at what became of its    *)
(* header; it goes on with the data.                                       *)
GiveUp ==
  /\ IF what = "head"
     THEN /\ SendPackage(len, "data", rx_win)
          /\ headLost' = TRUE
          /\ UNCHANGED result
     ELSE /\ Finish("send")
          /\ UNCHANGED <<package, headLost>>
  /\ UNCHANGED <<request, buf, rx_win, sent, peer>>

(* sndSize = 0 % IOS_MAGIC_LIMIT = 0: a piece of -IOS_MAGIC_SIZE bytes,    *)
(* which send_small_packet turns down.                                     *)
ZeroWindow ==
  /\ pc = "piece"
  /\ win = 0
  /\ GiveUp
  /\ UNCHANGED faults

SendFails ==
  /\ Sending
  /\ Fault
  /\ GiveUp

(* receive_ack takes the next packet of the pipe, however old it is. *)
WaitAck ==
  /\ pc = "loop" /\ curSize < size /\ win = 0
  /\ acks # <<>>
  /\ rx_win' = Head(acks)
  /\ win' = Head(acks)
  /\ acks' = Tail(acks)
  /\ pc' = "piece"
  /\ UNCHANGED <<request, buf, what, size, curSize, sent, result, headLost,
                 held, due, faults>>

(* It was something else than an acknowledgement, or the wait failed: the  *)
(* old window is taken for a new one.                                      *)
WaitFails ==
  /\ pc = "loop" /\ curSize < size /\ win = 0
  /\ Fault
  /\ win' = rx_win
  /\ pc' = "piece"
  /\ UNCHANGED <<request, buf, what, size, curSize, rx_win, sent, result, headLost, peer>>

-----------------------------------------------------------------------------
Sent == pc = "loop" /\ curSize = size

HeadSent ==
  /\ Sent /\ what = "head"
  /\ SendPackage(len, "data", rx_win)
  /\ UNCHANGED <<request, buf, rx_win, sent, result, headLost, peer, faults>>

SingleSent ==
  /\ Sent /\ what \in {"data", "errhead"}
  /\ Finish(IF what = "data" THEN "ok" ELSE "disk")
  /\ UNCHANGED <<request, buf, package, rx_win, sent, headLost, peer, faults>>

(* MULREAD: while(rsize < header->len) *)
MultiSent ==
  /\ Sent /\ what \in {"mulhead", "muldata"}
  /\ IF what = "mulhead"
     THEN UNCHANGED <<rsize, addr>>
     ELSE rsize' = rsize + size /\ addr' = addr + OP_DIV(size)
  /\ IF rsize' < len
     THEN pc' = "read" /\ UNCHANGED result
     ELSE Finish("ok")
  /\ UNCHANGED <<len, buf, package, rx_win, sent, headLost, peer, faults>>

-----------------------------------------------------------------------------
(* The phone: its program takes data, its TCP acknowledges. *)
Drain ==
  /\ held > 0
  /\ held' \in 0..(held - 1)
  /\ due' = TRUE
  /\ UNCHANGED <<pc, request, buf, package, rx_win, sent, result, headLost, acks, faults>>

Advertised ==
  LET free == IF held < Window THEN Window - held ELSE 0 IN free - (free % WinUnit)

Acknowledge ==
  /\ due
  /\ Len(acks) < MaxAcks
  /\ acks' = Append(acks, Advertised)
  /\ due' = FALSE
  /\ UNCHANGED <<pc, request, buf, package, rx_win, sent, result, headLost, held, faults>>

Box == \/ ReadDone \/ ReadFails
       \/ SendPiece \/ ZeroWindow \/ SendFails \/ WaitAck \/ WaitFails
       \/ HeadSent \/ SingleSent \/ MultiSent

Next == BeginEmpty \/ BeginSingle \/ BeginMulti \/ Box \/ Drain \/ Acknowledge

Spec == Init /\ [][Next]_vars

(* The phone task runs, and the phone's TCP answers what it is sent.       *)
FairSpec == Spec /\ WF_vars(Box) /\ WF_vars(Acknowledge)

-----------------------------------------------------------------------------
TypeOK ==
  /\ pc \in {"idle", "read", "loop", "piece"}
  /\ what \in {"head", "data", "errhead", "mulhead", "muldata"}
  /\ len \in 0..(MaxSectors * SectorSize) /\ rsize \in 0..len /\ addr \in 0..MaxSectors
  /\ buf \in [Slots -> Int]
  /\ size \in 0..BufSize /\ curSize \in 0..size /\ win \in 0..(Wrap - 1)
  /\ rx_win \in 0..Window
  /\ sent \in Seq(Int)
  /\ result \in {"none", "ok", "disk", "send"}
  /\ headLost \in BOOLEAN /\ due \in BOOLEAN
  /\ held \in Nat
  /\ acks \in Seq(0..Window)
  /\ faults \in 0..MaxFaults

(* What the phone gets is the header and then the sectors asked for, in    *)
(* order and without a gap, however the window cuts the packages and       *)
(* although each piece is moved over the buffer the rest still lies in;    *)
(* unless the one send whose result SIGREAD ignores has failed.            *)
StreamInOrder ==
  \/ headLost
  \/ sent \in {<<>>, <<HeadErr>>}
  \/ sent[1] = HeadOk /\ \A i \in 2..Len(sent) : sent[i] = i - 2

(* What the phone got fits the end of the read. One that ends well has     *)
(* sent every cell that was asked for, once. SIGREAD promises data only    *)
(* when it has them: one that ends with a disk error has sent an error     *)
(* header and nothing else. (MULREAD has promised the data before it reads *)
(* them.)                                                                  *)
EndFitsAnswer ==
  pc = "idle" =>
    /\ (result = "ok" /\ ~headLost) => Len(sent) = len + 1
    /\ (result = "disk" /\ ~Multi) => sent = <<HeadErr>>

(* The handler implements the read service: it sends what is next of the   *)
(* answer and nothing beyond its end, an error header only by itself, and  *)
(* says "ok" only of a whole answer. A read whose header SIGREAD has lost  *)
(* is broken from then on: the data that still follow are no part of an    *)
(* answer. MULREAD's disk error breaks the answer it has begun.            *)
Shown == IF headLost THEN <<>> ELSE sent
Ended ==
  IF headLost THEN "broken"
  ELSE IF pc # "idle" THEN "none"
  ELSE IF result = "ok" THEN "ok"
  ELSE IF result = "disk" /\ ~Multi THEN "refused"
  ELSE "broken"
Service == INSTANCE ReadService WITH want <- len, stream <- Shown, end <- Ended
ImplementsService == Service!SSpec

(* A read comes to an end: iosSendPackage waits for an acknowledgement     *)
(* only where the phone has something to acknowledge.                      *)
ReadEnds == (pc # "idle") ~> (pc = "idle")
=============================================================================
