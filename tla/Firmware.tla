------------------------------ MODULE Firmware ------------------------------
(***************************************************************************)
(* The firmware update: usStorage_firmwareUP cuts the UPDATE_DATA request  *)
(* into buffers, wirteToFlash into writes of at most WRITE_FLASH_SIZE, and *)
(* fw_upgrade erases and programs the SPI flash through two static         *)
(* variables, `flag` and `flash_addr`, that outlive the request.           *)
(* UPDATE_END checks the MD5 of what is in the flash and programs the      *)
(* system record that makes the boot loader take the new image.            *)
(*                                                                         *)
(* The flash is an array of cells (a cell stands for a page). Addresses    *)
(* are relative to FLASH_UPGRADE_IMAGE. Power may go at any point.         *)
(***************************************************************************)
EXTENDS Integers

CONSTANTS
  Images,       \* firmware versions; each is a positive number
  ImageSize,    \* cells of an image: header and body
  Region,       \* cells between FLASH_UPGRADE_IMAGE and FLASH_OTHER_DATA
  SubSize,      \* cells of an erase sub-block
  WriteSize,    \* cells of WRITE_FLASH_SIZE
  Lengths,      \* lengths of the UPDATE_DATA requests the phone sends
  Cells,        \* cells of the flash from FLASH_UPGRADE_IMAGE to its end
  MaxFaults     \* broken transfers, failed writes and power cuts, at most

ASSUME ImagesArePos == Images \subseteq Nat \ {0}
ASSUME SizesArePos ==
  /\ ImageSize \in Nat \ {0}
  /\ SubSize \in Nat \ {0}
  /\ WriteSize \in Nat \ {0}
  /\ Region \in Nat
  /\ Cells \in Nat
  /\ MaxFaults \in Nat
  /\ Lengths \subseteq Nat \ {0}
ASSUME RegionHoldsImage == ImageSize <= Region /\ Region <= Cells

VARIABLES
  flash,      \* contents of the cells
  sys,        \* image_info.flag in FLASH_SYS_DATA: TRUE once programmed
  flag,       \* fw_upgrade's static: a transfer is open
  flash_addr, \* fw_upgrade's static: where the next write goes
  loopBytes,  \* spi_rw_info.loopBytes is known: init_spi_info has run to its end
  pc,         \* where the task stands
  img, len,   \* the request: image sent, header length
  cur,        \* curSize: cells of the request already in the flash
  piece,      \* paySize: cells of the buffer being written
  last,       \* end flag computed for this buffer
  off,        \* cells of the buffer already written
  done,       \* cells programmed by the current spi_write
  reply,      \* relag of the last answer
  base,       \* history: flash_addr when the request came
  badWrite,   \* history: some page could not be programmed
  ignored,    \* history: some failure went unnoticed, see EraseFails, OpenFails
  faults      \* faults so far

req == <<img, len, cur, piece, last, off, done>>
hist == <<base, badWrite, ignored>>
vars == <<flash, sys, flag, flash_addr, loopBytes, pc, req, reply, hist, faults>>

Address == 0..Cells-1
Blank   == <<0, 0>>                  \* an erased cell
Mixed   == <<0, 1>>                  \* programmed twice without an erase
Other   == <<0, 2>>                  \* FLASH_OTHER_DATA before any update
Content(v, i) == <<v, i>>            \* cell i of image v (its padding beyond the end)

SubBlockFromAddr(a) == a \div SubSize
Aligned(a) == a % SubSize = 0

(* Variants: every write is a whole WRITE_FLASH_SIZE; the last write of a  *)
(* buffer that is a multiple of it is not seen as the last one.            *)
ChunkWhole == WriteSize
EndFlagMissed == last /\ piece - off < WriteSize

(* Size of the write in progress, and fw_upgrade's end_flag for it. *)
Chunk   == IF piece - off > WriteSize THEN WriteSize ELSE piece - off
EndFlag == last /\ piece - off <= WriteSize

(* Variants: the sub-block flash_addr lies in is erased, or never is. *)
FirstErasedHere == SubBlockFromAddr(flash_addr)
FirstErasedNext == SubBlockFromAddr(flash_addr) + 1

(* The first sub-block that starts at or after flash_addr. *)
FirstErased == SubBlockFromAddr(flash_addr) + (IF Aligned(flash_addr) THEN 0 ELSE 1)

(* upgradeFirmware's MD5 check over what the flash holds. *)
Holds(f, v)  == \A i \in 0..ImageSize-1 : f[i] = Content(v, i)
Verified(f)  == \E v \in Images : Holds(f, v)

Fault == faults < MaxFaults /\ faults' = faults + 1

Init ==
  /\ flash = [a \in Address |-> IF a < Region THEN Blank ELSE Other]
  /\ sys = FALSE
  /\ flag = FALSE /\ flash_addr = 0 /\ loopBytes = FALSE
  /\ pc = "idle"
  /\ img = 0 /\ len = 0 /\ cur = 0 /\ piece = 0 /\ last = FALSE
  /\ off = 0 /\ done = 0
  /\ reply = "none"
  /\ base = 0 /\ badWrite = FALSE /\ ignored = FALSE
  /\ faults = 0

Answer(r) ==
  /\ pc' = "idle"
  /\ reply' = r

(* UPDATE_DATA: the header with the first n cells of payload. *)
Data(v, l, n) ==
  /\ pc = "idle"
  /\ flash_addr + l < Cells         \* the model's flash ends there
  /\ img' = v /\ len' = l /\ cur' = 0
  /\ piece' = n /\ off' = 0 /\ done' = 0
  /\ last' = (n = ImageSize /\ n = l)
  /\ pc' = IF n > 0 THEN "open" ELSE "recv"
  /\ reply' = "none"
  /\ base' = flash_addr
  /\ UNCHANGED <<flash, sys, flag, flash_addr, loopBytes, badWrite, ignored, faults>>

(* The following buffers, by usProtocol_RecvPackage. *)
RecvPiece(n) ==
  /\ pc = "recv"
  /\ n \in 1..(len - cur)
  /\ piece' = n /\ off' = 0
  /\ last' = (cur + n = len)
  /\ pc' = "open"
  /\ UNCHANGED <<flash, sys, flag, flash_addr, loopBytes, img, len, cur, done, reply, hist, faults>>

RecvFails ==
  /\ pc = "recv"
  /\ Fault
  /\ Answer("error")
  /\ UNCHANGED <<flash, sys, flag, flash_addr, loopBytes, req, hist>>

(* Variant: the system record of the previous image stays valid. *)
EraseRecordNever == UNCHANGED <<sys, ignored, faults>>

(* The system record is erased; nobody looks whether that worked. *)
EraseRecord ==
  \/ sys' = FALSE /\ UNCHANGED <<ignored, faults>>
  \/ Fault /\ ignored' = TRUE /\ UNCHANGED sys

(* fw_upgrade, first write of a transfer. *)
OpenWriter ==
  /\ pc = "open"
  /\ ~flag
  /\ flag' = TRUE
  /\ loopBytes' = TRUE
  /\ EraseRecord
  /\ pc' = "erase"
  /\ UNCHANGED <<flash, flash_addr, req, reply, base, badWrite>>

(* init_spi_info fails after `flag = 1`: the next request finds the writer *)
(* open, with the system record as it was.                                 *)
OpenFails ==
  /\ pc = "open"
  /\ ~flag
  /\ Fault
  /\ flag' = TRUE
  /\ ignored' = TRUE
  /\ Answer("error")
  /\ UNCHANGED <<flash, sys, flash_addr, loopBytes, req, base, badWrite>>

WriterIsOpen ==
  /\ pc = "open"
  /\ flag
  /\ pc' = "erase"
  /\ UNCHANGED <<flash, sys, flag, flash_addr, loopBytes, req, reply, hist, faults>>

(* Pages of loopBytes = 0 bytes are programmed for ever. *)
AfterErase == IF loopBytes THEN "program" ELSE "hung"

(* spi_write erases up to the sub-block that holds flash_addr + size.      *)
EraseBlocks ==
  LET to == SubBlockFromAddr(flash_addr + Chunk) IN
  /\ pc = "erase"
  /\ flash' = [a \in Address |->
                 IF SubBlockFromAddr(a) \in FirstErased..to THEN Blank ELSE flash[a]]
  /\ done' = 0
  /\ pc' = AfterErase
  /\ UNCHANGED <<sys, flag, flash_addr, loopBytes, img, len, cur, piece, last, off, reply, hist, faults>>

(* spifiDevEraseSubBlock's result is not looked at. *)
EraseFails ==
  /\ pc = "erase"
  /\ Fault
  /\ ignored' = TRUE
  /\ done' = 0
  /\ pc' = AfterErase
  /\ UNCHANGED <<flash, sys, flag, flash_addr, loopBytes, img, len, cur, piece, last, off,
                 reply, base, badWrite>>

(* One page: programming only clears bits, so it needs an erased page. *)
ProgramPage ==
  LET a == flash_addr + done IN
  /\ pc = "program"
  /\ done < Chunk
  /\ flash' = [flash EXCEPT ![a] =
                 IF @ = Blank THEN Content(img, cur + off + done) ELSE Mixed]
  /\ done' = done + 1
  /\ UNCHANGED <<sys, flag, flash_addr, loopBytes, pc, img, len, cur, piece, last, off, reply, hist, faults>>

ProgramFails ==
  /\ pc = "program"
  /\ done < Chunk
  /\ Fault
  /\ badWrite' = TRUE
  /\ Answer("error")
  /\ UNCHANGED <<flash, sys, flag, flash_addr, loopBytes, req, base, ignored>>

(* The write is done: flash_addr advances, or the transfer is closed; then *)
(* wirteToFlash goes on with the buffer or firmwareUP with the request.    *)
CloseWrite ==
  /\ pc = "program"
  /\ done = Chunk
  /\ flag' = ~EndFlag
  /\ flash_addr' = IF EndFlag THEN 0 ELSE flash_addr + Chunk
  /\ done' = 0
  /\ IF off + Chunk < piece
     THEN /\ off' = off + Chunk
          /\ pc' = "open"
          /\ UNCHANGED <<cur, reply>>
     ELSE /\ off' = 0
          /\ cur' = cur + piece
          /\ IF cur' < len
             THEN pc' = "recv" /\ UNCHANGED reply
             ELSE Answer(IF len < ImageSize THEN "error" ELSE "written")
  /\ UNCHANGED <<flash, sys, loopBytes, img, len, piece, last, hist, faults>>

(* UPDATE_END: the check, then set_flage, whose result nobody looks at,    *)
(* then the request for a restart.                                         *)
End ==
  /\ pc = "idle"
  /\ IF Verified(flash)
     THEN /\ \/ sys' = TRUE /\ loopBytes' = TRUE /\ UNCHANGED faults
             \/ Fault /\ UNCHANGED <<sys, loopBytes>>
          /\ pc' = "restart"
          /\ UNCHANGED reply
     ELSE Answer("error") /\ UNCHANGED <<sys, loopBytes, faults>>
  /\ UNCHANGED <<flash, flag, flash_addr, req, hist>>

(* RAM is lost, the flash stays. *)
Boot ==
  /\ flag' = FALSE /\ flash_addr' = 0 /\ loopBytes' = FALSE
  /\ pc' = "idle"
  /\ img' = 0 /\ len' = 0 /\ cur' = 0 /\ piece' = 0 /\ last' = FALSE
  /\ off' = 0 /\ done' = 0
  /\ reply' = "none"
  /\ base' = 0
  /\ UNCHANGED <<flash, sys, badWrite, ignored>>

(* The controller on the I2C bus cuts the power, or misses the request. *)
Restart ==
  /\ pc = "restart"
  /\ Boot
  /\ UNCHANGED faults

RestartMissed ==
  /\ pc = "restart"
  /\ Fault
  /\ Answer("upgraded")
  /\ UNCHANGED <<flash, sys, flag, flash_addr, loopBytes, req, hist>>

(* A box that hangs is switched off in any case. *)
PowerCut ==
  /\ IF pc = "hung" THEN UNCHANGED faults ELSE Fault
  /\ Boot

SendData == \E v \in Images, l \in Lengths : \E n \in 0..l : Data(v, l, n)

Task == \/ \E n \in 1..(len - cur) : RecvPiece(n)
        \/ OpenWriter \/ WriterIsOpen \/ EraseBlocks \/ ProgramPage \/ CloseWrite
        \/ Restart

Faulty == RecvFails \/ OpenFails \/ EraseFails \/ ProgramFails \/ RestartMissed \/ PowerCut

Next == SendData \/ Task \/ End \/ Faulty

Spec == Init /\ [][Next]_vars

-----------------------------------------------------------------------------
TypeOK ==
  /\ flash \in [Address -> (Nat \X Nat)]
  /\ sys \in BOOLEAN
  /\ flag \in BOOLEAN /\ loopBytes \in BOOLEAN /\ ignored \in BOOLEAN
  /\ flash_addr \in 0..Cells
  /\ pc \in {"idle", "recv", "open", "erase", "program", "hung", "restart"}
  /\ img \in Images \cup {0}
  /\ len \in Nat /\ cur \in 0..len /\ piece \in 0..len /\ off \in Nat /\ done \in Nat
  /\ pc \in {"open", "erase", "program"} => cur + piece <= len /\ off + done <= piece
  /\ last \in BOOLEAN
  /\ reply \in {"none", "written", "upgraded", "error"}
  /\ faults \in 0..MaxFaults

(* Whatever moment the power goes, the boot loader finds a good image:     *)
(* when the system record selects the upgrade image, that image is         *)
(* complete in the flash. (fw_upgrade erases the record before the first   *)
(* page, set_flage programs it after the MD5 check.) An erase that fails   *)
(* unnoticed, or the failed initialisation of OpenFails, breaks this.      *)
SelectedImageIsComplete == sys => (Verified(flash) \/ ignored)

(* spi_write leaves alone the sub-block a write starts in the middle of    *)
(* and erases the ones it reaches: no page is programmed over another one  *)
(* unless a write or an erase failed half way earlier.                     *)
NoPageProgrammedTwice == (\E a \in Address : flash[a] = Mixed) => (badWrite \/ ignored)

(* A transfer answered with success has the image where UPDATE_END looks   *)
(* for it, whatever way it was cut into buffers, if it began on a closed   *)
(* writer; one that follows a broken transfer does not. And it has closed  *)
(* the writer ("if buff is last data, set end_flag=1"), so that the next   *)
(* update starts at the beginning of the region and erases the system      *)
(* record first. The code does not see the last buffer of a request that   *)
(* is longer than the image and arrives with its header; Lengths leaves    *)
(* such requests out.                                                      *)
AckedImageInPlace ==
  (pc = "idle" /\ reply = "written") =>
    /\ base = 0 => (Holds(flash, img) \/ ignored)
    /\ ~flag /\ flash_addr = 0
=============================================================================
