--------------------------- MODULE FirmwareProofs ---------------------------
(***************************************************************************)
(* The firmware update for every size of image, sub-block and write, every *)
(* cut of the requests and any number of failures and power cuts: the      *)
(* record that selects the new image is only there when the image is, no   *)
(* page is programmed twice, and an acknowledged transfer is in its place. *)
(*                                                                         *)
(* The argument is about the frontier, the cell after the last one that is *)
(* programmed: it and the rest of its sub-block are erased.                *)
(***************************************************************************)
EXTENDS Firmware, TLAPS

Writing == pc \in {"recv", "open", "erase", "program"}

(* The phone sends no request that is longer than the image. *)
RequestsFit == \A l \in Lengths : l <= ImageSize

(* How the static address follows the counters of the request, and when    *)
(* the last buffer is known as such.                                       *)
Counters ==
  /\ ~flag => flash_addr = 0
  /\ Writing =>
       /\ flash_addr = base + cur + off
       /\ base + len < Cells
       /\ len \in Lengths
       /\ img \in Images
  /\ pc \in {"recv", "open", "erase"} => done = 0
  /\ pc = "recv" => off = 0 /\ cur < len
  /\ pc \in {"open", "erase", "program"} =>
       /\ off < piece /\ cur + piece <= len
       /\ last => cur + piece = len
       /\ cur + piece = len /\ len = ImageSize => last
  /\ pc \in {"erase", "program"} => flag
  /\ pc = "program" => done <= Chunk

TypeInv == TypeOK /\ base \in Nat /\ Counters

(* From p to the end of its sub-block everything is erased. *)
Clean(p) ==
  \A a \in Address :
    a >= p /\ SubBlockFromAddr(a) <= SubBlockFromAddr(p) => flash[a] = Blank

(* Nothing has failed that could leave pages beyond the frontier: for a    *)
(* transfer that began on a closed writer, which erases what it finds, it  *)
(* does not matter what failed before.                                     *)
Neat == ~ignored /\ (base = 0 \/ ~badWrite)

Frontier ==
  /\ pc \in {"recv", "open", "erase"} /\ Neat /\ flash_addr > 0 => Clean(flash_addr)
  /\ pc = "program" /\ Neat =>
       \A a \in Address :
         a >= flash_addr + done /\ SubBlockFromAddr(a) <= SubBlockFromAddr(flash_addr + Chunk)
           => flash[a] = Blank
  /\ pc \in {"idle", "restart"} /\ ~ignored /\ ~badWrite /\ flash_addr > 0 => Clean(flash_addr)

(* Behind the frontier of a transfer that began on a closed writer there   *)
(* is the image.                                                           *)
Behind ==
  Writing /\ base = 0 /\ ~ignored =>
    \A i \in 0..flash_addr + done - 1 : flash[i] = Content(img, i)

(* A cell that keeps the MD5 check from passing. *)
WrongAt(f, i) == \A v \in Images : f[i] # Content(v, i)
Wrong(f) == \E i \in 0..ImageSize-1 : WrongAt(f, i)

(* As long as the writer is open, the check would fail: between requests   *)
(* there is a wrong cell. A request that goes on after a broken one starts *)
(* with the image's first cell somewhere else.                             *)
OpenIsWrong ==
  /\ flag /\ ~ignored =>
       /\ pc \in {"idle", "restart"} => Wrong(flash)
       /\ pc \in {"recv", "open"} /\ flash_addr = base => Wrong(flash)
       /\ Writing /\ base > 0 => Wrong(flash)
  /\ Writing /\ 0 < base /\ base < ImageSize /\ flash_addr + done > base
       => WrongAt(flash, base)

RecordErased == flag /\ ~ignored => ~sys

-----------------------------------------------------------------------------
Flags == /\ sys \in BOOLEAN /\ flag \in BOOLEAN /\ loopBytes \in BOOLEAN
         /\ ignored \in BOOLEAN /\ last \in BOOLEAN

LEMMA ChunkFits ==
  ASSUME TypeInv, pc \in {"open", "erase", "program"}
  PROVE  /\ Chunk \in 1..WriteSize /\ off + Chunk <= piece
         /\ EndFlag => off + Chunk = piece
BY SizesArePos DEF TypeInv, TypeOK, Counters, Chunk, EndFlag

LEMMA TypeInit == Init => TypeInv
<1> SUFFICES ASSUME Init PROVE TypeInv
  OBVIOUS
<1>1. Flags
  BY Zenon DEF Init, Flags
<1>2. flash \in [Address -> (Nat \X Nat)]
  BY DEF Init, Blank, Other
<1> QED  BY <1>1, <1>2, SizesArePos, RegionHoldsImage
         DEF Init, TypeInv, TypeOK, Flags, Counters, Writing

LEMMA TypeNext == TypeInv /\ [Next]_vars => TypeInv'
<1> SUFFICES ASSUME TypeInv, [Next]_vars PROVE TypeInv'
  OBVIOUS
<1> USE SizesArePos, ImagesArePos, RegionHoldsImage DEF TypeInv, TypeOK, Counters, Writing
<1>1. ASSUME NEW v \in Images, NEW l \in Lengths, NEW n \in 0..l, Data(v, l, n)
      PROVE  TypeInv'
  <2>1. last' \in BOOLEAN /\ (last' <=> (n = ImageSize /\ n = l))
    BY <1>1, Zenon DEF Data
  <2>2. l \in Nat /\ n \in Nat /\ n <= l
    OBVIOUS
  <2> QED  BY <1>1, <2>1, <2>2 DEF Data
<1>2. ASSUME NEW n \in 1..(len - cur), RecvPiece(n) PROVE TypeInv'
  <2>1. last' \in BOOLEAN /\ (last' <=> (cur + n = len))
    BY <1>2, Zenon DEF RecvPiece
  <2> QED  BY <1>2, <2>1 DEF RecvPiece, hist
<1>3. CASE OpenWriter
  <2>1. Flags'
    BY <1>3, Zenon DEF OpenWriter, EraseRecord, req, Flags
  <2> QED  BY <1>3, <2>1 DEF OpenWriter, EraseRecord, req, Flags, Fault
<1>4. CASE WriterIsOpen
  BY <1>4 DEF WriterIsOpen, req, hist
<1>5. CASE EraseBlocks
  <2>1. flash' \in [Address -> (Nat \X Nat)]
    BY <1>5 DEF EraseBlocks, Blank
  <2> QED  BY <1>5, <2>1, ChunkFits DEF EraseBlocks, AfterErase, hist, Chunk
<1>6. CASE ProgramPage
  <2>1. flash' \in [Address -> (Nat \X Nat)]
    <3> DEFINE v == IF flash[flash_addr + done] = Blank
                    THEN Content(img, cur + off + done) ELSE Mixed
    <3>1. v \in Nat \X Nat
      <4>1. img \in Nat /\ cur + off + done \in Nat
        BY DEF ProgramPage
      <4> QED  BY <4>1 DEF Mixed, Content
    <3>2. flash' = [flash EXCEPT ![flash_addr + done] = v]
      BY <1>6 DEF ProgramPage
    <3> HIDE DEF v
    <3> QED  BY <3>1, <3>2
  <2> QED  BY <1>6, <2>1, ChunkFits DEF ProgramPage, hist, Chunk
<1>7. CASE CloseWrite
  <2>1. flag' \in BOOLEAN /\ (flag' <=> ~EndFlag)
    BY <1>7, Zenon DEF CloseWrite
  <2>2. /\ flash_addr' = IF EndFlag THEN 0 ELSE flash_addr + Chunk
        /\ pc' \in {"open", "recv", "idle"} /\ done' = 0 /\ UNCHANGED <<base, len, img, piece, last>>
    BY <1>7 DEF CloseWrite, Answer, hist
  <2>3. CASE off + Chunk < piece
    BY <1>7, <2>1, <2>2, <2>3, ChunkFits DEF CloseWrite, hist
  <2>4. CASE off + Chunk = piece
    <3>1. /\ ~(off + Chunk < piece) /\ off' = 0 /\ cur' = cur + piece
          /\ cur' < len => pc' = "recv" /\ reply' = reply
          /\ ~(cur' < len) => pc' = "idle" /\ reply' \in {"error", "written"}
          /\ UNCHANGED <<flash, sys, loopBytes, ignored, faults>>
      BY <1>7, <2>4, ChunkFits DEF CloseWrite, Answer, hist
    <3>2. EndFlag => cur + piece = len
      BY <1>7 DEF EndFlag, CloseWrite
    <3> QED  BY <1>7, <2>1, <2>2, <2>4, <3>1, <3>2, ChunkFits DEF CloseWrite
  <2> QED  BY <1>7, <2>3, <2>4, ChunkFits DEF CloseWrite
<1>8. CASE End
  <2>1. sys' \in BOOLEAN /\ loopBytes' \in BOOLEAN
    BY <1>8, Zenon DEF End
  <2> QED  BY <1>8, <2>1 DEF End, Answer, req, hist, Fault
<1>9. CASE Restart \/ PowerCut
  <2>1. Boot /\ faults' \in 0..MaxFaults
    BY <1>9 DEF Restart, PowerCut, Fault
  <2>2. flag' = FALSE /\ loopBytes' = FALSE /\ last' = FALSE /\ UNCHANGED <<sys, ignored>>
    BY <2>1, Zenon DEF Boot
  <2>3. Flags'
    BY <2>2, Zenon DEF Flags
  <2> QED  BY <2>1, <2>3 DEF Boot, Flags
<1>10. CASE RecvFails
  BY <1>10 DEF RecvFails, Answer, req, hist, Fault
<1>11. CASE OpenFails
  BY <1>11 DEF OpenFails, Answer, req, Fault
<1>12. CASE EraseFails
  BY <1>12, ChunkFits DEF EraseFails, AfterErase, Fault, Chunk
<1>13. CASE ProgramFails
  BY <1>13 DEF ProgramFails, Answer, req, Fault
<1>14. CASE RestartMissed
  BY <1>14 DEF RestartMissed, Answer, req, hist, Fault
<1>15. CASE UNCHANGED vars
  BY <1>15 DEF vars, req, hist, Chunk
<1> QED  BY <1>1, <1>2, <1>3, <1>4, <1>5, <1>6, <1>7, <1>8, <1>9, <1>10, <1>11, <1>12,
            <1>13, <1>14, <1>15 DEF Next, SendData, Task, Faulty

(* Every variable keeps its type; in particular no write starts beyond the *)
(* flash.                                                                  *)
THEOREM TypeCorrect == Spec => []TypeOK
<1>1. TypeInv => TypeOK
  BY DEF TypeInv
<1> QED  BY <1>1, TypeInit, TypeNext, PTL DEF Spec

-----------------------------------------------------------------------------
(* Sub-blocks: the order of the addresses is the order of their blocks.    *)
LEMMA Division ==
  ASSUME NEW s \in Nat \ {0}, NEW a \in Nat
  PROVE  a \div s \in Nat /\ a = s * (a \div s) + (a % s) /\ a % s \in 0..s-1
OBVIOUS

LEMMA ProductsApart ==
  ASSUME NEW s \in Nat \ {0}, NEW p \in Nat, NEW q \in Nat, p < q
  PROVE  s * p + s <= s * q
<1>1. PICK d \in Nat : q = p + 1 + d
  <2>1. q - p - 1 \in Nat
    OBVIOUS
  <2> QED  BY <2>1
<1>2. s * q = s * p + s + s * d
  BY <1>1
<1>3. s * d \in Nat
  OBVIOUS
<1> QED  BY <1>2, <1>3

LEMMA BlockOrder ==
  ASSUME NEW a \in Nat, NEW b \in Nat, a <= b
  PROVE  /\ SubBlockFromAddr(a) \in Nat /\ SubBlockFromAddr(b) \in Nat
         /\ SubBlockFromAddr(a) <= SubBlockFromAddr(b)
         /\ a < b /\ Aligned(b) => SubBlockFromAddr(a) < SubBlockFromAddr(b)
<1> USE SizesArePos
<1> DEFINE p == a \div SubSize
           q == b \div SubSize
<1>1. /\ p \in Nat /\ q \in Nat
      /\ a = SubSize * p + (a % SubSize) /\ b = SubSize * q + (b % SubSize)
      /\ a % SubSize \in 0..SubSize-1 /\ b % SubSize \in 0..SubSize-1
  BY Division
<1>2. SubBlockFromAddr(a) = p /\ SubBlockFromAddr(b) = q /\ (Aligned(b) => b % SubSize = 0)
  BY DEF SubBlockFromAddr, Aligned
<1> HIDE DEF p, q
<1>3. SubSize * p \in Nat /\ SubSize * q \in Nat
  BY <1>1
<1>4. ~(q < p)
  <2>1. SUFFICES ASSUME q < p PROVE FALSE
    OBVIOUS
  <2>2. SubSize * q + SubSize <= SubSize * p
    BY <1>1, <2>1, ProductsApart
  <2> QED  BY <1>1, <1>3, <2>2
<1>5. a < b /\ b % SubSize = 0 => p # q
  BY <1>1, <1>3
<1> QED  BY <1>1, <1>2, <1>4, <1>5

(* What an erase does: nothing before the frontier, and if the rest of the *)
(* frontier's sub-block was erased, everything behind that is written.     *)
LEMMA Erased ==
  ASSUME TypeInv, EraseBlocks, NEW a \in Address
  PROVE  /\ flash'[a] = Blank \/ flash'[a] = flash[a]
         /\ a < flash_addr => flash'[a] = flash[a]
         /\ /\ a >= flash_addr /\ SubBlockFromAddr(a) <= SubBlockFromAddr(flash_addr + Chunk)
            /\ flash_addr > 0 => Clean(flash_addr)
            => flash'[a] = Blank
<1> DEFINE here == SubBlockFromAddr(flash_addr)
           to == SubBlockFromAddr(flash_addr + Chunk)
           b == SubBlockFromAddr(a)
<1>1. flash'[a] = IF b \in FirstErased..to THEN Blank ELSE flash[a]
  BY DEF EraseBlocks
<1>2. flash_addr \in Nat /\ Chunk \in Nat /\ a \in Nat /\ here \in Nat /\ to \in Nat /\ b \in Nat
  <2>1. flash_addr \in Nat /\ Chunk \in Nat /\ a \in Nat
    BY SizesArePos, ChunkFits DEF TypeInv, TypeOK, EraseBlocks, Address
  <2> QED  BY <2>1, BlockOrder
<1>3. FirstErased = IF Aligned(flash_addr) THEN here ELSE here + 1
  BY <1>2 DEF FirstErased
<1>4. a < flash_addr => b < FirstErased
  BY <1>2, <1>3, BlockOrder
<1>5. a >= flash_addr => here <= b
  BY <1>2, BlockOrder
<1>6. flash_addr = 0 => Aligned(flash_addr)
  BY SizesArePos DEF Aligned
<1>7. ASSUME a >= flash_addr, b <= to, flash_addr > 0 => Clean(flash_addr)
      PROVE  flash'[a] = Blank
  <2>1. CASE b >= FirstErased
    BY <1>1, <1>2, <1>3, <1>7, <2>1
  <2>2. CASE b < FirstErased
    <3>1. flash_addr > 0 /\ b <= here
      BY <1>2, <1>3, <1>5, <1>6, <1>7, <2>2
    <3>2. flash[a] = Blank
      BY <1>7, <3>1 DEF Clean
    <3> QED  BY <1>1, <3>2
  <2> QED  BY <1>2, <1>3, <2>1, <2>2
<1>8. a < flash_addr => flash'[a] = flash[a]
  BY <1>1, <1>2, <1>3, <1>4
<1> QED  BY <1>1, <1>7, <1>8

LEMMA Programmed ==
  ASSUME TypeInv, ProgramPage
  PROVE  /\ flash_addr + done \in Address /\ done < Chunk /\ img \in Images
         /\ \A a \in Address : a # flash_addr + done => flash'[a] = flash[a]
         /\ flash'[flash_addr + done] = IF flash[flash_addr + done] = Blank
                                       THEN Content(img, cur + off + done) ELSE Mixed
<1>1. flash_addr + done \in Address /\ done < Chunk /\ img \in Images
  <2>1. /\ flash_addr = base + cur + off /\ base + len < Cells /\ cur + piece <= len
        /\ off + Chunk <= piece /\ done < Chunk /\ img \in Images
        /\ Chunk \in Int /\ done \in Nat /\ off \in Nat /\ base \in Nat /\ cur \in Nat
        /\ piece \in Nat /\ len \in Nat
    BY ChunkFits, SizesArePos DEF ProgramPage, TypeInv, TypeOK, Counters, Writing
  <2> QED  BY <2>1, SizesArePos DEF Address
<1>2. flash' = [flash EXCEPT ![flash_addr + done] =
                  IF @ = Blank THEN Content(img, cur + off + done) ELSE Mixed]
  BY DEF ProgramPage
<1> QED  BY <1>1, <1>2 DEF TypeInv, TypeOK

LEMMA FrontierNext ==
  ASSUME TypeInv, Frontier, [Next]_vars
  PROVE  Frontier'
<1> USE DEF Frontier, Neat
<1>1. ASSUME NEW v \in Images, NEW l \in Lengths, NEW n \in 0..l, Data(v, l, n)
      PROVE  Frontier'
  BY <1>1 DEF Data, Clean
<1>2. ASSUME NEW n \in 1..(len - cur), RecvPiece(n) PROVE Frontier'
  BY <1>2 DEF RecvPiece, hist, Clean
<1>3. CASE OpenWriter
  BY <1>3 DEF OpenWriter, EraseRecord, Clean
<1>4. CASE WriterIsOpen
  BY <1>4 DEF WriterIsOpen, hist, Clean
<1>5. CASE EraseBlocks
  <2>1. /\ pc = "erase" /\ pc' \in {"program", "hung"} /\ done' = 0
        /\ UNCHANGED <<flash_addr, off, piece, base, badWrite, ignored>>
    BY <1>5 DEF EraseBlocks, AfterErase, hist
  <2>2. Chunk' = Chunk
    BY <2>1 DEF Chunk
  <2>3. flash_addr + done' = flash_addr
    BY <2>1 DEF TypeInv, TypeOK
  <2> QED  BY <1>5, <2>1, <2>2, <2>3, Erased
<1>6. CASE ProgramPage
  <2>1. /\ pc = "program" /\ pc' = pc /\ done' = done + 1
        /\ UNCHANGED <<flash_addr, off, piece, base, badWrite, ignored>>
    BY <1>6 DEF ProgramPage, hist
  <2>2. Chunk' = Chunk
    BY <2>1 DEF Chunk
  <2>3. \A a \in Address : a >= flash_addr + done' => a > flash_addr + done /\ flash'[a] = flash[a]
    BY <1>6, <2>1, Programmed DEF TypeInv, TypeOK, Address
  <2> QED  BY <2>1, <2>2, <2>3 DEF Address, TypeInv, TypeOK
<1>7. CASE CloseWrite
  <2>1. /\ pc = "program" /\ done = Chunk /\ pc' \in {"open", "recv", "idle"}
        /\ flash_addr' = 0 \/ flash_addr' = flash_addr + done
        /\ UNCHANGED <<flash, base, badWrite, ignored>>
    BY <1>7 DEF CloseWrite, Answer, hist
  <2>2. Neat /\ flash_addr' = flash_addr + done => Clean(flash_addr)'
    BY <2>1 DEF Clean
  <2> QED  BY <2>1, <2>2
<1>8. CASE End \/ RecvFails \/ RestartMissed
  BY <1>8 DEF End, RecvFails, RestartMissed, Answer, hist, Clean
<1>9. CASE Restart \/ PowerCut
  BY <1>9 DEF Restart, PowerCut, Boot
<1>10. CASE OpenFails \/ EraseFails
  BY <1>10 DEF OpenFails, EraseFails
<1>11. CASE ProgramFails
  BY <1>11 DEF ProgramFails, Answer
<1>12. CASE UNCHANGED vars
  <2>1. Chunk' = Chunk
    BY <1>12 DEF vars, req, Chunk
  <2> QED  BY <1>12, <2>1 DEF vars, req, hist, Clean
<1> QED  BY <1>1, <1>2, <1>3, <1>4, <1>5, <1>6, <1>7, <1>8, <1>9, <1>10, <1>11,
            <1>12 DEF Next, SendData, Task, Faulty

(* A page is only programmed on an erased one.                             *)
LEMMA TwiceNext ==
  ASSUME TypeInv, Frontier, NoPageProgrammedTwice, [Next]_vars
  PROVE  NoPageProgrammedTwice'
<1> USE DEF NoPageProgrammedTwice
<1>1. CASE EraseBlocks
  <2>1. UNCHANGED <<badWrite, ignored>>
    BY <1>1 DEF EraseBlocks, hist
  <2>2. Blank # Mixed
    BY DEF Blank, Mixed
  <2> QED  BY <1>1, <2>1, <2>2, Erased
<1>2. CASE ProgramPage
  <2>1. UNCHANGED <<badWrite, ignored>> /\ pc = "program"
    BY <1>2 DEF ProgramPage, hist
  <2>2. ASSUME ~badWrite, ~ignored PROVE flash'[flash_addr + done] # Mixed
    <3>1. SubBlockFromAddr(flash_addr + done) <= SubBlockFromAddr(flash_addr + Chunk)
      BY <2>1, Programmed, <1>2, ChunkFits, BlockOrder, SizesArePos DEF TypeInv, TypeOK
    <3>2. flash[flash_addr + done] = Blank
      BY <1>2, <2>1, <2>2, <3>1, Programmed DEF Frontier, Neat, Address, TypeInv, TypeOK
    <3>3. flash'[flash_addr + done] = Content(img, cur + off + done) /\ img \in Images
      BY <1>2, <3>2, Programmed
    <3> QED  BY <3>3, ImagesArePos DEF Content, Mixed
  <2> QED  BY <1>2, <2>1, <2>2, Programmed
<1>3. CASE SendData \/ End \/ (\E n \in 1..(len - cur) : RecvPiece(n)) \/ WriterIsOpen
           \/ CloseWrite \/ RecvFails \/ RestartMissed \/ Restart \/ PowerCut \/ UNCHANGED vars
  BY <1>3 DEF SendData, Data, End, RecvPiece, WriterIsOpen, CloseWrite, RecvFails, RestartMissed,
              Restart, PowerCut, Boot, hist, vars
<1>4. CASE OpenWriter
  BY <1>4 DEF OpenWriter, EraseRecord
<1>5. CASE OpenFails \/ EraseFails \/ ProgramFails
  BY <1>5 DEF OpenFails, EraseFails, ProgramFails
<1> QED  BY <1>1, <1>2, <1>3, <1>4, <1>5 DEF Next, Task, Faulty

(* No page is programmed over another one without an erase, for every size *)
(* of sub-blocks and writes (also where they do not divide each other),    *)
(* every length of requests and every cut.                                 *)
THEOREM NoPageProgrammedTwiceAlways == Spec => []NoPageProgrammedTwice
<1>1. Init => Frontier /\ NoPageProgrammedTwice
  <2> SUFFICES ASSUME Init PROVE Frontier /\ NoPageProgrammedTwice
    OBVIOUS
  <2>1. Blank # Mixed /\ Other # Mixed
    BY DEF Blank, Mixed, Other
  <2> QED  BY <2>1 DEF Init, Frontier, NoPageProgrammedTwice
<1> QED  BY <1>1, TypeInit, TypeNext, FrontierNext, TwiceNext, PTL DEF Spec

-----------------------------------------------------------------------------
(* Where the next page goes, the cell is erased.                           *)
LEMMA FrontierIsBlank ==
  ASSUME TypeInv, Frontier, Neat, pc = "program", done < Chunk
  PROVE  flash[flash_addr + done] = Blank
<1>1. flash_addr \in Nat /\ done \in Nat /\ Chunk \in Nat /\ flash_addr + done \in Address
  <2>1. /\ flash_addr = base + cur + off /\ base + len < Cells /\ cur + piece <= len
        /\ off + Chunk <= piece /\ Chunk \in Nat /\ done \in Nat /\ off \in Nat
        /\ base \in Nat /\ cur \in Nat /\ piece \in Nat /\ len \in Nat
    BY ChunkFits, SizesArePos DEF TypeInv, TypeOK, Counters, Writing
  <2> QED  BY <2>1, SizesArePos DEF Address
<1>2. SubBlockFromAddr(flash_addr + done) <= SubBlockFromAddr(flash_addr + Chunk)
  BY <1>1, BlockOrder
<1> QED  BY <1>1, <1>2 DEF Frontier

LEMMA BehindNext ==
  ASSUME TypeInv, Frontier, Behind, [Next]_vars
  PROVE  Behind'
<1> USE DEF Behind, Writing
<1>1. ASSUME NEW v \in Images, NEW l \in Lengths, NEW n \in 0..l, Data(v, l, n)
      PROVE  Behind'
  BY <1>1 DEF Data
<1>2. CASE (\E n \in 1..(len - cur) : RecvPiece(n)) \/ WriterIsOpen
  BY <1>2 DEF RecvPiece, WriterIsOpen, req, hist
<1>3. CASE OpenWriter
  BY <1>3 DEF OpenWriter, EraseRecord, req
<1>4. CASE EraseBlocks
  <2>1. /\ pc = "erase" /\ done' = 0 /\ done = 0
        /\ UNCHANGED <<flash_addr, base, img, ignored>>
    BY <1>4 DEF EraseBlocks, hist, TypeInv, Counters
  <2>2. flash_addr \in 0..Cells /\ Cells \in Nat
    BY SizesArePos DEF TypeInv, TypeOK
  <2>3. \A i \in 0..flash_addr - 1 : i \in Address /\ i < flash_addr
    BY <2>2 DEF Address
  <2> QED  BY <1>4, <2>1, <2>2, <2>3, Erased
<1>5. CASE ProgramPage
  <2>1. /\ pc = "program" /\ done' = done + 1 /\ done < Chunk
        /\ UNCHANGED <<pc, flash_addr, base, img, cur, off, badWrite, ignored>>
    BY <1>5 DEF ProgramPage, hist
  <2>2. /\ flash_addr = base + cur + off /\ flash_addr + done \in Address
        /\ base \in Nat /\ done \in Nat /\ cur \in Nat /\ off \in Nat /\ flash_addr \in Nat
    BY <1>5, <2>1, Programmed DEF TypeInv, TypeOK, Counters
  <2>3. SUFFICES ASSUME base = 0, ~ignored,
                        NEW i \in 0..flash_addr + done
                 PROVE  flash'[i] = Content(img, i)
    BY <2>1, <2>2
  <2>4. CASE i = flash_addr + done
    <3>1. flash[i] = Blank
      BY <2>1, <2>3, <2>4, FrontierIsBlank DEF Neat
    <3>2. i = cur + off + done
      BY <2>2, <2>3, <2>4
    <3> QED  BY <1>5, <2>4, <3>1, <3>2, Programmed
  <2>5. CASE i # flash_addr + done
    <3>1. i \in 0..flash_addr + done - 1 /\ i \in Address
      BY <2>2, <2>3, <2>5, SizesArePos DEF Address
    <3> QED  BY <1>5, <2>1, <2>3, <2>5, <3>1, Programmed
  <2> QED  BY <2>4, <2>5
<1>6. CASE CloseWrite
  <2>1. /\ pc = "program" /\ done = Chunk /\ done' = 0 /\ UNCHANGED <<flash, base, img, ignored>>
    BY <1>6 DEF CloseWrite, hist
  <2>2. pc' # "idle" => flash_addr' = flash_addr + done
    <3>1. EndFlag => off + Chunk = piece /\ cur + piece = len
      BY <2>1, ChunkFits DEF EndFlag, TypeInv, Counters
    <3>2. piece \in Int /\ off + Chunk = piece => ~(off + Chunk < piece)
      BY DEF TypeInv, TypeOK
    <3> QED  BY <1>6, <2>1, <3>1, <3>2 DEF CloseWrite, Answer, TypeInv, TypeOK
  <2>3. SUFFICES ASSUME Writing', base = 0, ~ignored, NEW i \in 0..flash_addr' + done' - 1
                 PROVE  flash[i] = Content(img, i)
    BY <2>1
  <2>4. i \in 0..flash_addr + done - 1
    <3>1. pc' # "idle"
      BY <2>3
    <3>2. flash_addr' = flash_addr + done /\ flash_addr \in Nat /\ done \in Nat /\ done' = 0
      BY <2>1, <2>2, <3>1 DEF TypeInv, TypeOK
    <3> QED  BY <2>3, <3>2
  <2> QED  BY <2>1, <2>3, <2>4
<1>7. CASE End \/ Restart \/ PowerCut \/ RecvFails \/ RestartMissed \/ OpenFails \/ ProgramFails
  BY <1>7 DEF End, Restart, PowerCut, Boot, RecvFails, RestartMissed, OpenFails, ProgramFails, Answer
<1>8. CASE EraseFails
  BY <1>8 DEF EraseFails
<1>9. CASE UNCHANGED vars
  BY <1>9 DEF vars, req, hist
<1> QED  BY <1>1, <1>2, <1>3, <1>4, <1>5, <1>6, <1>7, <1>8, <1>9 DEF Next, SendData, Task, Faulty

LEMMA AckedNext ==
  ASSUME RequestsFit, TypeInv, Behind, AckedImageInPlace, [Next]_vars
  PROVE  AckedImageInPlace'
<1> USE DEF AckedImageInPlace
<1>1. CASE CloseWrite
  <2>1. SUFFICES ASSUME pc' = "idle", reply' = "written"
                 PROVE  /\ base' = 0 => (Holds(flash', img') \/ ignored')
                        /\ ~flag' /\ flash_addr' = 0
    OBVIOUS
  <2>2. /\ pc = "program" /\ done = Chunk /\ UNCHANGED <<flash, base, img, ignored>>
    BY <1>1 DEF CloseWrite, hist
  <2>3. ~(off + Chunk < piece) /\ ~(cur + piece < len) /\ ~(len < ImageSize)
    BY <1>1, <2>1 DEF CloseWrite, Answer
  <2>4. /\ off + Chunk = piece /\ cur + piece = len /\ len = ImageSize
        /\ flash_addr = base + cur + off
    BY <2>2, <2>3, ChunkFits, SizesArePos
    DEF TypeInv, TypeOK, Counters, Writing, RequestsFit
  <2>5. EndFlag
    BY <2>2, <2>4, ChunkFits, SizesArePos DEF EndFlag, TypeInv, TypeOK, Counters
  <2>6. base = 0 => Holds(flash, img) \/ ignored
    <3>1. base = 0 => flash_addr + done - 1 = ImageSize - 1
      BY <2>2, <2>4, ChunkFits, SizesArePos DEF TypeInv, TypeOK
    <3> QED  BY <2>2, <3>1 DEF Behind, Writing, Holds
  <2> QED  BY <1>1, <2>2, <2>5, <2>6 DEF CloseWrite
<1>2. CASE SendData \/ End \/ (\E n \in 1..(len - cur) : RecvPiece(n)) \/ OpenWriter \/ WriterIsOpen
           \/ EraseBlocks \/ ProgramPage \/ Restart
  BY <1>2 DEF SendData, Data, End, RecvPiece, OpenWriter, WriterIsOpen, EraseBlocks, AfterErase,
              ProgramPage, Restart, Boot, Answer
<1>3. CASE Faulty
  BY <1>3 DEF Faulty, RecvFails, OpenFails, EraseFails, AfterErase, ProgramFails, RestartMissed,
              PowerCut, Boot, Answer
<1>4. CASE UNCHANGED vars
  BY <1>4 DEF vars, req, hist
<1> QED  BY <1>1, <1>2, <1>3, <1>4 DEF Next, Task

-----------------------------------------------------------------------------
(* What is erased, programmed twice or a cell of another place is no cell  *)
(* of an image.                                                            *)
LEMMA ContentApart ==
  ASSUME NEW v \in Images, NEW w \in Images, NEW i \in Nat, NEW k \in Nat
  PROVE  /\ Content(v, i) # Blank /\ Content(v, i) # Mixed
         /\ Content(v, i) = Content(w, k) => i = k
BY ImagesArePos DEF Content, Blank, Mixed

LEMMA WrongIsNotVerified ==
  ASSUME NEW f PROVE Wrong(f) => ~Verified(f)
BY DEF Wrong, WrongAt, Verified, Holds

(* Where a request that goes on stops short of the image's end, the cell   *)
(* behind it is erased.                                                    *)
LEMMA ShortIsWrong ==
  ASSUME NEW f, NEW i \in 0..ImageSize-1, f[i] = Blank
  PROVE  Wrong(f)
BY ContentApart, SizesArePos DEF Wrong, WrongAt

LEMMA EraseKeepsWrong ==
  ASSUME TypeInv, EraseBlocks
  PROVE  /\ \A i \in Address : WrongAt(flash, i) => WrongAt(flash', i)
         /\ Wrong(flash) => Wrong(flash')
<1>1. ASSUME NEW i \in Address, WrongAt(flash, i) PROVE WrongAt(flash', i)
  <2>1. flash'[i] = Blank \/ flash'[i] = flash[i]
    BY Erased
  <2>2. i \in Nat
    BY DEF Address
  <2>3. SUFFICES ASSUME NEW v \in Images PROVE flash'[i] # Content(v, i)
    BY DEF WrongAt
  <2>4. Content(v, i) # Blank /\ flash[i] # Content(v, i)
    BY <1>1, <2>2, ContentApart DEF WrongAt
  <2> QED  BY <2>1, <2>4
<1>2. \A i \in 0..ImageSize-1 : i \in Address
  BY RegionHoldsImage, SizesArePos DEF Address
<1> QED  BY <1>1, <1>2 DEF Wrong

LEMMA ProgramKeepsWrong ==
  ASSUME TypeInv, OpenIsWrong, ProgramPage, base > 0
  PROVE  /\ base < ImageSize => WrongAt(flash', base)
         /\ flag /\ ~ignored => Wrong(flash')
<1> DEFINE here == flash_addr + done
<1>1. /\ here = base + cur + off + done /\ here \in Nat /\ base \in Nat /\ cur \in Nat
      /\ off \in Nat /\ done \in Nat /\ here >= base /\ img \in Images /\ Writing
      /\ cur + off + done \in Nat /\ cur + off + done < here
  BY Programmed DEF ProgramPage, TypeInv, TypeOK, Counters, Writing, Address
<1>2. /\ \A a \in Address : a # here => flash'[a] = flash[a]
      /\ flash'[here] = Mixed \/ flash'[here] = Content(img, cur + off + done)
  BY Programmed
<1>3. \A i \in 0..ImageSize-1 : i \in Address
  BY RegionHoldsImage, SizesArePos DEF Address
<1>4. ASSUME base < ImageSize PROVE WrongAt(flash', base)
  <2>1. CASE here = base
    <3>1. SUFFICES ASSUME NEW v \in Images PROVE flash'[base] # Content(v, base)
      BY DEF WrongAt
    <3>2. Content(v, base) # Mixed /\ Content(v, base) # Content(img, cur + off + done)
      BY <1>1, <2>1, ContentApart
    <3> QED  BY <1>2, <2>1, <3>2
  <2>2. CASE here # base
    <3>1. WrongAt(flash, base) /\ base \in Address
      BY <1>1, <1>3, <1>4, <2>2, SizesArePos DEF OpenIsWrong
    <3> QED  BY <1>2, <2>2, <3>1 DEF WrongAt
  <2> QED  BY <2>1, <2>2
<1>5. ASSUME flag, ~ignored PROVE Wrong(flash')
  <2>1. CASE base < ImageSize
    <3>1. base \in 0..ImageSize-1
      BY <1>1, <2>1, SizesArePos
    <3> QED  BY <1>4, <2>1, <3>1 DEF Wrong
  <2>2. CASE base >= ImageSize
    <3>1. PICK i \in 0..ImageSize-1 : WrongAt(flash, i)
      BY <1>1, <1>5, <2>2, SizesArePos DEF OpenIsWrong, Wrong
    <3>2. flash'[i] = flash[i]
      BY <1>1, <1>2, <1>3, <2>2, SizesArePos
    <3> QED  BY <3>1, <3>2 DEF Wrong, WrongAt
  <2> QED  BY <1>1, <2>1, <2>2, SizesArePos
<1> QED  BY <1>4, <1>5

LEMMA OpenIsWrongNext ==
  ASSUME RequestsFit, TypeInv, Frontier, OpenIsWrong, [Next]_vars
  PROVE  OpenIsWrong'
<1> USE DEF OpenIsWrong, Writing
<1>1. ASSUME NEW v \in Images, NEW l \in Lengths, NEW n \in 0..l, Data(v, l, n)
      PROVE  OpenIsWrong'
  <2>1. /\ pc = "idle" /\ pc' \in {"open", "recv"} /\ done' = 0 /\ base' = flash_addr
        /\ UNCHANGED <<flash, flag, flash_addr, ignored>>
    BY <1>1 DEF Data
  <2>2. flash_addr + 0 = flash_addr /\ ~(flash_addr > flash_addr) /\ (flash_addr > 0 => flag)
    BY DEF TypeInv, TypeOK, Counters
  <2> QED  BY <2>1, <2>2
<1>2. CASE (\E n \in 1..(len - cur) : RecvPiece(n)) \/ WriterIsOpen
  <2>1. /\ pc \in {"recv", "open"} /\ UNCHANGED <<flash, flag, flash_addr, done, base, ignored>>
        /\ pc' \in {"open", "erase"}
        /\ pc' = "open" => pc = "recv"
    BY <1>2 DEF RecvPiece, WriterIsOpen, req, hist
  <2> QED  BY <2>1
<1>3. CASE OpenWriter
  <2>1. /\ pc = "open" /\ ~flag /\ pc' = "erase" /\ base' = base
    BY <1>3 DEF OpenWriter
  <2>2. base = 0
    BY <2>1 DEF TypeInv, TypeOK, Counters
  <2> QED  BY <2>1, <2>2
<1>4. CASE EraseBlocks
  <2>1. /\ pc = "erase" /\ done' = 0 /\ done = 0 /\ pc' \in {"program", "hung"}
        /\ UNCHANGED <<flag, flash_addr, base, ignored>>
    BY <1>4 DEF EraseBlocks, AfterErase, hist, TypeInv, Counters
  <2>2. base < ImageSize => base \in Address
    BY RegionHoldsImage, SizesArePos DEF Address, TypeInv
  <2> QED  BY <1>4, <2>1, <2>2, EraseKeepsWrong
<1>5. CASE ProgramPage
  <2>1. pc = "program" /\ UNCHANGED <<pc, flag, base, ignored>>
    BY <1>5 DEF ProgramPage, hist
  <2> QED  BY <1>5, <2>1, ProgramKeepsWrong DEF TypeInv
<1>6. CASE CloseWrite
  <2>1. /\ pc = "program" /\ done = Chunk /\ done' = 0 /\ pc' \in {"open", "recv", "idle"}
        /\ UNCHANGED <<flash, base, ignored>>
    BY <1>6 DEF CloseWrite, Answer, hist
  <2>2. /\ flash_addr = base + cur + off /\ len \in Lengths /\ len \in Nat /\ piece \in Nat
        /\ base \in Nat /\ cur \in Nat /\ off \in Nat /\ done \in Nat /\ done > 0
        /\ flag /\ off + done <= piece /\ cur + piece <= len
        /\ cur + piece = len /\ len = ImageSize => last
        /\ EndFlag => off + done = piece /\ cur + piece = len
        /\ piece - off = done /\ last => EndFlag
    BY <2>1, ChunkFits, SizesArePos DEF TypeInv, TypeOK, Counters, Writing, EndFlag
  <2>3. CASE EndFlag
    <3>1. pc' = "idle"
      BY <1>6, <2>1, <2>2, <2>3 DEF CloseWrite, Answer
    <3>2. ~flag'
      BY <1>6, <2>3 DEF CloseWrite
    <3> QED  BY <3>1, <3>2
  <2>4. CASE ~EndFlag
    <3>1. flash_addr' = flash_addr + done /\ flash_addr' > base
      BY <1>6, <2>1, <2>2, <2>4 DEF CloseWrite
    <3>2. 0 < base /\ base < ImageSize => WrongAt(flash, base)
      BY <2>1, <2>2
    <3>3. base > 0 /\ ~ignored => Wrong(flash)
      BY <2>1, <2>2
    <3>4. pc' = "idle" /\ base = 0 /\ ~ignored => Wrong(flash)
      <4>1. SUFFICES ASSUME pc' = "idle", base = 0, ~ignored PROVE Wrong(flash)
        OBVIOUS
      <4>2. off + done = piece /\ cur + piece = len
        BY <1>6, <2>1, <2>2, <4>1 DEF CloseWrite
      <4>3. len # ImageSize
        BY <2>2, <2>4, <4>2
      <4>4. flash_addr + done = len /\ len \in 0..ImageSize-1
        BY <2>2, <4>1, <4>2, <4>3, SizesArePos DEF RequestsFit
      <4>5. len \in Address /\ SubBlockFromAddr(len) <= SubBlockFromAddr(len)
        BY <4>4, BlockOrder, RegionHoldsImage, SizesArePos DEF Address
      <4>6. flash[len] = Blank
        BY <2>1, <2>2, <4>1, <4>4, <4>5 DEF Frontier, Neat
      <4> QED  BY <4>4, <4>6, ShortIsWrong
    <3> QED  BY <2>1, <3>1, <3>2, <3>3, <3>4 DEF TypeInv
  <2> QED  BY <2>3, <2>4
<1>7. CASE RecvFails
  <2>1. /\ pc = "recv" /\ pc' = "idle" /\ UNCHANGED <<flash, flag, flash_addr, base, ignored, done>>
    BY <1>7 DEF RecvFails, Answer, hist, req
  <2>2. SUFFICES ASSUME flag, ~ignored, base = 0, flash_addr > 0 PROVE Wrong(flash)
    BY <2>1 DEF TypeInv, TypeOK
  <2>3. flash_addr = cur /\ cur < len /\ len \in Lengths /\ cur \in Nat /\ len \in Nat
    BY <2>1, <2>2 DEF TypeInv, TypeOK, Counters
  <2>4. cur \in 0..ImageSize-1 /\ cur \in Address
    BY <2>3, RegionHoldsImage, SizesArePos DEF RequestsFit, Address
  <2>5. flash[cur] = Blank
    BY <2>1, <2>2, <2>3, <2>4, BlockOrder DEF Frontier, Neat, Clean
  <2> QED  BY <2>4, <2>5, ShortIsWrong
<1>8. CASE ProgramFails
  <2>1. /\ pc = "program" /\ done < Chunk /\ pc' = "idle" /\ UNCHANGED <<flash, flag, base, ignored>>
    BY <1>8 DEF ProgramFails, Answer
  <2>2. SUFFICES ASSUME flag, ~ignored, base = 0 PROVE Wrong(flash)
    BY <2>1 DEF TypeInv, TypeOK
  <2>3. flash_addr + done \in 0..ImageSize-1
    BY <2>1, <2>2, ChunkFits, SizesArePos DEF TypeInv, TypeOK, Counters, RequestsFit
  <2>4. flash[flash_addr + done] = Blank
    BY <2>1, <2>2, FrontierIsBlank DEF Neat
  <2> QED  BY <2>3, <2>4, ShortIsWrong
<1>9. CASE End \/ RestartMissed
  <2>1. /\ pc \in {"idle", "restart"} /\ pc' \in {"idle", "restart"}
        /\ UNCHANGED <<flash, flag, ignored>>
    BY <1>9 DEF End, RestartMissed, Answer, hist
  <2> QED  BY <2>1
<1>10. CASE Restart \/ PowerCut
  BY <1>10 DEF Restart, PowerCut, Boot
<1>11. CASE OpenFails
  BY <1>11 DEF OpenFails, Answer
<1>12. CASE EraseFails
  <2>1. /\ pc = "erase" /\ ignored' /\ done' = 0 /\ done = 0
        /\ UNCHANGED <<flash, flag, flash_addr, base>>
    BY <1>12 DEF EraseFails, TypeInv, Counters
  <2> QED  BY <2>1
<1>13. CASE UNCHANGED vars
  BY <1>13 DEF vars, req, hist
<1> QED  BY <1>1, <1>2, <1>3, <1>4, <1>5, <1>6, <1>7, <1>8, <1>9, <1>10, <1>11, <1>12,
            <1>13 DEF Next, SendData, Task, Faulty

-----------------------------------------------------------------------------
LEMMA RecordErasedNext ==
  ASSUME TypeInv, OpenIsWrong, RecordErased, [Next]_vars
  PROVE  RecordErased'
<1> USE DEF RecordErased
<1>1. CASE End
  <2>1. /\ pc = "idle" /\ UNCHANGED <<flash, flag, ignored>>
        /\ ~Verified(flash) => sys' = sys
    BY <1>1 DEF End, hist
  <2> QED  BY <2>1, WrongIsNotVerified DEF OpenIsWrong
<1>2. CASE OpenWriter
  BY <1>2, Zenon DEF OpenWriter, EraseRecord
<1>3. CASE CloseWrite
  <2>1. pc = "program" /\ UNCHANGED <<sys, ignored>>
    BY <1>3 DEF CloseWrite, hist
  <2> QED  BY <2>1 DEF TypeInv, Counters
<1>4. CASE SendData \/ (\E n \in 1..(len - cur) : RecvPiece(n)) \/ WriterIsOpen \/ EraseBlocks
           \/ ProgramPage \/ Restart \/ PowerCut \/ UNCHANGED vars
  BY <1>4 DEF SendData, Data, RecvPiece, WriterIsOpen, EraseBlocks, ProgramPage, Restart, PowerCut,
              Boot, hist, vars
<1>5. CASE RecvFails \/ OpenFails \/ EraseFails \/ ProgramFails \/ RestartMissed
  BY <1>5 DEF RecvFails, OpenFails, EraseFails, ProgramFails, RestartMissed, hist
<1> QED  BY <1>1, <1>2, <1>3, <1>4, <1>5 DEF Next, Task, Faulty

LEMMA SelectedNext ==
  ASSUME TypeInv, RecordErased, SelectedImageIsComplete, [Next]_vars
  PROVE  SelectedImageIsComplete'
<1> USE DEF SelectedImageIsComplete
<1>1. CASE End
  <2>1. UNCHANGED <<flash, ignored>> /\ (~Verified(flash) => sys' = sys)
    BY <1>1 DEF End, hist
  <2> QED  BY <2>1
<1>2. CASE OpenWriter
  <2>1. sys' = FALSE \/ ignored' = TRUE
    BY <1>2, Zenon DEF OpenWriter, EraseRecord
  <2>2. ~sys' \/ ignored'
    BY <2>1, Zenon
  <2> QED  BY <2>2
<1>3. CASE EraseBlocks \/ ProgramPage
  <2>1. pc \in {"erase", "program"} /\ UNCHANGED <<sys, ignored>>
    BY <1>3 DEF EraseBlocks, ProgramPage, hist
  <2> QED  BY <2>1 DEF RecordErased, TypeInv, Counters
<1>4. CASE SendData \/ (\E n \in 1..(len - cur) : RecvPiece(n)) \/ WriterIsOpen \/ CloseWrite
           \/ Restart \/ PowerCut \/ UNCHANGED vars
  BY <1>4 DEF SendData, Data, RecvPiece, WriterIsOpen, CloseWrite, Restart, PowerCut,
              Boot, hist, vars
<1>5. CASE RecvFails \/ OpenFails \/ EraseFails \/ ProgramFails \/ RestartMissed
  BY <1>5 DEF RecvFails, OpenFails, EraseFails, ProgramFails, RestartMissed, hist
<1> QED  BY <1>1, <1>2, <1>3, <1>4, <1>5 DEF Next, Task, Faulty

LEMMA ImageInit == Init => Frontier /\ Behind /\ OpenIsWrong /\ RecordErased
                           /\ SelectedImageIsComplete /\ AckedImageInPlace
BY DEF Init, Frontier, Behind, OpenIsWrong, RecordErased, SelectedImageIsComplete,
       AckedImageInPlace, Writing

(* Whenever the power goes, the record that selects the new image is only  *)
(* there when the image is, or a failure nobody looks at came before: for  *)
(* every size, cut and number of failures, as long as no request is longer *)
(* than the image.                                                         *)
THEOREM SelectedImageIsCompleteAlways == RequestsFit => (Spec => []SelectedImageIsComplete)
<1> SUFFICES ASSUME RequestsFit PROVE Spec => []SelectedImageIsComplete
  OBVIOUS
<1> DEFINE IInv == TypeInv /\ Frontier /\ OpenIsWrong /\ RecordErased /\ SelectedImageIsComplete
<1>1. Init => IInv
  BY TypeInit, ImageInit
<1>2. IInv /\ [Next]_vars => IInv'
  BY TypeNext, FrontierNext, OpenIsWrongNext, RecordErasedNext, SelectedNext
<1>3. IInv => SelectedImageIsComplete
  OBVIOUS
<1> QED  BY <1>1, <1>2, <1>3, PTL DEF Spec

(* An acknowledged transfer has the image where UPDATE_END looks for it,   *)
(* and the writer is closed.                                               *)
THEOREM AckedImageInPlaceAlways == RequestsFit => (Spec => []AckedImageInPlace)
<1> SUFFICES ASSUME RequestsFit PROVE Spec => []AckedImageInPlace
  OBVIOUS
<1> DEFINE IInv == TypeInv /\ Frontier /\ Behind /\ AckedImageInPlace
<1>1. Init => IInv
  BY TypeInit, ImageInit
<1>2. IInv /\ [Next]_vars => IInv'
  BY TypeNext, FrontierNext, BehindNext, AckedNext
<1>3. IInv => AckedImageInPlace
  OBVIOUS
<1> QED  BY <1>1, <1>2, <1>3, PTL DEF Spec
=============================================================================
