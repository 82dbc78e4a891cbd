------------------------- MODULE WriteRequestProofs -------------------------
(***************************************************************************)
(* What WriteRequest's runs show for sectors of four bytes, proved for     *)
(* every sector size and every length of a request.                        *)
(*                                                                         *)
(* Layout is the inductive invariant: it ties the payload position to the  *)
(* next sector and the carry buffer. Counting adds what the loop condition *)
(* on curSize is worth for a request the phone sends in one packet.        *)
(***************************************************************************)
EXTENDS WriteRequest, TLAPS

Running == pc \in {"recv", "rest", "send"}

Cut == segmented \in BOOLEAN

Sizes ==
  /\ pc \in {"idle", "recv", "rest", "send"}
  /\ reply \in {"none", "ok", "error", "lost", "silent"}
  /\ len \in Nat /\ pos \in Nat /\ pay \in Nat /\ curSize \in Nat /\ addr \in Nat
  /\ secSize \in Cells
  /\ \E l \in 0..MaxSectors : len = l * SectorSize
  /\ addr * SectorSize <= pos
  /\ pos + pay <= len

Buffers ==
  /\ sector \in [Cells -> Int]
  /\ disk \in [Sectors -> [Cells -> Int]]

NothingCarried == pc = "rest" => secSize = 0

(* A receive starts only when the piece before it is used up. *)
PayOnlyInRest == pc \in {"recv", "send"} => pay = 0

(* The first a sectors of d are written, each with its own bytes. *)
HoldsUpTo(d, a) ==
  \A s \in Sectors : d[s] = IF s < a THEN [c \in Cells |-> s * SectorSize + c] ELSE Blank

Layout ==
  Sizes /\ Buffers /\ NothingCarried /\ PayOnlyInRest /\ NoByteLost /\ DiskHoldsPrefix

(* "ok" is the answer to the request that has ended. *)
OkOnlyAtRest == reply = "ok" => pc = "idle"

Counting ==
  /\ Running /\ ~segmented => curSize = addr * SectorSize
  /\ pc = "send" => curSize >= len
  /\ OkOnlyAtRest
  /\ WholeAckedIsStored

-----------------------------------------------------------------------------
(* OP_DIV and OP_MOD split a byte count into whole sectors and a tail.     *)
LEMMA DivMod ==
  ASSUME NEW x \in Nat
  PROVE  /\ OP_DIV(x) \in Nat
         /\ OP_MOD(x) \in Cells
         /\ x = OP_DIV(x) * SectorSize + OP_MOD(x)
<1>1. x \div SectorSize \in Nat
  BY SectorSizeIsPos
<1>2. (x % SectorSize) \in 0..(SectorSize - 1)
  BY SectorSizeIsPos
<1>3. x = ((x \div SectorSize) * SectorSize) + (x % SectorSize)
  BY SectorSizeIsPos
<1> QED  BY <1>1, <1>2, <1>3 DEF OP_DIV, OP_MOD, Cells

(* OP_DIV undoes the multiplication by the sector size. *)
LEMMA DivOfWhole ==
  ASSUME NEW a \in Nat
  PROVE  OP_DIV(a * SectorSize) = a
BY SectorSizeIsPos DEF OP_DIV

(* Sector numbers are ordered as the offsets of the sectors. *)
LEMMA SectorOrder ==
  ASSUME NEW a \in Nat, NEW b \in Nat, a * SectorSize <= b * SectorSize
  PROVE  a <= b
BY SectorSizeIsPos

(* An offset before the end of sector b is in a sector up to b. *)
LEMMA SectorBefore ==
  ASSUME NEW a \in Nat, NEW b \in Nat, a * SectorSize < b * SectorSize
  PROVE  a + 1 <= b /\ (a + 1) * SectorSize <= b * SectorSize
BY SectorSizeIsPos

(* Sector s lies s - a sectors behind sector a. *)
LEMMA OffsetOfSector ==
  ASSUME NEW a \in Nat, NEW s \in Nat
  PROVE  a * SectorSize + (s - a) * SectorSize = s * SectorSize
BY SectorSizeIsPos

(* memcpy into the carry buffer leaves an integer in every cell. *)
LEMMA CopyInType ==
  ASSUME NEW buf \in [Cells -> Int], NEW from \in Int, NEW p \in Int, NEW n \in Int
  PROVE  CopyIn(buf, from, p, n) \in [Cells -> Int]
BY SectorSizeIsPos DEF CopyIn, Cells

(* A write of whole sectors keeps the disk a disk. *)
LEMMA DiskWriteType ==
  ASSUME NEW d \in [Sectors -> [Cells -> Int]], NEW a \in Nat, NEW p \in Nat, NEW k \in Nat
  PROVE  DiskWriteSectors(d, a, p, k) \in [Sectors -> [Cells -> Int]]
<1> SUFFICES ASSUME NEW s \in Sectors
             PROVE  (IF a <= s /\ s < a + k
                     THEN [c \in Cells |-> p + (s - a) * SectorSize + c]
                     ELSE d[s]) \in [Cells -> Int]
  BY DEF DiskWriteSectors
<1>1. \A c \in Cells : p + (s - a) * SectorSize + c \in Int
  BY SectorSizeIsPos, MaxSectorsIsPos DEF Cells, Sectors
<1> QED  BY <1>1

(* k sectors written at a, from the payload offset of sector a, extend a   *)
(* disk that holds the first a sectors to one that holds a + k of them.    *)
LEMMA DiskWriteExtends ==
  ASSUME NEW d, NEW a \in Nat, NEW k \in Nat, HoldsUpTo(d, a)
  PROVE  HoldsUpTo(DiskWriteSectors(d, a, a * SectorSize, k), a + k)
<1> SUFFICES ASSUME NEW s \in Sectors
             PROVE  DiskWriteSectors(d, a, a * SectorSize, k)[s] =
                      IF s < a + k THEN [c \in Cells |-> s * SectorSize + c] ELSE Blank
  BY DEF HoldsUpTo
<1>0. s \in Nat
  BY MaxSectorsIsPos DEF Sectors
<1>1. DiskWriteSectors(d, a, a * SectorSize, k)[s] =
        IF a <= s /\ s < a + k
        THEN [c \in Cells |-> a * SectorSize + (s - a) * SectorSize + c]
        ELSE d[s]
  BY DEF DiskWriteSectors
<1>2. CASE a <= s /\ s < a + k
  <2>1. a * SectorSize + (s - a) * SectorSize = s * SectorSize
    BY <1>0, OffsetOfSector
  <2> QED  BY <1>1, <1>2, <2>1
<1>3. CASE s < a
  <2>1. d[s] = [c \in Cells |-> s * SectorSize + c]
    BY <1>3 DEF HoldsUpTo
  <2> QED  BY <1>0, <1>1, <1>3, <2>1
<1>4. CASE s >= a + k
  <2>1. ~(s < a)
    BY <1>0, <1>4
  <2>2. d[s] = Blank
    BY <2>1 DEF HoldsUpTo
  <2> QED  BY <1>0, <1>1, <1>4, <2>2
<1> QED  BY <1>0, <1>2, <1>3, <1>4

-----------------------------------------------------------------------------
(* Before the first request the disk is untouched and nothing is carried.  *)
LEMMA LayoutInit == Init => Layout
<1> SUFFICES ASSUME Init PROVE Layout
  OBVIOUS
<1>0. Blank \in [Cells -> Int]
  BY DEF Blank, NoByte
<1>1. 0 \in Cells /\ 0 * SectorSize = 0
  BY SectorSizeIsPos DEF Cells
<1>2. Sizes
  BY <1>1, MaxSectorsIsPos DEF Init, Sizes
<1>3. Buffers
  BY <1>0 DEF Init, Buffers
<1>4. DiskHoldsPrefix
  BY MaxSectorsIsPos DEF Init, DiskHoldsPrefix, Sectors
<1> QED  BY <1>2, <1>3, <1>4 DEF Layout, NothingCarried, PayOnlyInRest, NoByteLost, Init

(* A new request: the sectors that came with the header are written from   *)
(* the first one on, the tail is carried.                                  *)
LEMMA LayoutBegin ==
  ASSUME Layout, NEW l \in 1..MaxSectors, NEW n \in 0..(l * SectorSize), Begin(l, n)
  PROVE  Layout'
<1> DEFINE k == OP_DIV(n)
           r == OP_MOD(n)
<1>0. l \in Nat /\ SectorSize \in Nat /\ l * SectorSize \in Nat /\ n \in Nat
  BY SectorSizeIsPos, MaxSectorsIsPos
<1>1. k \in Nat /\ r \in Cells /\ n = k * SectorSize + r
  BY <1>0, DivMod
<1>2. r \in Nat /\ k * SectorSize \in Nat
  BY <1>0, <1>1 DEF Cells
<1>3. Blank \in [Cells -> Int]
  BY DEF Blank, NoByte
<1>4. [s \in Sectors |-> Blank] \in [Sectors -> [Cells -> Int]]
  BY <1>3
<1>5. sector' \in [Cells -> Int]
  BY <1>0, <1>1, <1>2, <1>3, CopyInType DEF Begin
<1>6. \A c \in 0..(r - 1) : sector'[c] = k * SectorSize + c
  BY <1>0, <1>1, <1>2 DEF Begin, CopyIn, Cells
<1>7. DiskWriteSectors([s \in Sectors |-> Blank], 0, 0, k) \in [Sectors -> [Cells -> Int]]
  BY <1>1, <1>4, DiskWriteType
<1>8. HoldsUpTo(DiskWriteSectors([s \in Sectors |-> Blank], 0, 0, k), k)
  <2>1. HoldsUpTo([s \in Sectors |-> Blank], 0)
    BY MaxSectorsIsPos DEF HoldsUpTo, Sectors
  <2>2. HoldsUpTo(DiskWriteSectors([s \in Sectors |-> Blank], 0, 0 * SectorSize, k), 0 + k)
    BY <1>1, <2>1, DiskWriteExtends
  <2> QED  BY <1>0, <1>1, <2>2
<1>9. len' = l * SectorSize /\ pos' = n /\ pay' = 0 /\ secSize' = r
  BY DEF Begin
<1>10. CASE /\ addr' = k
            /\ curSize' = n - r
            /\ disk' = DiskWriteSectors([s \in Sectors |-> Blank], 0, 0, k)
            /\ pc' = IF curSize' < len' THEN "recv" ELSE "send"
            /\ reply' = "none"
  <2>1. Sizes'
    BY <1>0, <1>1, <1>2, <1>9, <1>10 DEF Sizes
  <2>2. Buffers'
    BY <1>5, <1>7, <1>10 DEF Buffers
  <2>3. NothingCarried' /\ PayOnlyInRest'
    BY <1>9, <1>10 DEF NothingCarried, PayOnlyInRest
  <2>4. NoByteLost'
    BY <1>1, <1>6, <1>9, <1>10 DEF NoByteLost
  <2>5. DiskHoldsPrefix'
    BY <1>8, <1>10 DEF DiskHoldsPrefix, HoldsUpTo
  <2> QED  BY <2>1, <2>2, <2>3, <2>4, <2>5 DEF Layout
<1>11. CASE /\ addr' = 0 /\ curSize' = 0
            /\ disk' = [s \in Sectors |-> Blank]
            /\ Fail
  <2>1. Sizes'
    BY <1>0, <1>1, <1>2, <1>9, <1>11 DEF Sizes, Fail
  <2>2. Buffers'
    BY <1>4, <1>5, <1>11 DEF Buffers
  <2>3. NothingCarried' /\ PayOnlyInRest' /\ NoByteLost'
    BY <1>11 DEF NothingCarried, PayOnlyInRest, NoByteLost, Fail
  <2>4. DiskHoldsPrefix'
    BY <1>11, MaxSectorsIsPos DEF DiskHoldsPrefix, Sectors
  <2> QED  BY <2>1, <2>2, <2>3, <2>4 DEF Layout
<1> QED  BY <1>10, <1>11 DEF Begin

(* A piece that does not complete the carried sector is appended to it.    *)
LEMMA LayoutFillShort ==
  ASSUME Layout, NEW n \in Nat, FillShort(n)
  PROVE  Layout'
<1>0. pc = "recv" /\ n \in 1..(len - pos) /\ n < SectorSize - secSize
  BY DEF FillShort, Piece
<1>1. SectorSize \in Nat /\ secSize \in Nat /\ secSize \in Cells
  BY SectorSizeIsPos DEF Layout, Sizes, Cells
<1>2. /\ pos = addr * SectorSize + secSize
      /\ \A c \in 0..(secSize - 1) : sector[c] = addr * SectorSize + c
  BY <1>0 DEF Layout, NoByteLost
<1>3. addr \in Nat /\ addr * SectorSize \in Nat /\ pos \in Nat /\ len \in Nat
  BY <1>1 DEF Layout, Sizes
<1>4. /\ pos' = pos + n /\ secSize' = secSize + n /\ curSize' = curSize + n
      /\ len' = len /\ pay' = pay /\ addr' = addr /\ disk' = disk /\ reply' = reply
      /\ sector' = CopyIn(sector, secSize, pos, n)
      /\ pc' \in {"recv", "send"}
  BY DEF FillShort
<1>5. secSize + n \in Cells
  BY <1>0, <1>1 DEF Cells
<1>6. pos + n + pay <= len
  <2>1. pay = 0
    BY <1>0 DEF Layout, PayOnlyInRest
  <2> QED  BY <1>0, <1>3, <2>1
<1>7. Sizes'
  BY <1>0, <1>1, <1>2, <1>3, <1>4, <1>5, <1>6 DEF Layout, Sizes
<1>8. Buffers'
  BY <1>1, <1>3, <1>4, CopyInType DEF Layout, Buffers
<1>9. NoByteLost'
  <2>1. \A c \in 0..(secSize + n - 1) : sector'[c] = addr * SectorSize + c
    <3> SUFFICES ASSUME NEW c \in 0..(secSize + n - 1)
                 PROVE  sector'[c] = addr * SectorSize + c
      OBVIOUS
    <3>1. c \in Cells
      BY <1>0, <1>1 DEF Cells
    <3>2. sector'[c] = IF secSize <= c /\ c < secSize + n THEN pos + (c - secSize) ELSE sector[c]
      BY <1>4, <3>1 DEF CopyIn
    <3> QED  BY <1>1, <1>2, <1>3, <3>2
  <2> QED  BY <1>1, <1>2, <1>3, <1>4, <2>1 DEF NoByteLost
<1>10. NothingCarried' /\ PayOnlyInRest' /\ DiskHoldsPrefix'
  BY <1>0, <1>4 DEF Layout, NothingCarried, PayOnlyInRest, DiskHoldsPrefix
<1> QED  BY <1>7, <1>8, <1>9, <1>10 DEF Layout

(* A piece that completes the carried sector: the sector is written, or    *)
(* the write fails and nothing moves.                                      *)
LEMMA LayoutFillSector ==
  ASSUME Layout, NEW n \in Nat, FillSector(n)
  PROVE  Layout'
<1> DEFINE fill == SectorSize - secSize
<1>0. pc = "recv" /\ n \in 1..(len - pos) /\ n >= fill
  BY DEF FillSector, Piece
<1>1. SectorSize \in Nat /\ secSize \in Nat /\ secSize \in Cells /\ fill \in Nat
  BY SectorSizeIsPos DEF Layout, Sizes, Cells
<1>2. /\ pos = addr * SectorSize + secSize
      /\ \A c \in 0..(secSize - 1) : sector[c] = addr * SectorSize + c
  BY <1>0 DEF Layout, NoByteLost
<1>3. addr \in Nat /\ addr * SectorSize \in Nat /\ pos \in Nat /\ len \in Nat
  BY <1>1 DEF Layout, Sizes
<1>4. sector' \in [Cells -> Int]
  BY <1>1, <1>3, CopyInType DEF Layout, Buffers, FillSector
<1>5. len' = len
  BY DEF FillSector
<1>6. (addr + 1) * SectorSize = addr * SectorSize + SectorSize
  BY <1>1, <1>3
<1>7. CASE /\ disk' = [disk EXCEPT ![addr] = sector']
           /\ addr' = addr + 1
           /\ curSize' = curSize + SectorSize
           /\ pos' = pos + fill
           /\ pay' = n - fill
           /\ secSize' = 0
           /\ pc' = "rest"
           /\ reply' = reply
  <2>1. pos + fill = (addr + 1) * SectorSize /\ pos + fill <= len
    BY <1>0, <1>1, <1>2, <1>3, <1>6
  <2>2. sector' = [c \in Cells |-> addr * SectorSize + c]
    <3>1. \A c \in Cells : sector'[c] = addr * SectorSize + c
      <4> SUFFICES ASSUME NEW c \in Cells PROVE sector'[c] = addr * SectorSize + c
        OBVIOUS
      <4>1. c \in Nat /\ c < secSize + fill
        BY <1>1 DEF Cells
      <4>2. sector'[c] = IF secSize <= c /\ c < secSize + fill
                         THEN pos + (c - secSize) ELSE sector[c]
        BY DEF FillSector, CopyIn
      <4> QED  BY <1>1, <1>2, <1>3, <4>1, <4>2
    <3> QED  BY <1>4, <3>1
  <2>3. Sizes'
    <3>1. 0 \in Cells
      BY SectorSizeIsPos DEF Cells
    <3> QED  BY <1>0, <1>1, <1>3, <1>5, <1>7, <2>1, <3>1 DEF Layout, Sizes
  <2>4. Buffers'
    BY <1>4, <1>7 DEF Layout, Buffers
  <2>5. NothingCarried' /\ PayOnlyInRest'
    BY <1>7 DEF NothingCarried, PayOnlyInRest
  <2>6. NoByteLost'
    BY <1>1, <1>3, <1>7, <2>1 DEF NoByteLost
  <2>7. DiskHoldsPrefix'
    <3> SUFFICES ASSUME NEW s \in Sectors
                 PROVE  disk'[s] = IF s < addr + 1 THEN [c \in Cells |-> s * SectorSize + c]
                                                   ELSE Blank
      BY <1>7 DEF DiskHoldsPrefix
    <3>1. s \in Nat
      BY MaxSectorsIsPos DEF Sectors
    <3>2. disk[s] = IF s < addr THEN [c \in Cells |-> s * SectorSize + c] ELSE Blank
      BY DEF Layout, DiskHoldsPrefix
    <3>3. disk'[s] = IF s = addr THEN sector' ELSE disk[s]
      BY <1>7 DEF Layout, Buffers
    <3>4. CASE s = addr
      BY <1>3, <2>2, <3>3, <3>4
    <3>5. CASE s < addr
      BY <1>3, <3>1, <3>2, <3>3, <3>5
    <3>6. CASE s > addr
      BY <1>3, <3>1, <3>2, <3>3, <3>6
    <3> QED  BY <1>3, <3>1, <3>4, <3>5, <3>6
  <2> QED  BY <2>3, <2>4, <2>5, <2>6, <2>7 DEF Layout
<1>8. CASE /\ Fail
           /\ UNCHANGED <<disk, addr, curSize, pos, pay, secSize>>
  <2>1. Sizes'
    BY <1>5, <1>8 DEF Layout, Sizes, Fail
  <2>2. Buffers'
    BY <1>4, <1>8 DEF Layout, Buffers
  <2>3. NothingCarried' /\ PayOnlyInRest' /\ NoByteLost' /\ DiskHoldsPrefix'
    BY <1>8 DEF Layout, Fail, NothingCarried, PayOnlyInRest, NoByteLost, DiskHoldsPrefix
  <2> QED  BY <2>1, <2>2, <2>3 DEF Layout
<1> QED  BY <1>7, <1>8 DEF FillSector

(* The whole sectors of a piece are written and its tail is carried.       *)
LEMMA LayoutWriteRest ==
  ASSUME Layout, WriteRest
  PROVE  Layout'
<1> DEFINE k == OP_DIV(pay)
           r == OP_MOD(pay)
<1>0. pc = "rest" /\ secSize = 0
  BY DEF WriteRest, Layout, NothingCarried
<1>1. SectorSize \in Nat /\ pay \in Nat /\ addr \in Nat /\ pos \in Nat /\ len \in Nat
      /\ pos + pay <= len
  BY SectorSizeIsPos DEF Layout, Sizes
<1>2. k \in Nat /\ r \in Cells /\ r \in Nat /\ pay = k * SectorSize + r
  <2>1. k \in Nat /\ r \in Cells /\ pay = k * SectorSize + r
    BY <1>1, DivMod
  <2> QED  BY <1>1, <2>1 DEF Cells
<1>3. pos = addr * SectorSize /\ k * SectorSize \in Nat /\ addr * SectorSize \in Nat
  BY <1>0, <1>1, <1>2 DEF Layout, NoByteLost
<1>4. (addr + k) * SectorSize = addr * SectorSize + k * SectorSize
  BY <1>1, <1>2
<1>5. /\ sector' = CopyIn(sector, 0, pos + k * SectorSize, r)
      /\ secSize' = r /\ len' = len
  BY DEF WriteRest
<1>6. sector' \in [Cells -> Int]
  BY <1>1, <1>2, <1>3, <1>5, CopyInType DEF Layout, Buffers
<1>7. CASE /\ disk' = DiskWriteSectors(disk, addr, pos, k)
           /\ addr' = addr + k
           /\ curSize' = curSize + k * SectorSize
           /\ pos' = pos + pay
           /\ pay' = 0
           /\ pc' = IF curSize' < len' THEN "recv" ELSE "send"
           /\ reply' = reply
  <2>1. Sizes'
    BY <1>1, <1>2, <1>3, <1>4, <1>5, <1>7 DEF Layout, Sizes
  <2>2. Buffers'
    BY <1>1, <1>2, <1>6, <1>7, DiskWriteType DEF Layout, Buffers
  <2>3. NothingCarried' /\ PayOnlyInRest'
    BY <1>7 DEF NothingCarried, PayOnlyInRest
  <2>4. NoByteLost'
    <3>1. \A c \in 0..(r - 1) : sector'[c] = pos + k * SectorSize + c
      BY <1>1, <1>2, <1>3, <1>5 DEF CopyIn, Cells
    <3>2. \A c \in 0..(r - 1) : sector'[c] = (addr + k) * SectorSize + c
      BY <1>3, <1>4, <3>1
    <3>3. pos + pay = (addr + k) * SectorSize + r
      BY <1>1, <1>2, <1>3, <1>4
    <3> QED  BY <1>5, <1>7, <3>2, <3>3 DEF NoByteLost
  <2>5. DiskHoldsPrefix'
    <3>1. HoldsUpTo(disk, addr)
      BY DEF Layout, DiskHoldsPrefix, HoldsUpTo
    <3>2. HoldsUpTo(DiskWriteSectors(disk, addr, addr * SectorSize, k), addr + k)
      BY <1>1, <1>2, <3>1, DiskWriteExtends
    <3>3. HoldsUpTo(disk', addr')
      BY <1>3, <1>7, <3>2
    <3> QED  BY <3>3 DEF DiskHoldsPrefix, HoldsUpTo
  <2> QED  BY <2>1, <2>2, <2>3, <2>4, <2>5 DEF Layout
<1>8. CASE /\ Fail
           /\ UNCHANGED <<disk, addr, curSize, pos, pay>>
  <2>1. Sizes'
    BY <1>2, <1>5, <1>8 DEF Layout, Sizes, Fail
  <2>2. Buffers'
    BY <1>6, <1>8 DEF Layout, Buffers
  <2>3. NothingCarried' /\ PayOnlyInRest' /\ NoByteLost' /\ DiskHoldsPrefix'
    BY <1>8 DEF Layout, Fail, NothingCarried, PayOnlyInRest, NoByteLost, DiskHoldsPrefix
  <2> QED  BY <2>1, <2>2, <2>3 DEF Layout
<1> QED  BY <1>7, <1>8 DEF WriteRest

(* Layout is inductive: one step per action of the handler. *)
LEMMA LayoutNext == Layout /\ [Next]_vars => Layout'
<1> SUFFICES ASSUME Layout, [Next]_vars PROVE Layout'
  OBVIOUS
<1>1. CASE BeginEmpty
  <2>1. 0 \in Cells /\ 0 * SectorSize = 0 /\ Blank \in [Cells -> Int]
    BY SectorSizeIsPos DEF Cells, Blank, NoByte
  <2>2. Sizes'
    BY <1>1, <2>1, MaxSectorsIsPos DEF BeginEmpty, Layout, Sizes
  <2>3. Buffers' /\ DiskHoldsPrefix'
    BY <1>1, <2>1, MaxSectorsIsPos DEF BeginEmpty, Buffers, DiskHoldsPrefix, Sectors
  <2>4. NothingCarried' /\ PayOnlyInRest' /\ NoByteLost'
    BY <1>1 DEF BeginEmpty, NothingCarried, PayOnlyInRest, NoByteLost
  <2> QED  BY <2>2, <2>3, <2>4 DEF Layout
<1>2. ASSUME NEW l \in 1..MaxSectors, NEW n \in 0..(l * SectorSize), Begin(l, n)
      PROVE  Layout'
  BY <1>2, LayoutBegin
<1>3. CASE RecvFails
  BY <1>3 DEF RecvFails, Fail, Layout, Sizes, Buffers, NothingCarried, PayOnlyInRest,
              NoByteLost, DiskHoldsPrefix
<1>4. ASSUME NEW n \in 1..(MaxSectors * SectorSize),
             FillShort(n) \/ FillSector(n) \/ NoCarry(n)
      PROVE  Layout'
  <2>1. n \in Nat
    BY SectorSizeIsPos, MaxSectorsIsPos
  <2>2. CASE NoCarry(n)
    <3>1. pc = "recv" /\ n \in 1..(len - pos) /\ pos \in Nat /\ len \in Nat
      BY <2>2 DEF NoCarry, Piece, Layout, Sizes
    <3>2. Sizes'
      BY <2>1, <2>2, <3>1 DEF NoCarry, Layout, Sizes
    <3>3. Buffers' /\ NothingCarried' /\ PayOnlyInRest' /\ NoByteLost' /\ DiskHoldsPrefix'
      BY <2>2 DEF NoCarry, Layout, Buffers, NothingCarried, PayOnlyInRest, NoByteLost,
                  DiskHoldsPrefix
    <3> QED  BY <3>2, <3>3 DEF Layout
  <2> QED  BY <1>4, <2>1, <2>2, LayoutFillShort, LayoutFillSector
<1>5. CASE WriteRest
  BY <1>5, LayoutWriteRest
<1>6. CASE Reply
  BY <1>6 DEF Reply, Layout, Sizes, Buffers, NothingCarried, PayOnlyInRest, NoByteLost,
              DiskHoldsPrefix
<1>7. CASE UNCHANGED vars
  BY <1>7 DEF vars, Layout, Sizes, Buffers, NothingCarried, PayOnlyInRest, NoByteLost,
              DiskHoldsPrefix
<1> QED  BY <1>1, <1>2, <1>3, <1>4, <1>5, <1>6, <1>7 DEF Next, Receive

(* The invariant of the handler, for every sector size, request length and *)
(* way the phone's packets are cut.                                        *)
THEOREM LayoutInvariant == Spec => []Layout
BY LayoutInit, LayoutNext, PTL DEF Spec

(* How a request is cut is settled when it begins. *)
LEMMA CutInvariant == Spec => []Cut
<1>1. Init => Cut
  BY DEF Init, Cut
<1>2. Cut /\ [Next]_vars => Cut'
  BY DEF Cut, Next, Receive, vars, BeginEmpty, Begin, RecvFails, FillShort, FillSector,
         NoCarry, WriteRest, Reply
<1> QED  BY <1>1, <1>2, PTL DEF Spec

(* The sectors on the disk never reach beyond the request, nor the request *)
(* beyond the longest one.                                                 *)
LEMMA LayoutBounds ==
  Layout => /\ addr <= OP_DIV(len) /\ OP_DIV(len) \in 0..MaxSectors
            /\ len = OP_DIV(len) * SectorSize
            /\ len \in 0..(MaxSectors * SectorSize)
<1> SUFFICES ASSUME Layout
             PROVE  /\ addr <= OP_DIV(len) /\ OP_DIV(len) \in 0..MaxSectors
                    /\ len = OP_DIV(len) * SectorSize
                    /\ len \in 0..(MaxSectors * SectorSize)
  OBVIOUS
<1>1. PICK l \in 0..MaxSectors : len = l * SectorSize
  BY DEF Layout, Sizes
<1>2. l \in Nat /\ addr \in Nat /\ pos \in Nat /\ pay \in Nat /\ len \in Nat
  BY MaxSectorsIsPos DEF Layout, Sizes
<1>3. OP_DIV(len) = l
  BY <1>1, <1>2, DivOfWhole
<1>4. addr * SectorSize <= l * SectorSize
  BY <1>1, <1>2, SectorSizeIsPos DEF Layout, Sizes
<1>5. addr <= l
  BY <1>2, <1>4, SectorOrder
<1>6. l * SectorSize <= MaxSectors * SectorSize
  BY <1>2, SectorSizeIsPos, MaxSectorsIsPos
<1> QED  BY <1>1, <1>2, <1>3, <1>5, <1>6

(* Every variable of the handler keeps its type: in particular curSize,    *)
(* addr and the carry buffer never run over their bounds.                  *)
THEOREM TypeCorrect == Spec => []TypeOK
<1>1. ASSUME Layout, Cut PROVE TypeOK
  <2>1. /\ len \in 0..(MaxSectors * SectorSize)
        /\ addr <= OP_DIV(len) /\ OP_DIV(len) \in 0..MaxSectors
    BY <1>1, LayoutBounds
  <2>2. /\ len \in Nat /\ pos \in Nat /\ pay \in Nat /\ addr \in Nat
        /\ addr * SectorSize <= pos /\ pos + pay <= len
    BY <1>1 DEF Layout, Sizes
  <2>3. addr \in 0..MaxSectors
    BY <2>1, <2>2, MaxSectorsIsPos
  <2>4. pos \in 0..len /\ pay \in 0..(len - pos)
    BY <2>2
  <2> QED  BY <1>1, <2>1, <2>3, <2>4 DEF Layout, Sizes, Buffers, Cut, TypeOK
<1> QED  BY <1>1, LayoutInvariant, CutInvariant, PTL

(* diskWRITE puts every byte in its own place, however the payload is cut. *)
THEOREM DiskHoldsPrefixAlways == Spec => []DiskHoldsPrefix
<1>1. Layout => DiskHoldsPrefix
  BY DEF Layout
<1> QED  BY <1>1, LayoutInvariant, PTL

(* What came from the phone is on the disk or in the carry buffer.         *)
THEOREM NoByteLostAlways == Spec => []NoByteLost
<1>1. Layout => NoByteLost
  BY DEF Layout
<1> QED  BY <1>1, LayoutInvariant, PTL

-----------------------------------------------------------------------------
(* A request sent in one packet never leaves a carried sector short: every *)
(* piece but the last is whole sectors, and the last completes it.         *)
LEMMA NoFillShort ==
  ASSUME ~segmented, Layout, NEW n \in Nat, FillShort(n)
  PROVE  FALSE
<1>0. /\ pc = "recv" /\ n \in 1..(len - pos) /\ secSize > 0
      /\ n < SectorSize - secSize
      /\ OP_MOD(n) = 0 \/ n = len - pos
  BY DEF FillShort, Piece
<1>1. SectorSize \in Nat /\ secSize \in Nat /\ addr \in Nat /\ pos \in Nat /\ len \in Nat
  BY SectorSizeIsPos DEF Layout, Sizes, Cells
<1>2. pos = addr * SectorSize + secSize /\ addr * SectorSize \in Nat
  BY <1>0, <1>1 DEF Layout, NoByteLost
<1>3. CASE OP_MOD(n) = 0
  <2>1. OP_DIV(n) \in Nat /\ n = OP_DIV(n) * SectorSize
    BY <1>1, <1>3, DivMod
  <2>2. OP_DIV(n) * SectorSize < 1 * SectorSize
    BY <1>0, <1>1, <2>1
  <2>3. OP_DIV(n) + 1 <= 1
    BY <2>1, <2>2, SectorBefore
  <2>4. OP_DIV(n) = 0
    BY <2>1, <2>3
  <2> QED  BY <1>0, <1>1, <2>1, <2>4
<1>4. CASE n = len - pos
  <2>1. PICK l \in 0..MaxSectors : len = l * SectorSize
    BY DEF Layout, Sizes
  <2>2. l \in Nat
    BY MaxSectorsIsPos
  <2>3. addr * SectorSize < l * SectorSize
    BY <1>0, <1>1, <1>2, <2>1
  <2>4. (addr + 1) * SectorSize <= l * SectorSize
    BY <1>1, <2>2, <2>3, SectorBefore
  <2>5. (addr + 1) * SectorSize = addr * SectorSize + SectorSize
    BY <1>1
  <2> QED  BY <1>0, <1>1, <1>2, <1>4, <2>1, <2>4, <2>5
<1> QED  BY <1>0, <1>3, <1>4

(* curSize counts the sectors written, as long as no short piece comes.    *)
LEMMA CountingNext ==
  ASSUME Layout, Counting, [Next]_vars
  PROVE  Counting'
<1>0. SectorSize \in Nat /\ addr \in Nat /\ curSize \in Nat /\ len \in Nat /\ pos \in Nat
      /\ addr * SectorSize <= pos /\ pos <= len /\ addr * SectorSize \in Nat
  BY SectorSizeIsPos DEF Layout, Sizes
<1>1. CASE BeginEmpty
  BY <1>1 DEF BeginEmpty, Counting, Running, WholeAckedIsStored, AckedIsStored, OkOnlyAtRest
<1>2. ASSUME NEW l \in 1..MaxSectors, NEW n \in 0..(l * SectorSize), Begin(l, n)
      PROVE  Counting'
  <2>0. n \in Nat /\ l * SectorSize \in Nat
    BY SectorSizeIsPos, MaxSectorsIsPos
  <2>1. n - OP_MOD(n) = OP_DIV(n) * SectorSize
    <3>1. OP_DIV(n) * SectorSize \in Nat
      BY <1>0, <2>0, DivMod
    <3>2. OP_MOD(n) \in Nat
      BY <1>0, <2>0, DivMod DEF Cells
    <3> QED  BY <2>0, <3>1, <3>2, DivMod
  <2>2. OP_DIV(n) * SectorSize \in Nat
    BY <1>0, <2>0, DivMod
  <2>3. CASE /\ addr' = OP_DIV(n)
             /\ curSize' = n - OP_MOD(n)
             /\ pc' = IF curSize' < len' THEN "recv" ELSE "send"
             /\ reply' = "none"
    <3>1. len' = l * SectorSize
      BY <1>2 DEF Begin
    <3> QED  BY <2>0, <2>1, <2>2, <2>3, <3>1 DEF Counting, Running, WholeAckedIsStored, AckedIsStored, OkOnlyAtRest
  <2>4. CASE Fail
    BY <2>4 DEF Fail, Counting, Running, WholeAckedIsStored, AckedIsStored, OkOnlyAtRest
  <2> QED  BY <1>2, <2>3, <2>4 DEF Begin
<1>3. CASE RecvFails
  BY <1>3 DEF RecvFails, Fail, Counting, Running, WholeAckedIsStored, AckedIsStored, OkOnlyAtRest
<1>4. ASSUME NEW n \in 1..(MaxSectors * SectorSize),
             FillShort(n) \/ FillSector(n) \/ NoCarry(n)
      PROVE  Counting'
  <2>1. n \in Nat
    BY SectorSizeIsPos, MaxSectorsIsPos
  <2>2. CASE FillShort(n)
    <3>1. CASE ~segmented
      BY <2>1, <2>2, <3>1, NoFillShort
    <3>2. CASE segmented
      <4>1. /\ segmented' = segmented /\ reply' = reply /\ reply # "ok"
            /\ pc' = IF curSize' < len' THEN "recv" ELSE "send"
            /\ curSize' = curSize + n /\ len' = len
        BY <2>2 DEF FillShort, OkOnlyAtRest, Counting
      <4> QED  BY <1>0, <2>1, <3>2, <4>1
               DEF Counting, WholeAckedIsStored, AckedIsStored, OkOnlyAtRest
    <3> QED  BY <3>1, <3>2
  <2>3. CASE FillSector(n)
    <3>1. (addr + 1) * SectorSize = addr * SectorSize + SectorSize
      BY <1>0
    <3>2. CASE /\ addr' = addr + 1
               /\ curSize' = curSize + SectorSize
               /\ pc' = "rest"
               /\ reply' = reply
      <4>1. pc = "recv" /\ len' = len /\ segmented' = segmented
        BY <2>3 DEF FillSector
      <4>2. ~segmented' => curSize' = addr' * SectorSize
        BY <1>0, <3>1, <3>2, <4>1 DEF Counting, Running
      <4>3. reply # "ok"
        BY <4>1 DEF OkOnlyAtRest, Counting
      <4> QED  BY <3>2, <4>2, <4>3 DEF Counting, Running, WholeAckedIsStored, AckedIsStored, OkOnlyAtRest
    <3>3. CASE Fail
      BY <3>3 DEF Fail, Counting, Running, WholeAckedIsStored, AckedIsStored, OkOnlyAtRest
    <3> QED  BY <2>3, <3>2, <3>3 DEF FillSector
  <2>4. CASE NoCarry(n)
    BY <2>4 DEF NoCarry, Counting, Running, WholeAckedIsStored, AckedIsStored, OkOnlyAtRest
  <2> QED  BY <1>4, <2>2, <2>3, <2>4
<1>5. CASE WriteRest
  <2> DEFINE k == OP_DIV(pay)
  <2>0. pay \in Nat
    BY DEF Layout, Sizes
  <2>1. k \in Nat /\ k * SectorSize \in Nat
    BY <1>0, <2>0, DivMod
  <2>2. (addr + k) * SectorSize = addr * SectorSize + k * SectorSize
    BY <1>0, <2>1
  <2>3. pc = "rest" /\ len' = len /\ reply # "ok" /\ segmented' = segmented
    BY <1>5 DEF WriteRest, Counting, OkOnlyAtRest
  <2>4. CASE /\ addr' = addr + k
             /\ curSize' = curSize + k * SectorSize
             /\ pc' = IF curSize' < len' THEN "recv" ELSE "send"
             /\ reply' = reply
    <3>1. ~segmented' => curSize' = addr' * SectorSize
      BY <1>0, <2>1, <2>2, <2>3, <2>4 DEF Counting, Running
    <3>2. pc' = "send" => curSize' >= len'
      BY <1>0, <2>1, <2>3, <2>4
    <3> QED  BY <2>3, <2>4, <3>1, <3>2 DEF Counting, WholeAckedIsStored, AckedIsStored, OkOnlyAtRest
  <2>5. CASE Fail
    BY <2>5 DEF Fail, Counting, Running, WholeAckedIsStored, AckedIsStored, OkOnlyAtRest
  <2> QED  BY <1>5, <2>4, <2>5 DEF WriteRest
<1>6. CASE Reply
  <2>1. ~segmented => addr * SectorSize = len
    BY <1>0, <1>6 DEF Reply, Counting, Running
  <2> QED  BY <1>6, <2>1 DEF Reply, Counting, Running, WholeAckedIsStored, AckedIsStored, OkOnlyAtRest
<1>7. CASE UNCHANGED vars
  BY <1>7 DEF vars, Counting, Running, WholeAckedIsStored, AckedIsStored, OkOnlyAtRest
<1> QED  BY <1>1, <1>2, <1>3, <1>4, <1>5, <1>6, <1>7 DEF Next, Receive

(* The response code tells the truth when the request came in one packet:  *)
(* an acknowledged write is on the disk.                                   *)
THEOREM WholeAckedIsStoredAlways == Spec => []WholeAckedIsStored
<1>1. Init => Counting
  BY DEF Init, Counting, Running, WholeAckedIsStored, AckedIsStored, OkOnlyAtRest
<1>2. Layout /\ Counting /\ [Next]_vars => Counting'
  BY CountingNext
<1>3. Counting => WholeAckedIsStored
  BY DEF Counting
<1> QED  BY <1>1, <1>2, <1>3, LayoutInvariant, PTL DEF Spec

-----------------------------------------------------------------------------
(* The handler implements the write service: the phone sees sectors arrive *)
(* in order and, for a request in one packet, an answer that tells the     *)
(* truth, whatever the sizes of the pieces and the failures.               *)
THEOREM ServiceImplemented == Spec => ImplementsService
<1>1. Init => Service!SInit
  <2>1. 0 * SectorSize = 0
    BY SectorSizeIsPos
  <2>2. OP_DIV(0) = 0
    BY <2>1, DivOfWhole
  <2> QED  BY <2>2 DEF Init, Service!SInit
<1>2. Init => Counting
  BY DEF Init, Counting, Running, WholeAckedIsStored, AckedIsStored, OkOnlyAtRest
<1>3. Layout /\ Counting /\ [Next]_vars => Counting'
  BY CountingNext
<1>4. ASSUME Layout, Layout', Counting, [Next]_vars
      PROVE  [Service!SNext]_(Service!sVars)
  <2> DEFINE want == OP_DIV(len)
  <2>0. /\ addr <= want /\ want \in 0..MaxSectors /\ addr \in Nat
        /\ addr' <= want' /\ want' \in 0..MaxSectors /\ addr' \in Nat
        /\ len = want * SectorSize
    <3>1. addr <= want /\ want \in 0..MaxSectors /\ len = want * SectorSize
      BY <1>4, LayoutBounds
    <3>2. addr' <= want' /\ want' \in 0..MaxSectors
      <4>1. (Layout => addr <= OP_DIV(len) /\ OP_DIV(len) \in 0..MaxSectors)'
        BY LayoutBounds, PTL
      <4> QED  BY <1>4, <4>1 DEF OP_DIV
    <3> QED  BY <1>4, <3>1, <3>2 DEF Layout, Sizes
  <2>1. addr \in 0..want /\ addr' \in 0..want' /\ want \in Nat /\ want' \in Nat
    BY <2>0, MaxSectorsIsPos
  <2>2. CASE BeginEmpty
    BY <2>0, <2>1, <2>2 DEF BeginEmpty, Service!SNext, Service!Request
  <2>3. ASSUME NEW l \in 1..MaxSectors, NEW n \in 0..(l * SectorSize), Begin(l, n)
        PROVE  Service!SNext
    <3>1. pc = "idle" /\ (pc' \in {"recv", "send"} \/ (pc' = "idle" /\ reply' = "error"))
      BY <2>3 DEF Begin, Fail
    <3> QED  BY <2>0, <2>1, <3>1 DEF Service!SNext, Service!Request
  <2>4. CASE RecvFails
    BY <2>0, <2>1, <2>4 DEF RecvFails, Fail, Service!SNext, Service!Store
  <2>5. ASSUME NEW n \in 1..(MaxSectors * SectorSize),
               FillShort(n) \/ FillSector(n) \/ NoCarry(n)
        PROVE  [Service!SNext]_(Service!sVars)
    <3>1. CASE FillShort(n)
      BY <3>1 DEF FillShort, Service!sVars
    <3>2. CASE FillSector(n)
      <4>1. /\ pc = "recv" /\ len' = len
            /\ addr' \in {addr, addr + 1}
            /\ pc' = "rest" \/ (pc' = "idle" /\ reply' = "error")
        BY <3>2 DEF FillSector, Fail
      <4> QED  BY <2>0, <2>1, <4>1 DEF Service!SNext, Service!Store
    <3>3. CASE NoCarry(n)
      BY <3>3 DEF NoCarry, Service!sVars
    <3> QED  BY <2>5, <3>1, <3>2, <3>3
  <2>6. CASE WriteRest
    <3>1. pay \in Nat
      BY <1>4 DEF Layout, Sizes
    <3>2. OP_DIV(pay) \in Nat
      BY <3>1, DivMod
    <3>3. /\ pc = "rest" /\ len' = len
          /\ addr' \in {addr, addr + OP_DIV(pay)}
          /\ pc' \in {"recv", "send"} \/ (pc' = "idle" /\ reply' = "error")
      BY <2>6 DEF WriteRest, Fail
    <3> QED  BY <2>0, <2>1, <3>2, <3>3 DEF Service!SNext, Service!Store
  <2>7. CASE Reply
    <3>1. ~segmented => addr * SectorSize = len
      <4>1. len \in Nat /\ addr * SectorSize <= len /\ addr * SectorSize \in Nat
        BY <1>4, SectorSizeIsPos DEF Layout, Sizes
      <4> QED  BY <1>4, <2>7, <4>1 DEF Reply, Counting, Running
    <3>2. ~segmented => addr = want
      BY <2>0, <3>1, DivOfWhole
    <3>3. /\ pc = "send" /\ len' = len /\ addr' = addr /\ segmented' = segmented
          /\ pc' = "idle" /\ reply' \in {"ok", "lost"}
      BY <2>7 DEF Reply
    <3>4. CASE segmented
      BY <2>0, <2>1, <3>3, <3>4 DEF Service!SNext, Service!Store
    <3>5. CASE ~segmented
      BY <3>2, <3>3, <3>5 DEF Service!SNext, Service!Answer
    <3> QED  BY <3>4, <3>5
  <2>8. CASE UNCHANGED vars
    BY <2>8 DEF vars, Service!sVars
  <2> QED  BY <1>4, <2>2, <2>3, <2>4, <2>5, <2>6, <2>7, <2>8 DEF Next, Receive
<1> QED
  BY <1>1, <1>2, <1>3, <1>4, LayoutInvariant, PTL
  DEF Spec, ImplementsService, Service!SSpec
=============================================================================
