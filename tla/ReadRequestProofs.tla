------------------------- MODULE ReadRequestProofs -------------------------
(***************************************************************************)
(* A read for every size of sector, buffer, packet and window, every cut   *)
(* of the packages and any number of failures: what the phone gets is the  *)
(* header and the sectors in order, and it fits how the read ended.        *)
(*                                                                         *)
(* The argument is that of an in-place copy: what is not sent yet lies     *)
(* where it was read to, as a piece that moves to the front ends before    *)
(* the rest begins.                                                        *)
(***************************************************************************)
EXTENDS ReadRequest, TLAPS

Running == pc \in {"loop", "piece"}
Heads   == {"head", "errhead", "mulhead"}

(* A package is a header or whole sectors, of a request of whole sectors. *)
Shape ==
  /\ len \in {l * SectorSize : l \in 0..MaxSectors}
  /\ rsize = addr * SectorSize
  /\ pc = "read" => rsize < len /\ ~headLost /\ (~Multi => rsize = 0)
  /\ Running =>
       /\ what \in Heads => size = 1 /\ rsize = 0
       /\ what # "data" => ~headLost
       /\ what \in {"mulhead", "muldata"} <=> Multi
       /\ what = "data" => size = len /\ rsize = 0
       /\ what \in {"head", "mulhead"} => len > 0
       /\ what = "muldata" => rsize + size <= len /\ size \in {k * SectorSize : k \in Nat}

TypeInv == TypeOK /\ Shape

InOrder(s) == s # <<>> => s[1] = HeadOk /\ \A i \in 2..Len(s) : s[i] = i - 2

(* What is still to be sent lies in the buffer, and what was sent is what  *)
(* comes before it.                                                        *)
Stream ==
  /\ pc = "read" => InOrder(sent) /\ Len(sent) = (IF Multi THEN 1 + rsize ELSE 0)
  /\ Running =>
       /\ what \in Heads => Len(sent) = curSize
       /\ what = "errhead" /\ curSize = 1 => sent = <<HeadErr>>
       /\ what = "mulhead" /\ curSize = 0 => buf[0] = HeadOk
       /\ what = "head" => \A c \in 0..len-1 : buf[c] = c
       /\ what # "errhead" /\ ~headLost => InOrder(sent)
       /\ what \in {"data", "muldata"} /\ ~headLost =>
            /\ Len(sent) = 1 + rsize + curSize
            /\ \A c \in curSize..size-1 : buf[c] = rsize + c

IInv == TypeInv /\ Stream /\ StreamInOrder /\ EndFitsAnswer

-----------------------------------------------------------------------------
LEMMA Sizes ==
  /\ SectorSize \in Nat \ {0} /\ MaxSectors \in Nat \ {0} /\ BufSize \in Nat /\ BufSize >= 1
  /\ Window \in Nat /\ WinUnit \in Nat \ {0} /\ Wrap \in Nat /\ Window < Wrap
  /\ MaxFaults \in Nat /\ MaxSectors * SectorSize \in Nat
<1>1. SectorSize \in Nat \ {0} /\ MaxSectors \in Nat \ {0} /\ WinUnit \in Nat \ {0}
  BY SizesArePos
<1> QED  BY <1>1, SizesArePos

(* Whole sectors. *)
LEMMA Division ==
  ASSUME NEW s \in Nat \ {0}, NEW a \in Nat
  PROVE  a \div s \in Nat /\ a = s * (a \div s) + (a % s) /\ a % s \in 0..s-1
OBVIOUS

LEMMA ProductsApart ==
  ASSUME NEW s \in Nat \ {0}, NEW p \in Nat, NEW q \in Nat, p < q
  PROVE  p * s \in Nat /\ q * s \in Nat /\ p * s + s <= q * s
<1>1. PICK d \in Nat : q = p + 1 + d
  <2>1. q - p - 1 \in Nat
    OBVIOUS
  <2> QED  BY <2>1
<1>2. q * s = p * s + s + d * s
  BY <1>1
<1>3. d * s \in Nat /\ p * s \in Nat
  OBVIOUS
<1> QED  BY <1>2, <1>3

LEMMA Product ==
  ASSUME NEW k \in Nat
  PROVE  k * SectorSize \in Nat /\ OP_DIV(k * SectorSize) = k
<1> USE SizesArePos
<1>1. k * SectorSize \in Nat
  OBVIOUS
<1> DEFINE q == (k * SectorSize) \div SectorSize
           r == (k * SectorSize) % SectorSize
<1>2. q \in Nat /\ k * SectorSize = SectorSize * q + r /\ r \in 0..SectorSize-1
  BY <1>1, Division
<1> HIDE DEF q, r
<1>3. ~(q < k) /\ ~(k < q)
  BY <1>2, ProductsApart
<1>4. q = k
  BY <1>2, <1>3
<1> QED  BY <1>1, <1>4 DEF OP_DIV, q

LEMMA AvsizeIsSectors ==
  ASSUME TypeInv, Multi, rsize < len
  PROVE  /\ Avsize \in 1..BufSize /\ rsize + Avsize <= len
         /\ Avsize \in {k * SectorSize : k \in Nat}
<1> USE SizesArePos
<1> DEFINE b == OP_DIV(BufSize)
<1>1. b \in Nat /\ SectorSize * b <= BufSize /\ b # 0 /\ SectorSize * b \in Nat
  <2>1. /\ b \in Nat /\ BufSize = SectorSize * b + (BufSize % SectorSize)
        /\ BufSize % SectorSize \in 0..SectorSize-1
    BY Division DEF OP_DIV
  <2> HIDE DEF b
  <2>2. SectorSize * b \in Nat
    BY <2>1
  <2> QED  BY <2>1, <2>2
<1> HIDE DEF b
<1>2. PICK l \in 0..MaxSectors : len = l * SectorSize
  BY DEF TypeInv, Shape
<1>3. addr \in Nat /\ l \in Nat /\ rsize = addr * SectorSize /\ rsize \in Nat /\ len \in Nat
  BY <1>2 DEF TypeInv, TypeOK, Shape
<1>4. addr < l
  <2>1. SUFFICES ASSUME l <= addr PROVE FALSE
    BY <1>3
  <2>2. l < addr \/ l = addr
    BY <1>3, <2>1
  <2>3. len <= rsize
    BY <1>2, <1>3, <2>2, ProductsApart
  <2> QED  BY <1>3, <2>3
<1>5. len - rsize = (l - addr) * SectorSize /\ l - addr \in Nat
  BY <1>2, <1>3, <1>4
<1>6. Avsize = Least(SectorSize * b, len - rsize)
  BY DEF Avsize, b
<1>7. CASE Avsize = SectorSize * b
  <2>1. SectorSize * b >= SectorSize
    BY <1>1
  <2>2. SectorSize * b <= len - rsize
    BY <1>1, <1>3, <1>6, <1>7 DEF Least
  <2>3. Avsize = b * SectorSize
    BY <1>1, <1>7
  <2>4. Avsize \in {k * SectorSize : k \in Nat}
    BY <1>1, <2>3
  <2>5. Avsize \in Nat /\ Avsize >= 1 /\ Avsize <= BufSize /\ Avsize <= len - rsize
    BY <1>1, <1>7, <2>1, <2>2
  <2> QED  BY <1>3, <2>4, <2>5
<1>8. CASE Avsize = len - rsize /\ len - rsize <= SectorSize * b
  BY <1>1, <1>3, <1>5, <1>8
<1> QED  BY <1>1, <1>3, <1>6, <1>7, <1>8 DEF Least

LEMMA PieceFits ==
  ASSUME TypeInv, Sending
  PROVE  Piece \in 0..size-curSize /\ Piece <= win
BY SizesArePos DEF Sending, Piece, Least, TypeInv, TypeOK

LEMMA WindowOpens ==
  ASSUME NEW w \in 0..Window
  PROVE  OpenWindow(w) \in 0..Wrap-1
BY SizesArePos DEF OpenWindow

LEMMA TypeInit == Init => TypeInv
<1> SUFFICES ASSUME Init PROVE TypeInv
  OBVIOUS
<1>1. headLost = FALSE /\ due = FALSE
  BY DEF Init
<1>2. 0 = 0 * SectorSize /\ 0 \in 0..MaxSectors
  BY SizesArePos
<1>3. TypeOK
  <2>1. buf \in [Slots -> Int]
    BY DEF Init, Junk
  <2>2. len \in 0..(MaxSectors * SectorSize) /\ rsize \in 0..len /\ addr \in 0..MaxSectors
    BY Sizes DEF Init
  <2>3. /\ size \in 0..BufSize /\ curSize \in 0..size /\ win \in 0..(Wrap - 1)
        /\ rx_win \in 0..Window /\ faults \in 0..MaxFaults /\ held \in Nat
    BY Sizes DEF Init
  <2>4. sent \in Seq(Int) /\ acks \in Seq(0..Window)
    BY DEF Init
  <2>5. /\ pc \in {"idle", "read", "loop", "piece"}
        /\ what \in {"head", "data", "errhead", "mulhead", "muldata"}
        /\ result \in {"none", "ok", "disk", "send"}
    BY DEF Init
  <2> QED  BY <1>1, <2>1, <2>2, <2>3, <2>4, <2>5 DEF TypeOK
<1> QED  BY <1>1, <1>2, <1>3 DEF Init, TypeInv, Shape, Running

(* The counters of a request of l sectors that begins. *)
Begun(l) ==
  /\ len' = l * SectorSize /\ len' \in 0..(MaxSectors * SectorSize) /\ (l > 0 => len' > 0)
  /\ rsize' = 0 /\ addr' = 0 /\ rsize' = addr' * SectorSize
  /\ rsize' \in 0..len' /\ addr' \in 0..MaxSectors
  /\ rx_win' = Window /\ rx_win' \in 0..Window
  /\ sent' = <<>> /\ sent' \in Seq(Int)
  /\ acks' = <<>> /\ acks' \in Seq(0..Window)
  /\ result' = "none" /\ held' = held /\ faults' = faults
  /\ headLost' = FALSE /\ due' = FALSE

LEMMA Begins ==
  ASSUME NEW l \in 0..MaxSectors, Begin(l)
  PROVE  Begun(l) /\ len' \in {m * SectorSize : m \in 0..MaxSectors}
<1>1. l * SectorSize \in Nat /\ l * SectorSize <= MaxSectors * SectorSize
      /\ MaxSectors * SectorSize \in Nat /\ (l > 0 => l * SectorSize > 0)
  <2>1. l < MaxSectors => l * SectorSize + SectorSize <= MaxSectors * SectorSize
    BY Sizes, ProductsApart
  <2>2. 0 < l => 0 * SectorSize + SectorSize <= l * SectorSize
    BY Sizes, ProductsApart
  <2>3. l * SectorSize \in Nat /\ 0 * SectorSize = 0
    BY Sizes
  <2>4. l = MaxSectors \/ l < MaxSectors
    BY Sizes
  <2> QED  BY <2>1, <2>2, <2>3, <2>4, Sizes
<1>2. <<>> \in Seq(Int) /\ <<>> \in Seq(0..Window)
  OBVIOUS
<1>3. /\ len' = l * SectorSize /\ rsize' = 0 /\ addr' = 0 /\ rx_win' = Window
      /\ sent' = <<>> /\ result' = "none" /\ acks' = <<>> /\ held' = held /\ faults' = faults
      /\ headLost' = FALSE /\ due' = FALSE
  BY DEF Begin
<1>4. 0 * SectorSize = 0 /\ 0 \in 0..MaxSectors /\ Window \in 0..Window
  BY Sizes
<1>5. len' \in 0..(MaxSectors * SectorSize) /\ rsize' \in 0..len'
  BY <1>1, <1>3
<1> QED  BY <1>1, <1>2, <1>3, <1>4, <1>5 DEF Begun

LEMMA TypeNext == TypeInv /\ [Next]_vars => TypeInv'
<1> SUFFICES ASSUME TypeInv, [Next]_vars PROVE TypeInv'
  OBVIOUS
<1> USE Sizes DEF TypeInv, Running, Heads
<1>1. CASE BeginEmpty
  <2>1. Begin(0) /\ SendPackage(1, "errhead", Window) /\ buf' = buf
    BY <1>1 DEF BeginEmpty
  <2>2. Begun(0) /\ 0 * SectorSize = 0 /\ len' \in {m * SectorSize : m \in 0..MaxSectors}
    BY <2>1, Begins
  <2>3. ~Multi'
    BY <2>2 DEF Multi, Begun
  <2>4. /\ win' \in 0..Wrap-1 /\ pc' = "loop" /\ what' = "errhead" /\ curSize' = 0 /\ size' = 1
    BY <2>1, WindowOpens DEF SendPackage
  <2>5. TypeOK'
    <3>1. size' \in 0..BufSize /\ curSize' \in 0..size' /\ held' \in Nat /\ faults' \in 0..MaxFaults
      BY <2>2, <2>4 DEF TypeOK, Begun
    <3> QED  BY <2>1, <2>2, <2>4, <3>1 DEF TypeOK, Begun
  <2> QED  BY <2>2, <2>3, <2>4, <2>5 DEF Shape, Begun
<1>2. CASE BeginSingle
  <2>1. PICK l \in 1..MaxSectors : Begin(l) /\ ~(BufSize < len' + 1) /\ pc' = "read"
                                   /\ UNCHANGED <<buf, package>>
    BY <1>2 DEF BeginSingle
  <2>2. Begun(l) /\ l > 0 /\ len' \in {m * SectorSize : m \in 0..MaxSectors}
    BY <2>1, Begins
  <2>3. TypeOK'
    BY <2>1, <2>2 DEF TypeOK, package, Begun
  <2>4. rsize' < len'
    BY <2>2 DEF Begun
  <2> QED  BY <2>1, <2>2, <2>3, <2>4 DEF Shape, Begun
<1>3. CASE BeginMulti
  <2>1. PICK l \in 1..MaxSectors : Begin(l) /\ BufSize < len' + 1
                                   /\ buf' = [buf EXCEPT ![0] = HeadOk]
                                   /\ SendPackage(1, "mulhead", Window)
    BY <1>3 DEF BeginMulti
  <2>2. Begun(l) /\ l > 0 /\ len' \in {m * SectorSize : m \in 0..MaxSectors}
    BY <2>1, Begins
  <2>3. /\ win' \in 0..Wrap-1 /\ pc' = "loop" /\ what' = "mulhead" /\ curSize' = 0 /\ size' = 1
    BY <2>1, WindowOpens DEF SendPackage
  <2>4. Multi'
    BY <2>1 DEF Multi
  <2>5. buf' \in [Slots -> Int]
    <3>1. HeadOk \in Int
      BY DEF HeadOk
    <3> QED  BY <2>1, <3>1 DEF TypeOK
  <2>6. TypeOK'
    <3>1. size' \in 0..BufSize /\ curSize' \in 0..size' /\ held' \in Nat /\ faults' \in 0..MaxFaults
      BY <2>2, <2>3 DEF TypeOK, Begun
    <3> QED  BY <2>2, <2>3, <2>5, <3>1 DEF TypeOK, Begun
  <2> QED  BY <2>2, <2>3, <2>4, <2>6 DEF Shape, Begun
<1>4. CASE ReadDone
  <2>1. /\ pc = "read" /\ UNCHANGED <<request, rx_win, sent, result, headLost, peer, faults>>
    BY <1>4 DEF ReadDone
  <2>7. buf' \in [Slots -> Int]
    <3>1. PICK n : buf' = ReadInto(buf, addr, n)
      BY <1>4 DEF ReadDone
    <3>2. addr \in Int /\ addr * SectorSize \in Int
      BY DEF TypeOK
    <3> DEFINE A == addr * SectorSize
    <3>3. \A c \in Slots : (IF c < n THEN A + c ELSE buf[c]) \in Int
      <4> HIDE DEF A
      <4> QED  BY <3>2 DEF Slots, TypeOK, A
    <3> QED  BY <3>1, <3>3 DEF ReadInto
  <2>2. win' \in 0..Wrap-1 /\ pc' = "loop" /\ curSize' = 0
    BY <1>4, WindowOpens DEF ReadDone, SendPackage, TypeOK
  <2>3. IF Multi THEN size' = Avsize /\ what' = "muldata" ELSE size' = 1 /\ what' = "head"
    BY <1>4 DEF ReadDone, SendPackage
  <2>4. Multi' <=> Multi
    BY <2>1 DEF Multi, request
  <2>5. Multi => Avsize \in 1..BufSize /\ rsize + Avsize <= len
                 /\ Avsize \in {k * SectorSize : k \in Nat}
    BY <2>1, AvsizeIsSectors DEF Shape
  <2>6. TypeOK'
    BY <2>1, <2>2, <2>3, <2>5, <2>7 DEF TypeOK, request, peer
  <2> QED  BY <2>1, <2>2, <2>3, <2>4, <2>5, <2>6 DEF Shape, request, TypeOK
<1>5. CASE ReadFails
  <2>1. /\ pc = "read" /\ UNCHANGED <<request, buf, rx_win, sent, headLost, peer>>
        /\ faults' \in 0..MaxFaults
    BY <1>5 DEF ReadFails, Fault, TypeOK
  <2>2. Multi' <=> Multi
    BY <2>1 DEF Multi, request
  <2>3. CASE Multi
    BY <1>5, <2>1, <2>3 DEF ReadFails, Finish, TypeOK, Shape, request, peer, package
  <2>4. CASE ~Multi
    <3>1. win' \in 0..Wrap-1 /\ pc' = "loop" /\ curSize' = 0 /\ size' = 1 /\ what' = "errhead"
          /\ result' = result
      BY <1>5, <2>4, WindowOpens DEF ReadFails, SendPackage, TypeOK
    <3>2. TypeOK'
      BY <2>1, <3>1 DEF TypeOK, request, peer
    <3> QED  BY <2>1, <2>2, <2>4, <3>1, <3>2 DEF Shape, request
  <2> QED  BY <2>3, <2>4
<1>6. CASE SendPiece
  <2>1. /\ Sending /\ curSize' = curSize + Piece /\ win' = win - Piece /\ held' = held + Piece
        /\ due' = TRUE /\ pc' = "loop" /\ Running
        /\ UNCHANGED <<request, what, size, rx_win, result, headLost, acks, faults>>
        /\ sent' = sent \o [i \in 1..Piece |-> Source(curSize + i - 1)]
        /\ buf' = MoveUp(buf, curSize, Piece)
    BY <1>6 DEF SendPiece, Sending
  <2>2. Piece \in 0..size-curSize /\ Piece <= win
    BY <2>1, PieceFits
  <2>3. curSize \in 0..size /\ size \in 0..BufSize
    BY DEF TypeOK
  <2>4. [i \in 1..Piece |-> Source(curSize + i - 1)] \in Seq(Int)
    <3>1. \A i \in 1..Piece : curSize + i - 1 \in Slots
      BY <2>2, <2>3 DEF Slots
    <3>2. \A i \in 1..Piece : Source(curSize + i - 1) \in Int
      BY <3>1 DEF Source, HeadErr, HeadOk, TypeOK
    <3>3. Piece \in Nat
      BY <2>2, <2>3
    <3> QED  BY <3>2, <3>3
  <2>5. buf' \in [Slots -> Int]
    <3>1. \A c \in Slots : c < Piece => curSize + c \in Slots
      BY <2>2, <2>3 DEF Slots
    <3> QED  BY <2>1, <3>1 DEF MoveUp, TypeOK
  <2>6. sent' \in Seq(Int)
    <3> DEFINE t == [i \in 1..Piece |-> Source(curSize + i - 1)]
    <3>1. sent' = sent \o t /\ t \in Seq(Int) /\ sent \in Seq(Int)
      BY <2>1, <2>4 DEF TypeOK
    <3> HIDE DEF t
    <3> QED  BY <3>1
  <2>7. Multi' <=> Multi
    BY <2>1 DEF Multi, request
  <2>8. TypeOK'
    BY <2>1, <2>2, <2>3, <2>5, <2>6 DEF TypeOK, request
  <2> QED  BY <2>1, <2>7, <2>8 DEF Shape, request
<1>7. CASE ZeroWindow \/ SendFails
  <2>1. GiveUp /\ Running /\ faults' \in 0..MaxFaults
    BY <1>7 DEF ZeroWindow, SendFails, Sending, Fault, TypeOK
  <2>2. UNCHANGED <<request, buf, rx_win, sent, peer>>
    BY <2>1 DEF GiveUp
  <2>3. Multi' <=> Multi
    BY <2>2 DEF Multi, request
  <2>4. CASE what = "head"
    <3>1. /\ win' \in 0..Wrap-1 /\ pc' = "loop" /\ curSize' = 0 /\ size' = len /\ what' = "data"
          /\ headLost' = TRUE /\ result' = result
      BY <2>1, <2>4, WindowOpens DEF GiveUp, SendPackage, TypeOK
    <3>2. len <= BufSize /\ ~Multi /\ rsize = 0
      BY <2>1, <2>4 DEF Shape, Multi, TypeOK
    <3>3. TypeOK'
      BY <2>1, <2>2, <3>1, <3>2 DEF TypeOK, request, peer
    <3> QED  BY <2>2, <2>3, <3>1, <3>2, <3>3 DEF Shape, request
  <2>5. CASE what # "head"
    BY <2>1, <2>2, <2>5 DEF GiveUp, Finish, TypeOK, Shape, request, package, peer
  <2> QED  BY <2>4, <2>5
<1>8. CASE WaitAck
  <2>1. /\ pc = "loop" /\ acks # <<>> /\ rx_win' = Head(acks) /\ win' = Head(acks)
        /\ acks' = Tail(acks) /\ pc' = "piece"
        /\ UNCHANGED <<request, buf, what, size, curSize, sent, result, headLost, held, due, faults>>
    BY <1>8 DEF WaitAck
  <2>2. Head(acks) \in 0..Window /\ Tail(acks) \in Seq(0..Window)
    BY <2>1 DEF TypeOK
  <2>3. Multi' <=> Multi
    BY <2>1 DEF Multi, request
  <2>4. TypeOK'
    BY <2>1, <2>2 DEF TypeOK, request
  <2> QED  BY <2>1, <2>3, <2>4 DEF Shape, request
<1>9. CASE WaitFails
  <2>1. /\ pc = "loop" /\ win' = rx_win /\ pc' = "piece" /\ faults' \in 0..MaxFaults
        /\ UNCHANGED <<request, buf, what, size, curSize, rx_win, sent, result, headLost, peer>>
    BY <1>9 DEF WaitFails, Fault, TypeOK
  <2>2. Multi' <=> Multi
    BY <2>1 DEF Multi, request
  <2>3. TypeOK'
    BY <2>1 DEF TypeOK, request, peer
  <2> QED  BY <2>1, <2>2, <2>3 DEF Shape, request
<1>10. CASE HeadSent
  <2>1. /\ win' \in 0..Wrap-1 /\ pc' = "loop" /\ curSize' = 0 /\ size' = len /\ what' = "data"
        /\ UNCHANGED <<request, buf, rx_win, sent, result, headLost, peer, faults>>
        /\ pc = "loop" /\ what = "head"
    BY <1>10, WindowOpens DEF HeadSent, Sent, SendPackage, TypeOK
  <2>2. len <= BufSize /\ ~Multi /\ rsize = 0
    BY <2>1 DEF Shape, Multi, TypeOK
  <2>3. ~Multi'
    BY <2>1, <2>2 DEF Multi, request
  <2>4. TypeOK'
    BY <2>1, <2>2 DEF TypeOK, request, peer
  <2> QED  BY <2>1, <2>2, <2>3, <2>4 DEF Shape, request
<1>11. CASE SingleSent
  BY <1>11 DEF SingleSent, Finish, TypeOK, Shape, request, package, peer
<1>12. CASE MultiSent
  <2>1. /\ pc = "loop" /\ curSize = size /\ what \in {"mulhead", "muldata"}
        /\ UNCHANGED <<len, buf, package, rx_win, sent, headLost, peer, faults>>
        /\ IF rsize' < len THEN pc' = "read" /\ result' = result ELSE pc' = "idle" /\ result' = "ok"
    BY <1>12 DEF MultiSent, Sent, Finish
  <2>2. Multi /\ Multi' /\ ~headLost
    BY <2>1 DEF Shape, Multi
  <2>3. rsize' \in 0..len /\ addr' \in 0..MaxSectors /\ rsize' = addr' * SectorSize
    <3>1. CASE what = "mulhead"
      BY <1>12, <3>1 DEF MultiSent, TypeOK, Shape
    <3>2. CASE what = "muldata"
      <4>1. PICK k \in Nat : size = k * SectorSize
        BY <2>1, <3>2 DEF Shape
      <4>2. rsize' = rsize + size /\ addr' = addr + k /\ rsize' <= len
        BY <1>12, <2>1, <3>2, <4>1, Product DEF MultiSent, Shape
      <4>3. addr \in Nat /\ rsize = addr * SectorSize /\ rsize \in Nat /\ size \in Nat /\ len \in Nat
        BY DEF TypeOK, Shape
      <4>4. rsize' = (addr + k) * SectorSize
        BY <4>1, <4>2, <4>3
      <4>5. PICK l \in 0..MaxSectors : len = l * SectorSize
        BY DEF Shape
      <4>6. ~(l < addr + k)
        <5>1. SUFFICES ASSUME l < addr + k PROVE FALSE
          OBVIOUS
        <5>2. l * SectorSize + SectorSize <= (addr + k) * SectorSize
          BY <4>3, <5>1, ProductsApart
        <5> QED  BY <4>2, <4>3, <4>4, <4>5, <5>2
      <4> QED  BY <4>2, <4>3, <4>4, <4>6
    <3> QED  BY <2>1, <3>1, <3>2
  <2>4. TypeOK'
    BY <2>1, <2>3 DEF TypeOK, package, peer
  <2> QED  BY <2>1, <2>2, <2>3, <2>4 DEF Shape, package
<1>13. CASE Drain
  <2>1. held' \in Nat /\ due' = TRUE
        /\ UNCHANGED <<pc, request, buf, package, rx_win, sent, result, headLost, acks, faults>>
    BY <1>13 DEF Drain, TypeOK
  <2> QED  BY <2>1 DEF TypeOK, Shape, Multi, request, package
<1>14. CASE Acknowledge
  <2>1. Advertised \in 0..Window
    <3> DEFINE free == IF held < Window THEN Window - held ELSE 0
    <3>1. free \in 0..Window
      BY DEF TypeOK
    <3>2. free % WinUnit \in 0..free
      <4>1. free \in Nat /\ WinUnit \in Nat \ {0}
        BY <3>1
      <4> HIDE DEF free
      <4>2. /\ free \div WinUnit \in Nat /\ free = WinUnit * (free \div WinUnit) + (free % WinUnit)
            /\ free % WinUnit \in 0..WinUnit-1
        BY <4>1, Division
      <4>3. WinUnit * (free \div WinUnit) \in Nat
        BY <4>1, <4>2
      <4> QED  BY <4>1, <4>2, <4>3
    <3>3. Advertised = free - (free % WinUnit)
      BY DEF Advertised
    <3> HIDE DEF free
    <3> QED  BY <3>1, <3>2, <3>3
  <2>2. /\ acks' = Append(acks, Advertised) /\ due' = FALSE
        /\ UNCHANGED <<pc, request, buf, package, rx_win, sent, result, headLost, held, faults>>
    BY <1>14 DEF Acknowledge
  <2>3. acks' \in Seq(0..Window)
    BY <2>1, <2>2 DEF TypeOK
  <2> QED  BY <2>2, <2>3 DEF TypeOK, Shape, Multi, request, package
<1>15. CASE UNCHANGED vars
  BY <1>15 DEF vars, request, package, peer, TypeOK, Shape, Multi
<1> QED  BY <1>1, <1>2, <1>3, <1>4, <1>5, <1>6, <1>7, <1>8, <1>9, <1>10, <1>11, <1>12,
            <1>13, <1>14, <1>15 DEF Next, Box

(* Every variable keeps its type: no cell is read or written beyond the    *)
(* buffer, and the window never wraps below zero.                          *)
THEOREM TypeCorrect == Spec => []TypeOK
<1>1. TypeInv => TypeOK
  BY DEF TypeInv
<1> QED  BY <1>1, TypeInit, TypeNext, PTL DEF Spec

-----------------------------------------------------------------------------
(* A stream goes on in order. *)
LEMMA StreamGoesOn ==
  ASSUME NEW s \in Seq(Int), NEW t \in Seq(Int), InOrder(s), Len(s) >= 1,
         \A i \in 1..Len(t) : t[i] = Len(s) + i - 2
  PROVE  InOrder(s \o t)
<1> DEFINE u == s \o t
<1>1. Len(u) = Len(s) + Len(t) /\ u[1] = s[1]
  OBVIOUS
<1>2. ASSUME NEW i \in 2..Len(u) PROVE u[i] = i - 2
  <2>1. CASE i <= Len(s)
    <3>1. u[i] = s[i] /\ i \in 2..Len(s)
      BY <2>1
    <3> QED  BY <3>1 DEF InOrder
  <2>2. CASE i > Len(s)
    <3>1. i - Len(s) \in 1..Len(t) /\ u[i] = t[i - Len(s)]
      BY <1>1, <2>2
    <3>2. Len(s) + (i - Len(s)) - 2 = i - 2
      OBVIOUS
    <3> HIDE DEF u
    <3> QED  BY <3>1, <3>2
  <2> QED  BY <2>1, <2>2
<1>3. s # <<>>
  OBVIOUS
<1> QED  BY <1>1, <1>2, <1>3 DEF InOrder

LEMMA Joined ==
  ASSUME NEW s \in Seq(Int), NEW t \in Seq(Int)
  PROVE  s \o t \in Seq(Int) /\ Len(s \o t) = Len(s) + Len(t)
OBVIOUS

LEMMA OneCell ==
  ASSUME NEW s \in Seq(Int), Len(s) = 1
  PROVE  s = <<s[1]>>
OBVIOUS

LEMMA StreamInit == Init => Stream
BY DEF Init, Stream, Running

LEMMA SendPieceStream ==
  ASSUME TypeInv, Stream, SendPiece, TypeInv'
  PROVE  Stream'
<1> USE Sizes DEF Running, Heads
<1> DEFINE t == [i \in 1..Piece |-> Source(curSize + i - 1)]
<1>1. /\ Sending /\ Piece # 0 /\ curSize' = curSize + Piece /\ pc' = "loop" /\ Running
      /\ UNCHANGED <<request, what, size, headLost>>
      /\ sent' = sent \o t /\ buf' = MoveUp(buf, curSize, Piece)
  BY DEF SendPiece, Sending
<1>2. /\ Piece \in 1..size-curSize /\ curSize \in 0..size /\ size \in 0..BufSize
      /\ curSize \in Nat /\ size \in Nat /\ Piece \in Nat
  <2>1. Piece \in 0..size-curSize /\ curSize \in 0..size /\ size \in 0..BufSize
    BY <1>1, PieceFits DEF TypeInv, TypeOK
  <2> QED  BY <1>1, <2>1
<1>3. t \in Seq(Int) /\ Len(t) = Piece /\ sent \in Seq(Int)
      /\ \A i \in 1..Piece : t[i] = Source(curSize + i - 1)
  <2>1. \A i \in 1..Piece : curSize + i - 1 \in Slots
    BY <1>2 DEF Slots
  <2>2. \A i \in 1..Piece : Source(curSize + i - 1) \in Int
    BY <2>1 DEF Source, HeadErr, HeadOk, TypeInv, TypeOK
  <2>3. sent \in Seq(Int)
    BY DEF TypeInv, TypeOK
  <2> QED  BY <1>2, <2>2, <2>3
<1> HIDE DEF t
<1>4. sent' \in Seq(Int) /\ Len(sent') = Len(sent) + Piece
  <2>1. sent' = sent \o t
    BY <1>1
  <2>2. sent \o t \in Seq(Int) /\ Len(sent \o t) = Len(sent) + Len(t)
    BY <1>3, Joined
  <2> QED  BY <1>3, <2>1, <2>2
<1>5. CASE what \in Heads
  <2>1. size = 1 /\ curSize = 0 /\ Piece = 1 /\ Len(sent) = 0
    BY <1>1, <1>2, <1>5 DEF TypeInv, Shape, Stream
  <2>2. sent = <<>> /\ sent' = t /\ Len(sent') = 1 /\ sent'[1] = Source(0)
    <3>1. sent = <<>>
      BY <1>3, <2>1
    <3>2. sent' = t
      BY <1>1, <1>3, <3>1
    <3>3. 1 \in 1..Piece /\ curSize + 1 - 1 = 0
      BY <2>1
    <3> QED  BY <1>3, <2>1, <3>1, <3>2, <3>3
  <2>3. what # "errhead" => sent'[1] = HeadOk
    BY <1>1, <1>5, <2>1, <2>2 DEF Source, Stream
  <2>4. what = "errhead" => sent' = <<HeadErr>>
    BY <1>4, <2>2, OneCell DEF Source
  <2>5. what # "errhead" => InOrder(sent')
    BY <2>2, <2>3 DEF InOrder
  <2>6. what = "head" => buf' = buf
    BY <1>1 DEF MoveUp
  <2>7. what = "head" => \A c \in 0..len'-1 : buf'[c] = c
    BY <1>1, <2>6 DEF Stream, request
  <2>8. curSize' = 1 /\ Len(sent') = curSize' /\ what' = what
    BY <1>1, <2>1, <2>2
  <2> QED  BY <1>1, <1>5, <2>4, <2>5, <2>7, <2>8 DEF Stream
<1>6. CASE what \in {"data", "muldata"}
  <2>1. SUFFICES ASSUME ~headLost
                 PROVE  /\ InOrder(sent')
                        /\ Len(sent') = 1 + rsize + curSize'
                        /\ \A c \in curSize'..size-1 : buf'[c] = rsize + c
    BY <1>1, <1>6 DEF Stream, request
  <2>2. /\ InOrder(sent) /\ Len(sent) = 1 + rsize + curSize
        /\ \A c \in curSize..size-1 : buf[c] = rsize + c
    BY <1>1, <1>6, <2>1 DEF Stream
  <2>3. rsize \in Nat /\ len \in Nat
    BY DEF TypeInv, TypeOK
  <2>4. \A i \in 1..Len(t) : t[i] = Len(sent) + i - 2
    <3> SUFFICES ASSUME NEW i \in 1..Piece PROVE t[i] = Len(sent) + i - 2
      BY <1>3
    <3>1. curSize + i - 1 \in curSize..size-1
      BY <1>2
    <3>2. t[i] = buf[curSize + i - 1]
      BY <1>3, <1>6 DEF Source
    <3>3. t[i] = rsize + (curSize + i - 1)
      BY <2>2, <3>1, <3>2
    <3> QED  BY <1>2, <2>2, <2>3, <3>3
  <2>5. InOrder(sent')
    <3>1. Len(sent) >= 1
      BY <1>2, <2>2, <2>3
    <3> QED  BY <1>1, <1>3, <2>2, <2>4, <3>1, StreamGoesOn
  <2>6. Len(sent') = 1 + rsize + curSize'
    BY <1>1, <1>2, <1>4, <2>2, <2>3
  <2>7. ASSUME NEW c \in curSize'..size-1 PROVE buf'[c] = rsize + c
    <3>1. c \in Slots /\ ~(c < Piece) /\ c \in curSize..size-1
      BY <1>1, <1>2 DEF Slots
    <3>2. buf'[c] = buf[c]
      BY <1>1, <3>1 DEF MoveUp
    <3> QED  BY <2>2, <3>1, <3>2
  <2> QED  BY <2>5, <2>6, <2>7
<1> QED  BY <1>5, <1>6 DEF TypeInv, TypeOK

(* What is left to send, after every step. *)
LEMMA StreamNext == TypeInv /\ TypeInv' /\ Stream /\ [Next]_vars => Stream'
<1> SUFFICES ASSUME TypeInv, TypeInv', Stream, [Next]_vars PROVE Stream'
  OBVIOUS
<1> USE Sizes DEF Running, Heads
<1>1. CASE BeginEmpty
  <2>1. sent' = <<>> /\ pc' = "loop" /\ what' = "errhead" /\ curSize' = 0
    BY <1>1 DEF BeginEmpty, Begin, SendPackage
  <2> QED  BY <2>1 DEF Stream
<1>2. CASE BeginSingle
  <2>1. sent' = <<>> /\ pc' = "read" /\ ~Multi'
    BY <1>2 DEF BeginSingle, Begin, Multi
  <2> QED  BY <2>1 DEF Stream, InOrder
<1>3. CASE BeginMulti
  <2>1. /\ sent' = <<>> /\ pc' = "loop" /\ what' = "mulhead" /\ curSize' = 0
        /\ buf' = [buf EXCEPT ![0] = HeadOk]
    BY <1>3 DEF BeginMulti, Begin, SendPackage
  <2>2. buf'[0] = HeadOk
    <3>1. 0 \in Slots
      BY DEF Slots
    <3> QED  BY <2>1, <3>1 DEF TypeInv, TypeOK
  <2> QED  BY <2>1, <2>2 DEF Stream, InOrder
<1>4. CASE ReadDone
  <2>1. /\ pc = "read" /\ pc' = "loop" /\ curSize' = 0 /\ UNCHANGED <<request, sent, headLost>>
    BY <1>4 DEF ReadDone, SendPackage
  <2>2. /\ InOrder(sent) /\ Len(sent) = (IF Multi THEN 1 + rsize ELSE 0)
        /\ rsize < len /\ ~headLost /\ (~Multi => rsize = 0) /\ rsize = addr * SectorSize
        /\ rsize \in Nat /\ len \in Nat
    BY <2>1 DEF Stream, TypeInv, TypeOK, Shape
  <2>3. CASE Multi
    <3>1. what' = "muldata" /\ size' = Avsize /\ buf' = ReadInto(buf, addr, OP_DIV(Avsize) * SectorSize)
      BY <1>4, <2>3 DEF ReadDone, SendPackage
    <3>2. Avsize \in 1..BufSize /\ OP_DIV(Avsize) * SectorSize = Avsize
      <4>1. Avsize \in 1..BufSize /\ Avsize \in {k * SectorSize : k \in Nat}
        BY <2>2, <2>3, AvsizeIsSectors
      <4>2. PICK k \in Nat : Avsize = k * SectorSize
        BY <4>1
      <4>3. OP_DIV(Avsize) = k
        BY <4>2, Product
      <4> QED  BY <4>1, <4>2, <4>3
    <3>3. ASSUME NEW c \in 0..size'-1 PROVE buf'[c] = rsize + c
      <4>1. c \in Slots /\ c < Avsize
        BY <3>1, <3>2 DEF Slots
      <4>2. buf'[c] = addr * SectorSize + c
        BY <3>1, <3>2, <4>1 DEF ReadInto
      <4> QED  BY <2>2, <4>2
    <3> QED  BY <2>1, <2>2, <2>3, <3>1, <3>3 DEF Stream, request
  <2>4. CASE ~Multi
    <3>1. what' = "head" /\ buf' = ReadInto(buf, addr, len) /\ Len(sent) = 0 /\ rsize = 0
      BY <1>4, <2>2, <2>4 DEF ReadDone, SendPackage
    <3>2. ASSUME NEW c \in 0..len-1 PROVE buf'[c] = c
      <4>1. c \in Slots /\ c < len
        BY <2>2, <2>4 DEF Slots, Multi
      <4>2. buf'[c] = addr * SectorSize + c
        BY <3>1, <4>1 DEF ReadInto
      <4> QED  BY <2>2, <3>1, <4>2
    <3> QED  BY <2>1, <2>2, <3>1, <3>2 DEF Stream, request
  <2> QED  BY <2>3, <2>4
<1>5. CASE ReadFails
  <2>1. pc = "read" /\ UNCHANGED <<request, sent, headLost>>
    BY <1>5 DEF ReadFails
  <2>2. CASE Multi
    BY <1>5, <2>2 DEF ReadFails, Finish, Stream
  <2>3. CASE ~Multi
    <3>1. pc' = "loop" /\ what' = "errhead" /\ curSize' = 0 /\ Len(sent') = 0
      BY <1>5, <2>1, <2>3 DEF ReadFails, SendPackage, Stream
    <3> QED  BY <3>1 DEF Stream
  <2> QED  BY <2>2, <2>3
<1>6. CASE SendPiece
  BY <1>6, SendPieceStream
<1>7. CASE ZeroWindow \/ SendFails
  <2>1. GiveUp /\ Running
    BY <1>7 DEF ZeroWindow, SendFails, Sending
  <2>2. CASE what = "head"
    BY <2>1, <2>2 DEF GiveUp, SendPackage, Stream
  <2>3. CASE what # "head"
    BY <2>1, <2>3 DEF GiveUp, Finish, Stream
  <2> QED  BY <2>2, <2>3
<1>8. CASE WaitAck \/ WaitFails
  <2>1. Running /\ pc' = "piece" /\ UNCHANGED <<request, buf, what, size, curSize, sent, headLost>>
    BY <1>8 DEF WaitAck, WaitFails
  <2> QED  BY <2>1 DEF Stream, request
<1>9. CASE HeadSent
  <2>1. /\ Running /\ what = "head" /\ curSize = size /\ pc' = "loop" /\ what' = "data"
        /\ curSize' = 0 /\ size' = len /\ UNCHANGED <<request, buf, sent, headLost>>
    BY <1>9 DEF HeadSent, Sent, SendPackage
  <2>2. size = 1 /\ rsize = 0 /\ len \in Nat
    BY <2>1 DEF TypeInv, TypeOK, Shape
  <2>3. Len(sent) = 1 /\ (~headLost => InOrder(sent)) /\ \A c \in 0..len-1 : buf[c] = c
    BY <2>1, <2>2 DEF Stream
  <2>4. \A c \in 0..len-1 : buf[c] = rsize + c
    BY <2>2, <2>3
  <2> QED  BY <2>1, <2>2, <2>3, <2>4 DEF Stream, request
<1>10. CASE SingleSent
  BY <1>10 DEF SingleSent, Finish, Stream
<1>11. CASE MultiSent
  <2>1. /\ Running /\ what \in {"mulhead", "muldata"} /\ curSize = size
        /\ pc' \in {"read", "idle"} /\ UNCHANGED <<len, sent, headLost>>
    BY <1>11 DEF MultiSent, Sent, Finish
  <2>2. Multi /\ Multi' /\ ~headLost /\ rsize \in Nat /\ size \in Nat
    BY <2>1 DEF TypeInv, TypeOK, Shape, Multi
  <2>3. InOrder(sent) /\ Len(sent) = 1 + rsize'
    BY <1>11, <2>1, <2>2 DEF MultiSent, Stream, TypeInv, Shape
  <2> QED  BY <2>1, <2>2, <2>3 DEF Stream
<1>12. CASE Drain \/ Acknowledge \/ UNCHANGED vars
  <2>1. UNCHANGED <<pc, request, buf, package, sent, headLost>>
    BY <1>12 DEF Drain, Acknowledge, vars
  <2> QED  BY <2>1 DEF Stream, Multi, request, package
<1> QED  BY <1>1, <1>2, <1>3, <1>4, <1>5, <1>6, <1>7, <1>8, <1>9, <1>10, <1>11, <1>12
         DEF Next, Box

-----------------------------------------------------------------------------
(* While a read runs, its stream is in order; one that has ended leaves it. *)
LEMMA OrderNext ==
  TypeInv' /\ Stream' /\ StreamInOrder /\ [Next]_vars => StreamInOrder'
<1> SUFFICES ASSUME TypeInv', Stream', StreamInOrder, [Next]_vars PROVE StreamInOrder'
  OBVIOUS
<1> USE DEF Running, Heads
<1>1. CASE pc' = "idle"
  <2>1. UNCHANGED <<sent, headLost>>
    BY <1>1 DEF Next, Box, BeginEmpty, BeginSingle, BeginMulti, ReadDone, ReadFails, SendPiece,
                ZeroWindow, SendFails, GiveUp, SendPackage, WaitAck, WaitFails, HeadSent,
                SingleSent, MultiSent, Drain, Acknowledge, vars
  <2> QED  BY <2>1 DEF StreamInOrder
<1>2. CASE pc' = "read"
  BY <1>2 DEF Stream, StreamInOrder, InOrder
<1>3. CASE pc' \in {"loop", "piece"} /\ what' # "errhead"
  BY <1>3 DEF Stream, StreamInOrder, InOrder
<1>4. CASE pc' \in {"loop", "piece"} /\ what' = "errhead"
  <2>1. size' = 1 /\ curSize' \in 0..size' /\ sent' \in Seq(Int)
    BY <1>4 DEF TypeInv, TypeOK, Shape
  <2>2. Len(sent') = curSize' /\ (curSize' = 1 => sent' = <<HeadErr>>)
    BY <1>4 DEF Stream
  <2>3. curSize' = 0 => sent' = <<>>
    BY <2>1, <2>2
  <2>4. curSize' \in {0, 1}
    BY <2>1
  <2> QED  BY <2>2, <2>3, <2>4 DEF StreamInOrder
<1> QED  BY <1>1, <1>2, <1>3, <1>4 DEF TypeInv, TypeOK

(* How a read may end. *)
LEMMA EndNext ==
  TypeInv /\ TypeInv' /\ Stream /\ EndFitsAnswer /\ [Next]_vars => EndFitsAnswer'
<1> SUFFICES ASSUME TypeInv, TypeInv', Stream, EndFitsAnswer, [Next]_vars, pc' = "idle"
             PROVE  EndFitsAnswer'
  BY DEF EndFitsAnswer
<1> USE DEF Running, Heads
<1>1. CASE ReadFails
  <2>1. pc = "read" /\ UNCHANGED request
    BY <1>1 DEF ReadFails
  <2>2. Multi /\ Multi' /\ result' = "disk"
    BY <1>1, <2>1 DEF ReadFails, SendPackage, Finish, Multi, request
  <2> QED  BY <2>2 DEF EndFitsAnswer
<1>2. CASE ZeroWindow \/ SendFails
  <2>1. result' = "send"
    BY <1>2 DEF ZeroWindow, SendFails, GiveUp, SendPackage, Finish
  <2> QED  BY <2>1 DEF EndFitsAnswer
<1>3. CASE SingleSent
  <2>1. /\ pc = "loop" /\ curSize = size /\ UNCHANGED <<request, sent, headLost>>
    BY <1>3 DEF SingleSent, Sent
  <2>2. CASE what = "data"
    <3>1. result' = "ok" /\ size = len /\ rsize = 0 /\ len \in Nat
      BY <1>3, <2>1, <2>2 DEF SingleSent, Finish, TypeInv, TypeOK, Shape
    <3>2. ~headLost => Len(sent) = 1 + rsize + curSize
      BY <2>1, <2>2 DEF Stream
    <3> QED  BY <2>1, <3>1, <3>2 DEF EndFitsAnswer, request
  <2>3. CASE what = "errhead"
    <3>1. result' = "disk" /\ size = 1
      BY <1>3, <2>1, <2>3 DEF SingleSent, Finish, TypeInv, Shape
    <3>2. sent' = <<HeadErr>>
      BY <2>1, <2>3, <3>1 DEF Stream
    <3> QED  BY <3>1, <3>2 DEF EndFitsAnswer
  <2> QED  BY <1>3, <2>2, <2>3 DEF SingleSent
<1>4. CASE MultiSent
  <2>1. /\ pc = "loop" /\ curSize = size /\ UNCHANGED <<len, sent, headLost>>
        /\ what \in {"mulhead", "muldata"} /\ ~(rsize' < len) /\ result' = "ok"
    BY <1>4 DEF MultiSent, Sent, Finish
  <2>2. len \in Nat /\ rsize' \in 0..len /\ rsize \in Nat /\ size \in Nat
    BY <2>1 DEF TypeInv, TypeOK
  <2>3. what = "muldata" /\ rsize' = rsize + size
    BY <1>4, <2>1, <2>2 DEF MultiSent, TypeInv, Shape
  <2>4. Len(sent) = 1 + rsize + size /\ rsize' = len
    BY <2>1, <2>2, <2>3 DEF Stream, TypeInv, Shape
  <2> QED  BY <2>1, <2>2, <2>3, <2>4 DEF EndFitsAnswer
<1>5. CASE Drain \/ Acknowledge \/ UNCHANGED vars
  BY <1>5 DEF Drain, Acknowledge, vars, EndFitsAnswer, Multi, request
<1> QED  BY <1>1, <1>2, <1>3, <1>4, <1>5
         DEF Next, Box, BeginEmpty, BeginSingle, BeginMulti, ReadDone, SendPiece, WaitAck,
             WaitFails, HeadSent, SendPackage

LEMMA Inductive ==
  /\ Init => IInv
  /\ IInv /\ [Next]_vars => IInv'
<1>1. Init => StreamInOrder /\ EndFitsAnswer
  BY DEF Init, StreamInOrder, EndFitsAnswer
<1> QED  BY <1>1, TypeInit, TypeNext, StreamInit, StreamNext, OrderNext, EndNext DEF IInv

(* diskREAD's answer is the header and the sectors asked for, in order and *)
(* without a gap, although send_big_packet moves each piece over the       *)
(* buffer the rest of the package lies in.                                 *)
THEOREM StreamInOrderAlways == Spec => []StreamInOrder
<1>1. IInv => StreamInOrder
  BY DEF IInv
<1> QED  BY <1>1, Inductive, PTL DEF Spec

(* A read that ends well has sent every cell once; SIGREAD that ends with  *)
(* a disk error has sent an error header and nothing else.                 *)
THEOREM EndFitsAnswerAlways == Spec => []EndFitsAnswer
<1>1. IInv => EndFitsAnswer
  BY DEF IInv
<1> QED  BY <1>1, Inductive, PTL DEF Spec

-----------------------------------------------------------------------------
(* The read service. An in-order stream is the beginning of its answer.    *)
LEMMA AnswerIs ==
  ASSUME NEW s \in Seq(Int), InOrder(s), Len(s) >= 1
  PROVE  s = Service!Answer(Len(s))
<1>1. s = [i \in 1..Len(s) |-> s[i]]
  OBVIOUS
<1>2. s # <<>>
  OBVIOUS
<1>3. \A i \in 1..Len(s) : s[i] = IF i = 1 THEN HeadOk ELSE i - 2
  <2>1. \A i \in 1..Len(s) : i = 1 \/ i \in 2..Len(s)
    OBVIOUS
  <2> QED  BY <1>2, <2>1 DEF InOrder
<1> QED  BY <1>1, <1>3 DEF Service!Answer

LEMMA Further ==
  ASSUME NEW r \in Nat, NEW c \in Nat, NEW d \in Nat, NEW z \in Nat, NEW n \in Nat,
         d <= z, d > c, r + z <= n
  PROVE  1 + r + d \in (1 + r + c + 1)..(n + 1)
OBVIOUS

(* A piece is begun only where something is left to send. *)
MoreToSend == pc = "piece" => curSize < size

LEMMA MoreToSendNext == TypeInv /\ MoreToSend /\ [Next]_vars => MoreToSend'
<1> SUFFICES ASSUME TypeInv, MoreToSend, [Next]_vars, pc' = "piece" PROVE curSize' < size'
  BY DEF MoreToSend
<1>1. WaitAck \/ WaitFails \/ (pc = "piece" /\ UNCHANGED <<size, curSize>>)
  BY DEF Next, Box, BeginEmpty, BeginSingle, BeginMulti, ReadDone, ReadFails, SendPiece,
         ZeroWindow, SendFails, GiveUp, SendPackage, Finish, HeadSent, SingleSent, MultiSent,
         Drain, Acknowledge, vars, package
<1> QED  BY <1>1 DEF WaitAck, WaitFails, MoreToSend

(* A piece is the next part of the answer, or the header that says no. *)
LEMMA SendPieceServes ==
  ASSUME IInv, IInv', SendPiece
  PROVE  [Service!SNext]_(Service!sVars)
<1> USE DEF Running, Heads
<1>1. /\ Sending /\ Piece # 0 /\ pc \in {"loop", "piece"} /\ pc' = "loop"
      /\ curSize' = curSize + Piece /\ UNCHANGED <<len, rsize, what, size, headLost, result>>
  BY DEF SendPiece, Sending, request
<1>2. /\ sent \in Seq(Int) /\ sent' \in Seq(Int) /\ len \in Nat /\ rsize \in Nat
      /\ curSize \in Nat /\ size \in Nat /\ curSize' \in 0..size /\ curSize < size
      /\ Piece \in Nat /\ curSize' > curSize
  <2>1. Piece \in 0..size-curSize
    BY <1>1, PieceFits DEF IInv, TypeInv, TypeOK
  <2>2. /\ sent \in Seq(Int) /\ sent' \in Seq(Int) /\ len \in Nat /\ rsize \in Nat
        /\ curSize \in Nat /\ size \in Nat /\ curSize' \in 0..size'
    BY Sizes DEF IInv, TypeInv, TypeOK
  <2> QED  BY <1>1, <2>1, <2>2 DEF Sending
<1>3. CASE headLost
  BY <1>1, <1>3 DEF Service!sVars, Shown, Ended
<1>4. CASE ~headLost /\ what = "errhead"
  <2>1. size = 1 /\ Len(sent) = curSize /\ (curSize' = 1 => sent' = <<HeadErr>>)
    BY <1>1, <1>4 DEF IInv, TypeInv, Shape, Stream
  <2>2. sent = <<>> /\ sent' = <<HeadErr>>
    <3>1. Len(sent) = 0 /\ curSize' = 1
      BY <1>2, <2>1
    <3> QED  BY <1>2, <2>1, <3>1
  <2> QED  BY <1>1, <1>4, <2>2 DEF Service!SNext, Service!Refuse, Shown, Ended
<1>5. CASE ~headLost /\ what # "errhead"
  <2>1. InOrder(sent) /\ InOrder(sent')
    BY <1>1, <1>5 DEF IInv, Stream
  <2>2. Len(sent') \in (Len(sent) + 1)..(len + 1)
    <3>1. CASE what \in Heads
      <4>1. size = 1 /\ Len(sent) = curSize /\ Len(sent') = curSize'
        BY <1>1, <3>1 DEF IInv, TypeInv, Shape, Stream
      <4> QED  BY <1>2, <4>1
    <3>2. CASE what \in {"data", "muldata"}
      <4>1. Len(sent) = 1 + rsize + curSize /\ Len(sent') = 1 + rsize + curSize'
        BY <1>1, <1>5, <3>2 DEF IInv, Stream
      <4>2. rsize + size <= len
        BY <1>1, <1>2, <3>2 DEF IInv, TypeInv, Shape
      <4>3. /\ curSize' \in Nat /\ curSize' <= size /\ curSize' > curSize
            /\ rsize \in Nat /\ len \in Nat /\ curSize \in Nat /\ size \in Nat
        BY <1>2
      <4>4. 1 + rsize + curSize' \in (1 + rsize + curSize + 1)..(len + 1)
        BY <4>2, <4>3, Further
      <4> QED  BY <4>1, <4>4
    <3> QED  BY <3>1, <3>2 DEF IInv, TypeInv, TypeOK
  <2>3. sent' = Service!Answer(Len(sent'))
    <3>1. Len(sent') >= 1
      BY <1>2, <2>2
    <3> QED  BY <1>2, <2>1, <3>1, AnswerIs
  <2>4. sent # <<HeadErr>>
    BY <2>1 DEF InOrder, HeadOk, HeadErr
  <2>5. Shown = sent /\ Shown' = sent' /\ Ended = "none" /\ Ended' = "none"
    BY <1>1, <1>5 DEF Shown, Ended
  <2> QED  BY <1>1, <2>2, <2>3, <2>4, <2>5 DEF Service!SNext, Service!Deliver
<1> QED  BY <1>3, <1>4, <1>5

(* A read that ends well has sent the whole answer. *)
LEMMA EndServes ==
  ASSUME IInv, SingleSent \/ MultiSent
  PROVE  [Service!SNext]_(Service!sVars)
<1> USE DEF Running, Heads
<1>1. /\ pc = "loop" /\ curSize = size /\ UNCHANGED <<len, sent, headLost>>
      /\ what \in {"data", "errhead", "mulhead", "muldata"}
  BY DEF SingleSent, MultiSent, Sent, request
<1>2. sent \in Seq(Int) /\ len \in Nat /\ rsize \in Nat /\ size \in Nat
  BY Sizes DEF IInv, TypeInv, TypeOK
<1>3. CASE headLost
  BY <1>1, <1>3 DEF Service!sVars, Shown, Ended
<1>4. ASSUME ~headLost, what # "errhead", pc' = "idle", result' = "ok", Len(sent) = len + 1
      PROVE  Service!SNext
  <2>1. InOrder(sent)
    BY <1>1, <1>4 DEF IInv, Stream
  <2>2. sent = Service!Answer(len + 1)
    <3>1. Len(sent) >= 1
      BY <1>2, <1>4
    <3> QED  BY <1>2, <1>4, <2>1, <3>1, AnswerIs
  <2>3. Shown = sent /\ Shown' = sent /\ Ended = "none" /\ Ended' = "ok"
    BY <1>1, <1>4 DEF Shown, Ended
  <2> QED  BY <1>1, <2>2, <2>3 DEF Service!SNext, Service!Finish
<1>5. CASE ~headLost /\ SingleSent /\ what = "data"
  <2>1. Len(sent) = 1 + rsize + curSize /\ size = len /\ rsize = 0
    BY <1>1, <1>5 DEF IInv, TypeInv, Shape, Stream
  <2>2. pc' = "idle" /\ result' = "ok"
    BY <1>5 DEF SingleSent, Finish
  <2> QED  BY <1>1, <1>2, <1>4, <1>5, <2>1, <2>2
<1>6. CASE ~headLost /\ SingleSent /\ what = "errhead"
  <2>1. sent = <<HeadErr>> /\ ~Multi
    BY <1>1, <1>6 DEF IInv, TypeInv, Shape, Stream
  <2>2. pc' = "idle" /\ result' = "disk" /\ ~Multi'
    BY <1>1, <1>6, <2>1 DEF SingleSent, Finish, Multi
  <2>3. Shown = sent /\ Shown' = sent /\ Ended = "none" /\ Ended' = "refused"
    BY <1>1, <1>6, <2>2 DEF Shown, Ended
  <2> QED  BY <1>1, <2>1, <2>3 DEF Service!SNext, Service!Finish
<1>7. CASE ~headLost /\ MultiSent
  <2>1. CASE pc' = "read"
    <3>1. Shown' = Shown /\ Ended = "none" /\ Ended' = "none"
      BY <1>1, <1>7, <2>1 DEF Shown, Ended
    <3> QED  BY <1>1, <3>1 DEF Service!sVars
  <2>2. CASE pc' # "read"
    <3>1. ~(rsize' < len) /\ pc' = "idle" /\ result' = "ok" /\ what \in {"mulhead", "muldata"}
      BY <1>7, <2>2 DEF MultiSent, Finish
    <3>2. what = "muldata" /\ rsize' = rsize + size
      BY <1>1, <1>2, <1>7, <3>1 DEF MultiSent, IInv, TypeInv, Shape
    <3>3. Len(sent) = 1 + rsize + size /\ rsize + size <= len
      BY <1>1, <1>7, <3>2 DEF IInv, TypeInv, Shape, Stream
    <3> QED  BY <1>2, <1>4, <1>7, <3>1, <3>2, <3>3
  <2> QED  BY <2>1, <2>2
<1> QED  BY <1>1, <1>3, <1>5, <1>6, <1>7 DEF SingleSent, MultiSent

(* The handler implements the read service: the phone gets the answer in   *)
(* order and no more than it asked for, or one error header by itself, and *)
(* "ok" is said of a whole answer only.                                    *)
THEOREM ServiceImplemented == Spec => ImplementsService
<1>1. Init => Service!SInit /\ MoreToSend
  BY DEF Init, Service!SInit, Shown, Ended, MoreToSend
<1>2. IInv /\ MoreToSend /\ [Next]_vars => MoreToSend'
  BY MoreToSendNext DEF IInv
<1>3. ASSUME IInv, IInv', MoreToSend, [Next]_vars
      PROVE  [Service!SNext]_(Service!sVars)
  <2> USE DEF Running, Heads
  <2>1. CASE BeginEmpty \/ BeginSingle \/ BeginMulti
    <3>1. pc = "idle" /\ pc' # "idle" /\ sent' = <<>> /\ headLost' = FALSE
      BY <2>1 DEF BeginEmpty, BeginSingle, BeginMulti, Begin, SendPackage
    <3>2. len' \in Nat
      BY <1>3, Sizes DEF IInv, TypeInv, TypeOK
    <3>3. Shown' = <<>> /\ Ended # "none" /\ Ended' = "none"
      BY <3>1 DEF Shown, Ended
    <3> QED  BY <3>2, <3>3 DEF Service!SNext, Service!Request
  <2>2. CASE ReadFails
    <3>1. pc = "read" /\ ~headLost /\ UNCHANGED <<len, sent, headLost>>
      BY <1>3, <2>2 DEF ReadFails, request, IInv, TypeInv, Shape
    <3>2. pc' = "loop" \/ (pc' = "idle" /\ result' = "disk" /\ Multi')
      BY <2>2, <3>1 DEF ReadFails, SendPackage, Finish, Multi
    <3>3. Shown' = Shown /\ Ended = "none" /\ Ended' \in {"none", "broken"}
      BY <3>1, <3>2 DEF Shown, Ended
    <3> QED  BY <3>1, <3>3 DEF Service!sVars, Service!SNext, Service!Finish
  <2>3. CASE ZeroWindow \/ SendFails
    <3>1. /\ GiveUp /\ pc \in {"loop", "piece"} /\ UNCHANGED <<len, sent>>
          /\ curSize < size
      BY <1>3, <2>3 DEF ZeroWindow, SendFails, Sending, GiveUp, request, MoreToSend
    <3>2. CASE what = "head"
      <4>1. headLost' /\ ~headLost /\ sent = <<>>
        <5>1. size = 1 /\ Len(sent) = curSize /\ ~headLost /\ sent \in Seq(Int) /\ curSize \in Nat
          BY <1>3, <3>1, <3>2 DEF IInv, TypeInv, TypeOK, Shape, Stream
        <5>2. Len(sent) = 0
          BY <3>1, <5>1
        <5> QED  BY <3>1, <3>2, <5>1, <5>2 DEF GiveUp
      <4>2. Shown' = Shown /\ Ended = "none" /\ Ended' = "broken"
        BY <3>1, <4>1 DEF Shown, Ended
      <4> QED  BY <3>1, <4>2 DEF Service!SNext, Service!Finish
    <3>3. CASE what # "head"
      <4>1. pc' = "idle" /\ result' = "send" /\ headLost' = headLost
        BY <3>1, <3>3 DEF GiveUp, Finish
      <4>2. Shown' = Shown /\ Ended' = "broken" /\ Ended \in {"none", "broken"}
        BY <3>1, <4>1 DEF Shown, Ended
      <4> QED  BY <3>1, <4>2 DEF Service!sVars, Service!SNext, Service!Finish
    <3> QED  BY <3>2, <3>3
  <2>4. CASE SendPiece
    BY <1>3, <2>4, SendPieceServes
  <2>5. CASE SingleSent \/ MultiSent
    BY <1>3, <2>5, EndServes
  <2>6. CASE ReadDone \/ WaitAck \/ WaitFails \/ HeadSent
    <3>1. pc # "idle" /\ pc' # "idle" /\ UNCHANGED <<len, sent, headLost>>
      BY <2>6 DEF ReadDone, WaitAck, WaitFails, HeadSent, Sent, SendPackage, request
    <3> QED  BY <3>1 DEF Service!sVars, Shown, Ended
  <2>7. CASE Drain \/ Acknowledge \/ UNCHANGED vars
    <3>1. UNCHANGED <<pc, len, sent, result, headLost>>
      BY <2>7 DEF Drain, Acknowledge, vars, request
    <3> QED  BY <3>1 DEF Service!sVars, Shown, Ended, Multi
  <2> QED  BY <1>3, <2>1, <2>2, <2>3, <2>4, <2>5, <2>6, <2>7 DEF Next, Box
<1> QED
  BY <1>1, <1>2, <1>3, Inductive, PTL
  DEF Spec, ImplementsService, Service!SSpec
=============================================================================
