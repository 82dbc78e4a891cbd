-------------------------- MODULE DiskNotifyProofs --------------------------
(***************************************************************************)
(* The table of disks follows what is plugged, for every number of plug    *)
(* events and failures and every limit of the tag. That an entry without a *)
(* disk does not outlive a restart rests on the port: the disk task works  *)
(* on an entry only after it saw the port powered, and a disk that is      *)
(* pulled out from then on makes the interrupt ask for the restart.        *)
(***************************************************************************)
EXTENDS DiskNotify, TLAPS

(* The tag passes its limit only between the store and the clamp, while    *)
(* the interrupt may raise it further, once for each plug event.           *)
TagBound == pcD = "clamp" => notifyPhone <= TagLimit + 1 + plugs

TagInv == TypeOK /\ TagBound

Flags ==
  /\ phone \in BOOLEAN /\ diskIn \in BOOLEAN /\ cardIn \in BOOLEAN
  /\ sd_plugin \in BOOLEAN /\ notifying \in BOOLEAN
  /\ sendFailed \in BOOLEAN /\ resetAsked \in BOOLEAN

(* The disk task is at work on the entry of the USB disk. *)
HddUnderWay == pcD \in {"dialog", "findhdd", "fillhdd"}

HddInv ==
  /\ port # "unattached" => diskIn
  /\ HddUnderWay /\ ~diskIn => resetAsked
  /\ entry.hdd # "none" /\ ~diskIn => resetAsked

CardInv ==
  IF pcD = "fillcard" THEN ~sd_plugin /\ entry.card = "marked"
  ELSE entry.card = (IF sd_plugin THEN "filled" ELSE "none")

-----------------------------------------------------------------------------
LEMMA TagNext == TagInv /\ [Next]_vars => TagInv'
<1> SUFFICES ASSUME TagInv, [Next]_vars PROVE TagInv'
  OBVIOUS
<1> USE TagLimitIsPos, BoundsAreNat DEF TagInv, TypeOK, TagBound
<1>1. ASSUME DiskTask PROVE TagInv'
  <2>1. CASE NoCardNews
    BY <2>1 DEF NoCardNews, ext, phoneTask
  <2>2. CASE CardFails
    BY <2>2 DEF CardFails, Fault, ext, phoneTask
  <2>3. CASE CardFound
    BY <2>3 DEF CardFound, ext, phoneTask
  <2>4. CASE CardFilled
    BY <2>4 DEF CardFilled, ext, phoneTask
  <2>5. CASE CardGone
    BY <2>5 DEF CardGone, ext, phoneTask
  <2>6. CASE EnterUsb
    BY <2>6 DEF EnterUsb, ext, phoneTask
  <2>7. CASE LeaveUsb
    BY <2>7 DEF LeaveUsb, ext, phoneTask
  <2>8. CASE Enumerated
    BY <2>8 DEF Enumerated, ext, phoneTask
  <2>9. CASE EnumerationFails
    BY <2>9 DEF EnumerationFails, Fault, ext, phoneTask
  <2>10. CASE DialogDone
    BY <2>10 DEF DialogDone, ext, phoneTask
  <2>11. CASE DialogFails
    BY <2>11 DEF DialogFails, Fault, ext, phoneTask
  <2>12. CASE HddFound
    BY <2>12 DEF HddFound, ext, phoneTask
  <2>13. CASE HddFilled
    BY <2>13 DEF HddFilled, ext, phoneTask
  <2>14. CASE TagTest
    BY <2>14 DEF TagTest, ext, phoneTask
  <2>15. CASE TagStore
    BY <2>15 DEF TagStore, ext, phoneTask
  <2>16. CASE TagClamp
    BY <2>16 DEF TagClamp, ext, phoneTask
  <2> QED  BY <1>1, <2>1, <2>2, <2>3, <2>4, <2>5, <2>6, <2>7, <2>8, <2>9,
             <2>10, <2>11, <2>12, <2>13, <2>14, <2>15, <2>16 DEF DiskTask
<1>2. ASSUME PhoneTask PROVE TagInv'
  <2>1. CASE Connect
    BY <2>1 DEF Connect, ext, diskTask
  <2>2. CASE Handle
    BY <2>2 DEF Handle, ext, diskTask
  <2>3. CASE HandleLun
    BY <2>3 DEF HandleLun, ext, diskTask
  <2>4. CASE Check
    <3>1. Flags'
      BY <2>4, Zenon DEF Check, Flags, ext, diskTask
    <3> QED  BY <2>4, <3>1 DEF Check, Flags, ext, diskTask
  <2>5. CASE DiskNum
    BY <2>5 DEF DiskNum, ext, diskTask
  <2>6. CASE Send
    BY <2>6 DEF Send, AfterSend, ext, diskTask
  <2>7. CASE SendFails
    BY <2>7 DEF SendFails, AfterSend, Fault, ext, diskTask
  <2>8. CASE ResetTag
    BY <2>8 DEF ResetTag, ext, diskTask
  <2> QED  BY <1>2, <2>1, <2>2, <2>3, <2>4, <2>5, <2>6, <2>7,
             <2>8 DEF PhoneTask
<1>3. ASSUME World PROVE TagInv'
  <2>1. CASE PlugCard
    BY <2>1 DEF PlugCard, Plug, diskTask, phoneTask
  <2>2. CASE AttachDisk
    BY <2>2 DEF AttachDisk, Plug, diskTask, phoneTask
  <2>3. CASE ReportDisk
    BY <2>3 DEF ReportDisk, ext, diskTask, phoneTask
  <2>4. CASE UnattachDisk
    <3>1. Flags'
      BY <2>4, Zenon DEF UnattachDisk, Flags, diskTask, phoneTask
    <3>2. notifyPhone' \in 0..(TagLimit + 2 + plugs) /\ announced' \in Nat
      BY <2>4 DEF UnattachDisk, TagFromIsr
    <3>3. pcD # "clamp" => notifyPhone' \in 0..TagLimit
      BY <2>4 DEF UnattachDisk, TagFromIsr
    <3> QED
      BY <2>4, <3>1, <3>2, <3>3 DEF UnattachDisk, TagFromIsr, Plug, Flags, diskTask, phoneTask
  <2>5. CASE AttachPhone
    BY <2>5 DEF AttachPhone, Plug, diskTask, phoneTask
  <2>6. CASE UnattachPhone
    <3>1. Flags'
      BY <2>6, Zenon DEF UnattachPhone, Flags, diskTask, phoneTask
    <3> QED  BY <2>6, <3>1 DEF UnattachPhone, Plug, Flags, diskTask, phoneTask
  <2> QED  BY <1>3, <2>1, <2>2, <2>3, <2>4, <2>5, <2>6 DEF World
<1>4. CASE PowerCycle
  <2>1. Flags'
    BY <1>4, Zenon DEF PowerCycle, Boot, Flags
  <2>2. entry' \in [{"hdd", "card"} -> {"none", "marked", "filled"}]
    BY <1>4 DEF PowerCycle, Boot
  <2> QED  BY <1>4, <2>1, <2>2 DEF PowerCycle, Boot, Flags
<1>5. CASE UNCHANGED vars
  BY <1>5 DEF vars, ext, diskTask, phoneTask
<1> QED  BY <1>1, <1>2, <1>3, <1>4, <1>5 DEF Next

(* Every variable keeps its type; the tag in particular stays at most at   *)
(* its limit outside the clamp of NXP_setDiskNotifyTag.                    *)
THEOREM TypeCorrect == Spec => []TypeOK
<1>1. Init => TagInv
  <2> SUFFICES ASSUME Init PROVE TagInv
    OBVIOUS
  <2>1. Flags
    BY Zenon DEF Init, Flags
  <2>2. entry \in [{"hdd", "card"} -> {"none", "marked", "filled"}]
    BY DEF Init
  <2> QED  BY <2>1, <2>2, TagLimitIsPos, BoundsAreNat DEF Init, Flags, TagInv, TypeOK, TagBound
<1>2. TagInv => TypeOK
  BY DEF TagInv
<1> QED  BY <1>1, <1>2, TagNext, PTL DEF Spec

-----------------------------------------------------------------------------
LEMMA HddNext == TypeOK /\ HddInv /\ [Next]_vars => HddInv'
<1> SUFFICES ASSUME TypeOK, HddInv, [Next]_vars PROVE HddInv'
  OBVIOUS
<1> USE DEF TypeOK, HddInv, HddUnderWay
<1>1. ASSUME DiskTask PROVE HddInv'
  <2>1. CASE NoCardNews \/ CardFails \/ CardFound \/ CardFilled \/ CardGone
    BY <2>1 DEF NoCardNews, CardFails, CardFound, CardFilled, CardGone, ext
  <2>2. CASE EnterUsb \/ LeaveUsb \/ Enumerated \/ EnumerationFails
    BY <2>2 DEF EnterUsb, LeaveUsb, Enumerated, EnumerationFails, ext
  <2>3. CASE DialogDone \/ DialogFails \/ HddFound \/ HddFilled
    BY <2>3 DEF DialogDone, DialogFails, HddFound, HddFilled, ext
  <2>4. CASE TagTest \/ TagStore
    BY <2>4 DEF TagTest, TagStore, ext
  <2>5. CASE TagClamp
    BY <2>5 DEF TagClamp, ext
  <2> QED  BY <1>1, <2>1, <2>2, <2>3, <2>4, <2>5 DEF DiskTask
<1>2. ASSUME PhoneTask PROVE HddInv'
  BY <1>2 DEF PhoneTask, Connect, Handle, HandleLun, Check, DiskNum, Send, SendFails,
              ResetTag, ext, diskTask
<1>3. ASSUME World PROVE HddInv'
  BY <1>3 DEF World, PlugCard, AttachDisk, ReportDisk, UnattachDisk, AttachPhone,
              UnattachPhone, ext, diskTask
<1>4. CASE PowerCycle
  BY <1>4 DEF PowerCycle, Boot
<1>5. CASE UNCHANGED vars
  BY <1>5 DEF vars, ext, diskTask
<1> QED  BY <1>1, <1>2, <1>3, <1>4, <1>5 DEF Next

LEMMA CardNext == TypeOK /\ TypeOK' /\ CardInv /\ [Next]_vars => CardInv'
<1> SUFFICES ASSUME TypeOK, TypeOK', CardInv, [Next]_vars PROVE CardInv'
  OBVIOUS
<1> USE DEF TypeOK, CardInv
<1>1. ASSUME DiskTask PROVE CardInv'
  <2>1. CASE NoCardNews \/ CardFails \/ CardFound \/ CardFilled \/ CardGone
    BY <2>1 DEF NoCardNews, CardFails, CardFound, CardFilled, CardGone
  <2>2. CASE EnterUsb \/ LeaveUsb \/ Enumerated \/ EnumerationFails
    BY <2>2 DEF EnterUsb, LeaveUsb, Enumerated, EnumerationFails
  <2>3. CASE DialogDone \/ DialogFails \/ HddFound \/ HddFilled
    BY <2>3 DEF DialogDone, DialogFails, HddFound, HddFilled
  <2>4. CASE TagTest \/ TagStore
    BY <2>4 DEF TagTest, TagStore
  <2>5. CASE TagClamp
    BY <2>5 DEF TagClamp
  <2> QED  BY <1>1, <2>1, <2>2, <2>3, <2>4, <2>5 DEF DiskTask
<1>2. ASSUME PhoneTask PROVE CardInv'
  BY <1>2 DEF PhoneTask, Connect, Handle, HandleLun, Check, DiskNum, Send, SendFails,
              ResetTag, diskTask
<1>3. ASSUME World PROVE CardInv'
  BY <1>3 DEF World, PlugCard, AttachDisk, ReportDisk, UnattachDisk, AttachPhone,
              UnattachPhone, diskTask
<1>4. CASE PowerCycle
  BY <1>4 DEF PowerCycle, Boot
<1>5. CASE UNCHANGED vars
  BY <1>5 DEF vars, diskTask
<1> QED  BY <1>1, <1>2, <1>3, <1>4, <1>5 DEF Next

(* An entry of a USB disk that is gone never outlives the restart the      *)
(* interrupt of its removal asked for, and between two rounds of the disk  *)
(* task the card's entry says what sd_plugin says.                         *)
THEOREM TableFollowsPlugsAlways == Spec => []TableFollowsPlugs
<1>1. Init => HddInv /\ CardInv
  BY DEF Init, HddInv, CardInv, HddUnderWay
<1>2. TypeOK /\ TypeOK' /\ HddInv /\ CardInv /\ [Next]_vars => (HddInv /\ CardInv)'
  BY HddNext, CardNext
<1>3. TypeOK /\ HddInv /\ CardInv => TableFollowsPlugs
  BY DEF TypeOK, HddInv, CardInv, TableFollowsPlugs
<1> QED  BY <1>1, <1>2, <1>3, TypeCorrect, PTL DEF Spec
=============================================================================
