------------------------- MODULE LinuxServiceProofs -------------------------
(***************************************************************************)
(* The two threads of the Linux build, for any number of events and any    *)
(* length of the waits: what they share without a lock stays consistent,   *)
(* except after the coincidences the history variables name.               *)
(*                                                                         *)
(* The invariants are about what is on its way: the last event of a kind   *)
(* in the socket says how the cable is, a handle has one owner, and a disk *)
(* event is told by the thread that has it.                                *)
(***************************************************************************)
EXTENDS LinuxService, TLAPS

MainPcs == {"loop", "detect", "forget", "open", "store", "fill", "connect", "dialog",
            "handle", "answer", "drop", "close", "clear", "tell", "told", "reset", "count"}
PlugPcs == {"scan", "bind", "poll", "close", "clear", "raise", "enter", "sample",
            "wait", "notify"}

PhoneEvents == {"phoneAdd", "phoneRem"}
DiskEvents  == {"diskAdd", "diskRem", "diskChange"}

TypeInv ==
  /\ TypeOK
  /\ main \in [pc : MainPcs, handle : Handles, act : Actions]
  /\ plug \in [pc : PlugPcs, sent : 0..MaxCount-1, polls : 0..CountTime, act : Actions]

(* Some event of the kind E is in s; the last one of the kind is in Ok.    *)
Has(s, E) == \E i \in 1..Len(s) : s[i] \in E
LastIsIn(s, E, Ok) ==
  \A i \in 1..Len(s) : s[i] \in E /\ (\A j \in 1..Len(s) : j > i => s[j] \notin E) => s[i] \in Ok

-----------------------------------------------------------------------------
(* A disk event: due, or told already, while the plug thread is at it.     *)
AtDisk == plug.pc \in {"enter", "sample", "wait"}

EventInv ==
  /\ action # "none" => AtDisk
  /\ ~slow =>
       /\ AtDisk => due \in {"none", action}
       /\ plug.pc = "notify" => due \in {"none", plug.act}
       /\ ~AtDisk /\ plug.pc # "notify" => due = "none"
       /\ main.pc = "told" => action # "none" /\ main.act = action
       /\ main.pc = "reset" => action # "none" /\ due = "none"

DiskNow == IF disk THEN {"diskAdd", "diskChange"} ELSE {"diskRem", "diskChange"}

(* The disk: the last event in the socket says whether it is there.        *)
DiskInv ==
  /\ plug.pc \in {"scan", "bind"} => uevents = <<>> /\ ~echo
  /\ LastIsIn(uevents, DiskEvents, DiskNow)
  /\ ~Has(uevents, DiskEvents) =>
       /\ plug.pc = "enter" => disk
       /\ ~unseen /\ plug.pc \notin {"scan", "enter"} => table = "freed" \/ (table = "disk") = disk

(* The handles: the state tells which one is in use, and nobody else has   *)
(* closed it.                                                              *)
InUse == {"connect", "dialog", "handle", "answer", "drop", "close", "clear", "tell", "told"}

HandleInv ==
  /\ plug.pc \in {"scan", "bind", "close", "clear", "raise"} => flag = 0
  /\ plug.pc \in {"scan", "bind"} => opened = <<>> /\ main.pc = "loop"
  /\ (main.handle # 0) = (main.pc \in {"store", "fill"})
  /\ ~crossed =>
       /\ plug.pc \in {"clear", "raise"} => Idle
       /\ plug.pc = "clear" => osPriv \in closed \cup {0}
       /\ plug.pc = "raise" => state = "init"
       /\ plug.pc = "notify" => main.pc # "clear"
       /\ state = "init" => dev = 0 /\ (main.pc # "fill" => osPriv = 0)
       /\ state # "init" => dev = osPriv /\ dev # 0
       /\ state # "init" /\ plug.pc # "clear" /\ main.pc # "clear" => dev \notin closed
       /\ main.pc = "clear" => osPriv \in closed
       /\ main.pc \in InUse => state # "init"
       /\ main.pc \in {"forget", "open", "store", "fill"} => state = "init"
       /\ main.pc = "fill" => osPriv = main.handle
       /\ main.handle \notin closed
       /\ (1..Len(opened)) \ closed \subseteq {osPriv, main.handle}

(* The phone: if no event is on its way, every handle in use is that of    *)
(* the phone that is plugged, and the flag tells whether there is one.     *)
PhoneNow == IF phone # 0 THEN {"phoneAdd"} ELSE {"phoneRem"}
Raising  == plug.pc \in {"close", "clear", "raise"}

PhoneInv ==
  /\ LastIsIn(uevents, PhoneEvents, PhoneNow)
  /\ ~Has(uevents, PhoneEvents) =>
       /\ Raising => phone # 0
       /\ ~Raising /\ ~crossed =>
            /\ phone # 0 => \A h \in {osPriv, dev, main.handle} \ {0} : opened[h] = phone
            /\ main.pc = "drop" => phone = 0
            /\ main.pc # "drop" =>
                 (flag = 1) = (phone # 0) \/ (flag = 0 /\ (echo \/ plug.pc \in {"scan", "bind"}))

IInv == TypeInv /\ EventInv /\ DiskInv /\ HandleInv /\ PhoneInv

-----------------------------------------------------------------------------
(* Who changes what. *)
LEMMA WhoChangesBus ==
  ASSUME [Next]_vars, ~UNCHANGED bus
  PROVE  \/ BindSocket
         \/ PhoneAdd \/ PhoneRem \/ DiskAdd \/ DiskAddIgnored \/ DiskRem \/ DiskRemIgnored
         \/ PlugPhone \/ UnplugPhone \/ SwitchDisk \/ Echo
BY DEF Next, MainGoesOn, PlugGoesOn, vars, bus,
       MainLoop, Detect, Forget, OpenPhone, OpenFails, StoreHandle, FillInfo, ConnectPhone,
       DialogDone, DialogFails, Receive, Answer, Disconnected, Crash, DropFlag, MainClose,
       MainClear, Tell, Told, ResetAction, CountUp,
       ScanDisks, PlugClose, PlugClear, RaiseFlag, EnterDisk, Sample, Wait, GiveUp, Notify

LEMMA WhoChangesUsb ==
  ASSUME [Next]_vars, ~UNCHANGED usb
  PROVE  \/ Detect \/ Forget \/ OpenPhone \/ StoreHandle \/ FillInfo \/ ConnectPhone
         \/ DialogDone \/ MainClose \/ MainClear \/ PlugClose \/ PlugClear
BY DEF Next, MainGoesOn, PlugGoesOn, vars, usb, bus,
       MainLoop, OpenFails, DialogFails, Receive, Answer, Disconnected, Crash, DropFlag,
       Tell, Told, ResetAction, CountUp,
       ScanDisks, BindSocket, PhoneAdd, RaiseFlag, PhoneRem, DiskAdd, DiskAddIgnored,
       EnterDisk, DiskRem, RemoveEntry, DiskRemIgnored, Sample, Wait, GiveUp, Notify,
       PlugPhone, UnplugPhone, SwitchDisk, Echo

LEMMA WhoChangesMain ==
  ASSUME [Next]_vars, ~UNCHANGED main
  PROVE  \/ MainGoesOn \/ OpenPhone \/ OpenFails \/ DialogDone \/ DialogFails
         \/ Receive \/ Answer \/ Told
BY DEF Next, PlugGoesOn, vars, Crash,
       ScanDisks, BindSocket, PhoneAdd, PlugClose, PlugClear, RaiseFlag, PhoneRem, DiskAdd,
       DiskAddIgnored, EnterDisk, DiskRem, RemoveEntry, DiskRemIgnored, Sample, Wait, GiveUp,
       Notify, PlugPhone, UnplugPhone, SwitchDisk, Echo

LEMMA WhoChangesPlug ==
  ASSUME [Next]_vars, ~UNCHANGED plug
  PROVE  PlugGoesOn \/ Notify
BY DEF Next, MainGoesOn, vars,
       MainLoop, Detect, Forget, OpenPhone, OpenFails, StoreHandle, FillInfo, ConnectPhone,
       DialogDone, DialogFails, Receive, Answer, Disconnected, Crash, DropFlag, MainClose,
       MainClear, Tell, Told, ResetAction, CountUp, PlugPhone, UnplugPhone, SwitchDisk, Echo

LEMMA WhoChangesStatus ==
  ASSUME [Next]_vars, ~UNCHANGED <<status, table, alive, hist>>
  PROVE  \/ Detect \/ DropFlag \/ MainClose \/ Told \/ ResetAction \/ CountUp \/ Crash
         \/ ScanDisks \/ PhoneAdd \/ PlugClose \/ RaiseFlag \/ PhoneRem
         \/ DiskAdd \/ EnterDisk \/ DiskRem \/ GiveUp \/ Notify \/ SwitchDisk
BY DEF Next, MainGoesOn, PlugGoesOn, vars, status, hist,
       MainLoop, Forget, OpenPhone, OpenFails, StoreHandle, FillInfo, ConnectPhone,
       DialogDone, DialogFails, Receive, Answer, Disconnected, MainClear, Tell,
       BindSocket, PlugClear, DiskAddIgnored, DiskRemIgnored, Sample, Wait,
       PlugPhone, UnplugPhone, Echo

-----------------------------------------------------------------------------
BusOK ==
  /\ phone \in 0..MaxEvents /\ disk \in BOOLEAN /\ echo \in BOOLEAN
  /\ uevents \in Seq({"phoneAdd", "phoneRem", "diskAdd", "diskRem", "diskChange"})
  /\ plugged \in 0..MaxEvents

StatusOK ==
  /\ table \in {"none", "disk", "freed"}
  /\ flag \in {0, 1} /\ action \in Actions /\ count \in 0..MaxCount-1
  /\ alive \in BOOLEAN /\ due \in Actions
  /\ crossed \in BOOLEAN /\ unseen \in BOOLEAN /\ slow \in BOOLEAN

UsbOK ==
  /\ osPriv \in Handles /\ dev \in Handles /\ closed \subseteq Handles \ {0}
  /\ state \in {"init", "connecting", "connected"}
  /\ opened \in Seq(1..MaxEvents)

MainOK == main \in [pc : MainPcs, handle : Handles, act : Actions]
PlugOK == plug \in [pc : PlugPcs, sent : 0..MaxCount-1, polls : 0..CountTime, act : Actions]

LEMMA TypeParts == TypeInv <=> BusOK /\ StatusOK /\ UsbOK /\ MainOK /\ PlugOK
BY DEF TypeInv, TypeOK, BusOK, StatusOK, UsbOK, MainOK, PlugOK, MainPcs, PlugPcs

LEMMA TypeInit == Init => TypeInv
<1> SUFFICES ASSUME Init PROVE TypeInv
  OBVIOUS
<1> USE BoundsArePos DEF Init, Handles, Actions
<1>1. BusOK
  <2>1. uevents \in Seq({"phoneAdd", "phoneRem", "diskAdd", "diskRem", "diskChange"})
    OBVIOUS
  <2>2. phone \in 0..MaxEvents /\ plugged \in 0..MaxEvents
    OBVIOUS
  <2>3. disk \in BOOLEAN /\ echo \in BOOLEAN
    OBVIOUS
  <2> QED  BY <2>1, <2>2, <2>3 DEF BusOK
<1>2. StatusOK
  <2>1. count \in 0..MaxCount-1 /\ flag \in {0, 1}
    OBVIOUS
  <2>2. alive \in BOOLEAN /\ crossed \in BOOLEAN /\ unseen \in BOOLEAN /\ slow \in BOOLEAN
    OBVIOUS
  <2> QED  BY <2>1, <2>2 DEF StatusOK
<1>3. UsbOK
  BY DEF UsbOK
<1>4. MainOK
  BY DEF MainOK, MainPcs
<1>5. PlugOK
  BY DEF PlugOK, PlugPcs
<1> QED  BY <1>1, <1>2, <1>3, <1>4, <1>5, TypeParts

LEMMA TypeNext == TypeInv /\ [Next]_vars => TypeInv'
<1> SUFFICES ASSUME TypeInv, [Next]_vars PROVE TypeInv'
  OBVIOUS
<1>0. BusOK /\ StatusOK /\ UsbOK /\ MainOK /\ PlugOK
  BY TypeParts
<1>1. BusOK'
  <2> USE <1>0, BoundsArePos DEF BusOK
  <2>1. CASE UNCHANGED bus
    BY <2>1 DEF bus
  <2>2. CASE BindSocket \/ PhoneAdd \/ PhoneRem \/ DiskAdd \/ DiskAddIgnored \/ DiskRem \/ DiskRemIgnored
    <3>1. UNCHANGED <<phone, disk, plugged>>
      BY <2>2 DEF BindSocket, PhoneAdd, PhoneRem, DiskAdd, DiskAddIgnored, DiskRem, DiskRemIgnored
    <3>2. echo' = TRUE \/ echo' = echo
      BY <2>2 DEF BindSocket, PhoneAdd, PhoneRem, DiskAdd, DiskAddIgnored, DiskRem, DiskRemIgnored
    <3>3. uevents' = uevents \/ (uevents # <<>> /\ uevents' = Tail(uevents))
      <4>1. CASE BindSocket
        BY <4>1 DEF BindSocket
      <4>2. CASE ~BindSocket
        <5>1. \E e : Take(e)
          BY <2>2, <4>2 DEF PhoneAdd, PhoneRem, DiskAdd, DiskAddIgnored, DiskRem, DiskRemIgnored
        <5> QED  BY <5>1 DEF Take
      <4> QED  BY <4>1, <4>2
    <3>4. uevents' \in Seq({"phoneAdd", "phoneRem", "diskAdd", "diskRem", "diskChange"})
      <4> DEFINE E == {"phoneAdd", "phoneRem", "diskAdd", "diskRem", "diskChange"}
      <4>1. uevents \in Seq(E)
        OBVIOUS
      <4> HIDE DEF E
      <4>2. uevents # <<>> => Tail(uevents) \in Seq(E)
        BY <4>1
      <4>3. uevents' \in Seq(E)
        BY <3>3, <4>1, <4>2
      <4> QED  BY <4>3 DEF E
    <3>5. echo' \in BOOLEAN
      BY <3>2
    <3> QED  BY <3>1, <3>4, <3>5
  <2>3. CASE PlugPhone \/ UnplugPhone \/ SwitchDisk
    <3>1. PICK e \in {"phoneAdd", "phoneRem", "diskAdd", "diskRem", "diskChange"} : Event(e)
      BY <2>3 DEF PlugPhone, UnplugPhone, SwitchDisk
    <3>2. plugged' \in 1..MaxEvents /\ echo' = echo
      BY <3>1 DEF Event
    <3>3. uevents' = uevents \/ uevents' = Append(uevents, e)
      BY <3>1 DEF Event
    <3>4. phone' \in {phone, 0, plugged'} /\ disk' \in BOOLEAN
      BY <2>3 DEF PlugPhone, UnplugPhone, SwitchDisk
    <3> QED  BY <3>1, <3>2, <3>3, <3>4
  <2>4. CASE Echo
    <3>1. uevents' = uevents \/ uevents' = Append(uevents, "phoneAdd")
      BY <2>4 DEF Echo
    <3>2. uevents' \in Seq({"phoneAdd", "phoneRem", "diskAdd", "diskRem", "diskChange"})
      BY <3>1
    <3> QED  BY <2>4, <3>2 DEF Echo
  <2> QED  BY <2>1, <2>2, <2>3, <2>4, WhoChangesBus
<1>2. StatusOK'
  <2> USE <1>0, BoundsArePos DEF StatusOK, Actions
  <2>1. CASE UNCHANGED <<status, table, alive, hist>>
    BY <2>1 DEF status, hist
  <2>2. CASE Detect \/ DropFlag \/ MainClose \/ ResetAction \/ Crash
    BY <2>2 DEF Detect, DropFlag, MainClose, ResetAction, Crash, status, hist, Close
  <2>3. CASE CountUp
    <3>1. (count + 1) % MaxCount \in 0..MaxCount-1
      OBVIOUS
    <3> QED  BY <2>3, <3>1 DEF CountUp, hist
  <2>4. CASE Told \/ Notify
    BY <2>4 DEF Told, Notify, NotifyPlug, status
  <2>5. CASE ScanDisks \/ PhoneAdd \/ PlugClose \/ RaiseFlag \/ PhoneRem
    BY <2>5 DEF ScanDisks, PhoneAdd, PlugClose, RaiseFlag, PhoneRem, Close, status, hist
  <2>6. CASE DiskAdd \/ EnterDisk \/ DiskRem \/ GiveUp \/ SwitchDisk
    BY <2>6 DEF DiskAdd, EnterDisk, DiskRem, RemoveEntry, GiveUp, SwitchDisk, status, hist
  <2> QED  BY <2>1, <2>2, <2>3, <2>4, <2>5, <2>6, WhoChangesStatus
<1>3. UsbOK' /\ (main.handle' = main.handle => main.handle \in Handles')
  <2> USE <1>0 DEF UsbOK, MainOK
  <2>1. CASE OpenPhone
    <3>1. opened' = Append(opened, phone) /\ phone \in 1..MaxEvents
      BY <2>1, BoundsArePos DEF OpenPhone, BusOK
    <3>2. opened' \in Seq(1..MaxEvents) /\ Len(opened') = Len(opened) + 1
      BY <3>1
    <3>3. Handles \subseteq Handles'
      BY <3>2 DEF Handles
    <3>4. UNCHANGED <<osPriv, state, dev, closed>>
      BY <2>1 DEF OpenPhone
    <3> QED  BY <3>2, <3>3, <3>4
  <2>2. CASE ~OpenPhone
    <3>1. opened' = opened /\ Handles' = Handles
      BY <2>2, WhoChangesUsb
      DEF usb, Detect, Forget, StoreHandle, FillInfo, ConnectPhone, DialogDone, MainClose,
          MainClear, PlugClose, PlugClear, Clear, Handles
    <3>2. 0 \in Handles
      BY DEF Handles
    <3>3. closed' \subseteq Handles \ {0}
      BY <2>2, WhoChangesUsb
      DEF usb, Detect, Forget, StoreHandle, FillInfo, ConnectPhone, DialogDone, MainClose,
          MainClear, PlugClose, PlugClear, Clear, Close
    <3>4. osPriv' \in Handles /\ dev' \in Handles /\ state' \in {"init", "connecting", "connected"}
      BY <2>2, <3>2, WhoChangesUsb
      DEF usb, Detect, Forget, StoreHandle, FillInfo, ConnectPhone, DialogDone, MainClose,
          MainClear, PlugClose, PlugClear, Clear, Close
    <3> QED  BY <3>1, <3>3, <3>4
  <2> QED  BY <2>1, <2>2
<1>4. MainOK'
  <2> USE <1>0, <1>3 DEF MainOK, MainPcs, Goto
  <2>1. CASE UNCHANGED main
    <3>1. main.handle \in Handles'
      BY <2>1
    <3> QED  BY <2>1, <3>1
  <2>2. CASE OpenPhone
    <3>1. Len(opened') \in Handles'
      BY <2>2 DEF UsbOK, Handles
    <3> QED  BY <2>2, <3>1 DEF OpenPhone
  <2>3. CASE FillInfo
    <3>1. 0 \in Handles'
      BY DEF UsbOK, Handles
    <3> QED  BY <2>3, <3>1 DEF FillInfo
  <2>4. CASE Tell
    <3>1. action \in Actions
      BY DEF StatusOK
    <3> QED  BY <2>4, <3>1 DEF Tell
  <2>5. CASE Told
    BY <2>5 DEF Told, Actions
  <2>6. CASE \/ MainLoop \/ Detect \/ Forget \/ StoreHandle \/ ConnectPhone
             \/ Disconnected \/ DropFlag \/ MainClose \/ MainClear \/ ResetAction \/ CountUp
             \/ OpenFails \/ DialogDone \/ DialogFails \/ Receive \/ Answer
    <3>1. \E x \in MainPcs : main' = [main EXCEPT !.pc = x]
      BY <2>6
      DEF MainLoop, Detect, Forget, StoreHandle, ConnectPhone, Disconnected, DropFlag, MainClose,
          MainClear, ResetAction, CountUp, OpenFails, DialogDone, DialogFails, Receive, Answer
    <3> QED  BY <3>1
  <2> QED  BY <2>1, <2>2, <2>3, <2>4, <2>5, <2>6, WhoChangesMain DEF MainGoesOn
<1>5. PlugOK'
  <2> USE <1>0, BoundsArePos DEF PlugOK, PlugPcs, PlugGoto
  <2>1. CASE UNCHANGED plug
    BY <2>1
  <2>2. CASE Sample
    <3>1. count \in 0..MaxCount-1 /\ CountTime \in 0..CountTime
      BY DEF StatusOK
    <3> QED  BY <2>2, <3>1 DEF Sample
  <2>3. CASE Wait
    <3>1. plug.polls > 0 => plug.polls - 1 \in 0..CountTime
      OBVIOUS
    <3> QED  BY <2>3, <3>1 DEF Wait
  <2>4. CASE GiveUp \/ Notify
    BY <2>4 DEF GiveUp, Notify, StatusOK, Actions
  <2>5. CASE \/ ScanDisks \/ BindSocket \/ PhoneAdd \/ PlugClose \/ PlugClear \/ RaiseFlag
             \/ PhoneRem \/ DiskAdd \/ DiskAddIgnored \/ EnterDisk \/ DiskRem \/ DiskRemIgnored
    <3>1. plug' = plug \/ \E x \in PlugPcs : plug' = [plug EXCEPT !.pc = x]
      BY <2>5
      DEF ScanDisks, BindSocket, PhoneAdd, PlugClose, PlugClear, RaiseFlag,
          PhoneRem, DiskAdd, DiskAddIgnored, EnterDisk, DiskRem, RemoveEntry, DiskRemIgnored
    <3> QED  BY <3>1
  <2> QED  BY <2>1, <2>2, <2>3, <2>4, <2>5, WhoChangesPlug DEF PlugGoesOn
<1> QED
  BY <1>1, <1>2, <1>3, <1>4, <1>5
  DEF TypeInv, TypeOK, BusOK, StatusOK, UsbOK, MainOK, PlugOK, MainPcs, PlugPcs

(* Every variable of the two threads keeps its type. *)
THEOREM TypeCorrect == Spec => []TypeOK
<1>1. TypeInv => TypeOK
  BY DEF TypeInv
<1> QED  BY <1>1, TypeInit, TypeNext, PTL DEF Spec

-----------------------------------------------------------------------------
(* The places where main or the plug thread may be after a step. *)
LEMMA EventNext == TypeInv /\ EventInv /\ [Next]_vars => EventInv'
<1> SUFFICES ASSUME TypeInv, EventInv, [Next]_vars PROVE EventInv'
  OBVIOUS
<1>0. MainOK /\ PlugOK
  BY TypeParts
<1> USE <1>0 DEF MainOK, PlugOK, EventInv, AtDisk, PlugAt, At
<1>1. CASE UNCHANGED <<status, table, alive, hist>> /\ UNCHANGED <<main, plug>>
  BY <1>1 DEF status, hist
<1>2. CASE Tell
  BY <1>2 DEF Tell, status, hist
<1>3. CASE Told
  BY <1>3 DEF Told, NotifyPlug, status
<1>4. CASE ResetAction
  BY <1>4 DEF ResetAction, Goto, hist
<1>5. CASE MainGoesOn /\ ~Tell /\ ~ResetAction
  <2>1. /\ UNCHANGED <<action, due, slow, plug>>
        /\ \E x \in MainPcs \ {"told", "reset"} : main'.pc = x
    BY <1>5
    DEF MainGoesOn, MainLoop, Detect, Forget, StoreHandle, FillInfo, ConnectPhone,
        Disconnected, DropFlag, MainClose, MainClear, CountUp, MainPcs, Goto, status, hist
  <2> QED  BY <2>1
<1>6. CASE \/ OpenPhone \/ OpenFails \/ DialogDone \/ DialogFails \/ Receive \/ Answer
  <2>1. /\ UNCHANGED <<action, due, slow, plug>>
        /\ \E x \in MainPcs \ {"told", "reset"} : main'.pc = x
    BY <1>6
    DEF OpenPhone, OpenFails, DialogDone, DialogFails, Receive, Answer, MainPcs, Goto, status, hist
  <2> QED  BY <2>1
<1>7. CASE ScanDisks \/ BindSocket \/ PhoneAdd \/ PlugClose \/ PlugClear \/ RaiseFlag
             \/ PhoneRem \/ DiskAddIgnored \/ DiskRemIgnored
  <2>1. /\ UNCHANGED <<action, due, slow, main>> /\ ~AtDisk /\ plug.pc # "notify"
        /\ plug'.pc \in PlugPcs \ {"enter", "sample", "wait", "notify"}
    BY <1>7
    DEF ScanDisks, BindSocket, PhoneAdd, PlugClose, PlugClear, RaiseFlag, PhoneRem, Take,
        DiskAddIgnored, DiskRemIgnored, PlugPcs, PlugGoto, status, hist
  <2> QED  BY <2>1
<1>8. CASE DiskAdd \/ DiskRem
  <2>1. /\ UNCHANGED <<slow, main>> /\ plug.pc = "poll" /\ plug'.pc \in {"enter", "sample"}
        /\ action' = due' /\ action' # "none"
    BY <1>8 DEF DiskAdd, DiskRem, RemoveEntry, Take, PlugGoto
  <2> QED  BY <2>1
<1>9. CASE EnterDisk \/ Sample
  <2>1. UNCHANGED <<action, due, slow, main>> /\ AtDisk /\ plug'.pc \in {"sample", "wait"}
    BY <1>9 DEF EnterDisk, Sample, PlugGoto, status, hist
  <2> QED  BY <2>1
<1>10. CASE Wait
  <2>1. UNCHANGED <<action, due, slow, main>> /\ plug.pc = "wait"
        /\ (plug'.pc = "wait" \/ (plug'.pc = "poll" /\ action = "none"))
    <3>1. plug' = [plug EXCEPT !.pc = "poll"] \/ plug' = [plug EXCEPT !.polls = @ - 1]
      BY <1>10 DEF Wait
    <3>2. plug'.pc = "wait" \/ (plug'.pc = "poll" /\ action = "none")
      BY <1>10 DEF Wait, MainTold
    <3> QED  BY <1>10, <3>2 DEF Wait, status, hist
  <2> QED  BY <2>1
<1>11. CASE GiveUp
  BY <1>11 DEF GiveUp
<1>12. CASE Notify
  BY <1>12 DEF Notify, NotifyPlug, status
<1>13. CASE Crash \/ PlugPhone \/ UnplugPhone \/ SwitchDisk \/ Echo
  <2>1. UNCHANGED <<action, due, slow, main, plug>>
    BY <1>13 DEF Crash, PlugPhone, UnplugPhone, SwitchDisk, Echo, status, hist
  <2> QED  BY <2>1
<1> QED
  BY <1>1, <1>2, <1>3, <1>4, <1>5, <1>6, <1>7, <1>8, <1>9, <1>10, <1>11, <1>12, <1>13
  DEF Next, PlugGoesOn, vars

-----------------------------------------------------------------------------
(* A queue of events: taking the first one, adding one of the kind E or    *)
(* another.                                                                *)
LEMMA QueueTail ==
  ASSUME NEW S, NEW s \in Seq(S), s # <<>>, NEW E, NEW Ok, LastIsIn(s, E, Ok)
  PROVE  /\ LastIsIn(Tail(s), E, Ok)
         /\ Head(s) \notin E /\ ~Has(Tail(s), E) => ~Has(s, E)
         /\ Head(s) \in E /\ ~Has(Tail(s), E) => Head(s) \in Ok
<1> DEFINE t == Tail(s)
<1>1. /\ Len(t) \in Nat /\ Len(s) = Len(t) + 1 /\ Head(s) = s[1]
      /\ \A i \in 1..Len(t) : t[i] = s[i + 1]
  OBVIOUS
<1> HIDE DEF t
<1>2. \A i \in 1..Len(s) : i # 1 => i - 1 \in 1..Len(t) /\ t[i - 1] = s[i]
  <2> SUFFICES ASSUME NEW i \in 1..Len(s), i # 1
               PROVE  i - 1 \in 1..Len(t) /\ t[i - 1] = s[i]
    OBVIOUS
  <2>1. i - 1 \in 1..Len(t) /\ (i - 1) + 1 = i
    BY <1>1
  <2> QED  BY <1>1, <2>1
<1>3. LastIsIn(t, E, Ok)
  <2> SUFFICES ASSUME NEW i \in 1..Len(t), t[i] \in E,
                      \A j \in 1..Len(t) : j > i => t[j] \notin E
               PROVE  t[i] \in Ok
    BY DEF LastIsIn
  <2>1. i + 1 \in 1..Len(s) /\ s[i + 1] = t[i]
    BY <1>1
  <2>2. ASSUME NEW j \in 1..Len(s), j > i + 1 PROVE s[j] \notin E
    <3>1. j - 1 \in 1..Len(t) /\ j - 1 > i /\ t[j - 1] = s[j]
      BY <1>2, <2>2
    <3> QED  BY <3>1
  <2> QED  BY <2>1, <2>2 DEF LastIsIn
<1>4. Head(s) \notin E /\ ~Has(t, E) => ~Has(s, E)
  BY <1>1, <1>2 DEF Has
<1>5. Head(s) \in E /\ ~Has(t, E) => Head(s) \in Ok
  <2>1. ~Has(t, E) => \A j \in 1..Len(s) : j > 1 => s[j] \notin E
    BY <1>2 DEF Has
  <2>2. 1 \in 1..Len(s)
    BY <1>1
  <2> QED  BY <1>1, <2>1, <2>2 DEF LastIsIn
<1> QED  BY <1>3, <1>4, <1>5 DEF t

LEMMA QueueAppend ==
  ASSUME NEW S, NEW s \in Seq(S), NEW E, NEW Ok, NEW e \in S
  PROVE  /\ e \in E => Has(Append(s, e), E) /\ (e \in Ok => LastIsIn(Append(s, e), E, Ok))
         /\ e \notin E /\ LastIsIn(s, E, Ok) => LastIsIn(Append(s, e), E, Ok)
         /\ e \notin E /\ ~Has(Append(s, e), E) => ~Has(s, E)
         /\ e \notin E /\ ~Has(s, E) => ~Has(Append(s, e), E)
<1> DEFINE t == Append(s, e)
<1>1. /\ Len(s) \in Nat /\ Len(t) = Len(s) + 1 /\ t[Len(t)] = e
      /\ \A i \in 1..Len(s) : t[i] = s[i]
  OBVIOUS
<1> HIDE DEF t
<1>2. \A i \in 1..Len(t) : (i \in 1..Len(s)) \/ (i = Len(t) /\ t[i] = e)
  BY <1>1
<1>3. 1..Len(s) \subseteq 1..Len(t) /\ Len(t) \in 1..Len(t)
  BY <1>1
<1>4. e \in E => Has(t, E)
  BY <1>1, <1>3 DEF Has
<1>5. e \in E /\ e \in Ok => LastIsIn(t, E, Ok)
  <2> SUFFICES ASSUME e \in E, e \in Ok, NEW i \in 1..Len(t),
                      \A j \in 1..Len(t) : j > i => t[j] \notin E
               PROVE  t[i] \in Ok
    BY DEF LastIsIn
  <2>1. ~(Len(t) > i)
    BY <1>1, <1>3
  <2> QED  BY <1>1, <1>2, <2>1
<1>6. e \notin E /\ LastIsIn(s, E, Ok) => LastIsIn(t, E, Ok)
  <2> SUFFICES ASSUME e \notin E, LastIsIn(s, E, Ok), NEW i \in 1..Len(t), t[i] \in E,
                      \A j \in 1..Len(t) : j > i => t[j] \notin E
               PROVE  t[i] \in Ok
    BY DEF LastIsIn
  <2>1. i \in 1..Len(s) /\ t[i] = s[i]
    BY <1>1, <1>2
  <2>2. \A j \in 1..Len(s) : j > i => s[j] \notin E
    BY <1>1, <1>3
  <2> QED  BY <2>1, <2>2 DEF LastIsIn
<1>7. e \notin E => (Has(t, E) <=> Has(s, E))
  BY <1>1, <1>2, <1>3 DEF Has
<1> QED  BY <1>4, <1>5, <1>6, <1>7 DEF t

-----------------------------------------------------------------------------
LEMMA DiskNext == TypeInv /\ DiskInv /\ [Next]_vars => DiskInv'
<1> SUFFICES ASSUME TypeInv, DiskInv, [Next]_vars PROVE DiskInv'
  OBVIOUS
<1> DEFINE Ev == {"phoneAdd", "phoneRem", "diskAdd", "diskRem", "diskChange"}
<1>0. MainOK /\ PlugOK /\ uevents \in Seq(Ev)
  BY TypeParts DEF BusOK
<1> HIDE DEF Ev
<1> USE <1>0 DEF PlugOK, DiskInv
<1>1. CASE UNCHANGED <<uevents, echo, disk, table, unseen, plug>>
  BY <1>1 DEF DiskNow
<1>2. CASE PlugClose \/ PlugClear \/ RaiseFlag \/ Sample \/ Wait \/ GiveUp \/ Notify
  <2>1. /\ UNCHANGED <<uevents, disk, table, unseen>> /\ plug.pc \notin {"scan", "bind", "enter"}
        /\ plug'.pc \notin {"scan", "bind", "enter"}
    BY <1>2
    DEF PlugClose, PlugClear, RaiseFlag, Sample, Wait, GiveUp, Notify, PlugAt, PlugGoto, bus, hist
  <2> QED  BY <2>1 DEF DiskNow
<1>3. CASE ScanDisks
  <2>1. /\ UNCHANGED <<uevents, echo, disk, unseen>> /\ plug.pc = "scan" /\ plug'.pc = "bind"
        /\ table' \in IF disk THEN {"disk", "freed"} ELSE {"none"}
    BY <1>3 DEF ScanDisks, PlugAt, PlugGoto, bus, hist
  <2>2. disk \in BOOLEAN
    BY DEF TypeInv, TypeOK
  <2> QED  BY <2>1, <2>2 DEF DiskNow
<1>4. CASE BindSocket
  <2>1. UNCHANGED <<uevents, disk, table, unseen>> /\ plug.pc = "bind" /\ plug'.pc = "poll"
    BY <1>4 DEF BindSocket, PlugAt, PlugGoto, hist
  <2> QED  BY <2>1 DEF DiskNow
<1>5. CASE EnterDisk
  <2>1. /\ UNCHANGED <<uevents, disk, unseen>> /\ plug.pc = "enter" /\ plug'.pc = "sample"
        /\ table' = IF table # "none" THEN table ELSE IF disk THEN "disk" ELSE "freed"
    BY <1>5 DEF EnterDisk, PlugAt, PlugGoto, bus, hist
  <2>2. disk \in BOOLEAN /\ table \in {"none", "disk", "freed"}
    BY DEF TypeInv, TypeOK
  <2> QED  BY <2>1, <2>2 DEF DiskNow
<1>6. ASSUME NEW e, Take(e),
             PhoneAdd \/ PhoneRem \/ DiskAdd \/ DiskAddIgnored \/ DiskRem \/ DiskRemIgnored
      PROVE  DiskInv'
  <2>1. /\ plug.pc = "poll" /\ uevents # <<>> /\ Head(uevents) = e /\ uevents' = Tail(uevents)
    BY <1>6 DEF Take, PlugAt
  <2>2. /\ LastIsIn(uevents', DiskEvents, DiskNow)
        /\ e \notin DiskEvents /\ ~Has(uevents', DiskEvents) => ~Has(uevents, DiskEvents)
        /\ e \in DiskEvents /\ ~Has(uevents', DiskEvents) => e \in DiskNow
    BY <1>0, <2>1, QueueTail
  <2>3. UNCHANGED <<disk, unseen>> /\ disk \in BOOLEAN
    BY <1>6 DEF PhoneAdd, PhoneRem, DiskAdd, DiskAddIgnored, DiskRem, DiskRemIgnored, hist,
                TypeInv, TypeOK
  <2>4. LastIsIn(uevents', DiskEvents, DiskNow')
    BY <2>2, <2>3 DEF DiskNow
  <2>5. CASE e \in PhoneEvents
    <3>1. e \notin DiskEvents
      BY <2>5 DEF PhoneEvents, DiskEvents
    <3>2. table' = table /\ plug'.pc \in {"poll", "close"}
      BY <1>6, <2>1, <2>5 DEF PhoneEvents, PhoneAdd, PhoneRem, DiskAdd, DiskAddIgnored, DiskRem,
                              DiskRemIgnored, Take, PlugGoto
    <3> QED  BY <2>1, <2>2, <2>3, <2>4, <3>1, <3>2
  <2>6. CASE e \in DiskEvents /\ DiskAdd
    <3>1. disk /\ plug'.pc = "enter"
      BY <2>6 DEF DiskAdd, PlugGoto
    <3> QED  BY <2>3, <2>4, <3>1
  <2>7. CASE e \in DiskEvents /\ DiskAddIgnored
    <3>1. ~disk /\ e = "diskAdd" /\ plug' = plug
      BY <2>1, <2>7 DEF DiskAddIgnored, Take
    <3>2. Has(uevents', DiskEvents)
      BY <2>2, <2>7, <3>1 DEF DiskNow
    <3> QED  BY <2>1, <2>3, <2>4, <3>1, <3>2
  <2>8. CASE e \in DiskEvents /\ (DiskRem \/ DiskRemIgnored)
    <3>1. e = "diskRem" \/ (e = "diskChange" /\ ~disk)
      BY <2>1, <2>8 DEF DiskRem, DiskRemIgnored, Take
    <3>2. ~Has(uevents', DiskEvents) => ~disk
      BY <2>2, <2>8, <3>1 DEF DiskNow
    <3>3. table' # "disk" /\ plug'.pc \in {"poll", "sample"}
      BY <2>1, <2>8 DEF DiskRem, RemoveEntry, DiskRemIgnored, PlugGoto
    <3> QED  BY <2>3, <2>4, <3>2, <3>3
  <2> QED
    BY <1>6, <2>1, <2>5, <2>6, <2>7, <2>8
    DEF PhoneEvents, DiskEvents, PhoneAdd, PhoneRem, DiskAdd, DiskAddIgnored, DiskRem,
        DiskRemIgnored, Take
<1>7. CASE PlugPhone \/ UnplugPhone
  <2>1. /\ UNCHANGED <<disk, table, unseen, plug, echo>>
        /\ Event("phoneAdd") \/ Event("phoneRem")
    BY <1>7 DEF PlugPhone, UnplugPhone, Event, hist
  <2>2. CASE Bound
    <3>1. PICK e \in {"phoneAdd", "phoneRem"} : uevents' = Append(uevents, e)
      BY <2>1, <2>2 DEF Event
    <3>2. e \in Ev /\ e \notin DiskEvents
      BY DEF Ev, DiskEvents
    <3>3. LastIsIn(uevents', DiskEvents, DiskNow)
          /\ (~Has(uevents', DiskEvents) => ~Has(uevents, DiskEvents))
      BY <1>0, <3>1, <3>2, QueueAppend
    <3> QED  BY <2>1, <2>2, <3>3 DEF DiskNow, Bound
  <2>3. CASE ~Bound
    <3>1. uevents' = uevents
      BY <2>1, <2>3 DEF Event
    <3> QED  BY <2>1, <3>1 DEF DiskNow
  <2> QED  BY <2>2, <2>3
<1>8. CASE SwitchDisk
  <2>1. /\ UNCHANGED <<table, plug, echo>> /\ disk' = ~disk /\ disk \in BOOLEAN
        /\ unseen' = (unseen \/ plug.pc = "bind")
    BY <1>8 DEF SwitchDisk, Event, TypeInv, TypeOK
  <2>2. PICK e \in DiskEvents : Event(e) /\ e \in DiskNow'
    BY <1>8, <2>1 DEF SwitchDisk, DiskEvents, DiskNow
  <2>3. CASE Bound
    <3>1. uevents' = Append(uevents, e)
      BY <2>2, <2>3 DEF Event
    <3>2. e \in Ev
      BY <2>2 DEF Ev, DiskEvents
    <3>3. LastIsIn(uevents', DiskEvents, DiskNow') /\ Has(uevents', DiskEvents)
      BY <1>0, <2>2, <3>1, <3>2, QueueAppend
    <3> QED  BY <2>1, <2>3, <3>3 DEF Bound
  <2>4. CASE ~Bound
    <3>1. uevents' = <<>> /\ plug.pc \in {"scan", "bind"} /\ ~echo
      BY <2>2, <2>4 DEF Event, Bound
    <3>2. LastIsIn(uevents', DiskEvents, DiskNow')
      BY <3>1 DEF LastIsIn
    <3> QED  BY <2>1, <3>1, <3>2
  <2> QED  BY <2>3, <2>4
<1>9. CASE Echo
  <2>1. UNCHANGED <<disk, table, unseen, plug>> /\ plug.pc \notin {"scan", "bind"}
        /\ (uevents' = uevents \/ uevents' = Append(uevents, "phoneAdd"))
    BY <1>9 DEF Echo, hist
  <2>2. "phoneAdd" \in Ev /\ "phoneAdd" \notin DiskEvents
    BY DEF Ev, DiskEvents
  <2>3. LastIsIn(uevents', DiskEvents, DiskNow)
        /\ (~Has(uevents', DiskEvents) => ~Has(uevents, DiskEvents))
    <3>1. CASE uevents' = uevents
      BY <3>1
    <3>2. CASE uevents' = Append(uevents, "phoneAdd")
      BY <1>0, <2>2, <3>2, QueueAppend
    <3> QED  BY <2>1, <3>1, <3>2
  <2> QED  BY <2>1, <2>3 DEF DiskNow
<1>10. CASE UNCHANGED bus /\ UNCHANGED <<status, table, alive, hist>> /\ UNCHANGED plug
  BY <1>1, <1>10 DEF bus, hist
<1>11. CASE \/ Detect \/ DropFlag \/ MainClose \/ Told \/ ResetAction \/ CountUp \/ Crash
  <2>1. UNCHANGED <<uevents, echo, disk, table, unseen, plug>>
    BY <1>11 DEF Detect, DropFlag, MainClose, Told, ResetAction, CountUp, Crash, bus, hist
  <2> QED  BY <1>1, <2>1
<1>12. CASE PhoneAdd \/ PhoneRem \/ DiskAdd \/ DiskAddIgnored \/ DiskRem \/ DiskRemIgnored
  <2>1. \E e : Take(e)
    BY <1>12 DEF PhoneAdd, PhoneRem, DiskAdd, DiskAddIgnored, DiskRem, DiskRemIgnored
  <2> QED  BY <1>6, <1>12, <2>1
<1> QED
  BY <1>2, <1>3, <1>4, <1>5, <1>7, <1>8, <1>9, <1>10, <1>11, <1>12,
     WhoChangesBus, WhoChangesStatus, WhoChangesPlug DEF PlugGoesOn

-----------------------------------------------------------------------------
LEMMA HandleNext == TypeInv /\ HandleInv /\ [Next]_vars => HandleInv'
<1> SUFFICES ASSUME TypeInv, HandleInv, [Next]_vars PROVE HandleInv'
  OBVIOUS
<1>0. MainOK /\ PlugOK /\ crossed \in BOOLEAN
      /\ Len(opened) \in Nat /\ closed \subseteq 1..Len(opened)
      /\ state \in {"init", "connecting", "connected"}
      /\ osPriv \in 0..Len(opened) /\ dev \in 0..Len(opened) /\ main.handle \in 0..Len(opened)
  BY TypeParts DEF UsbOK, StatusOK, MainOK, Handles
<1> USE <1>0 DEF MainOK, PlugOK, HandleInv, InUse, Idle, At, PlugAt, Goto, PlugGoto
<1>1. CASE UNCHANGED <<flag, usb, main, crossed, plug>>
  BY <1>1 DEF usb
<1>2. CASE MainLoop
  BY <1>2 DEF MainLoop, usb, status, hist
<1>3. CASE Detect
  <2>1. UNCHANGED <<flag, osPriv, state, dev, opened, plug, crossed>> /\ main.pc = "detect"
        /\ main'.handle = main.handle
    BY <1>3 DEF Detect, status, hist
  <2>2. CASE state # "init"
    <3>1. main'.pc = "connect" /\ closed' = closed
      BY <1>3, <2>2 DEF Detect
    <3> QED  BY <2>1, <2>2, <3>1
  <2>3. CASE state = "init"
    <3>1. main'.pc = "forget" /\ closed' = closed \cup ({osPriv} \ {0})
      BY <1>3, <2>3 DEF Detect, Close
    <3>2. main.handle = 0
      BY <2>1
    <3> QED  BY <2>1, <2>3, <3>1, <3>2
  <2> QED  BY <2>2, <2>3
<1>4. CASE Forget
  BY <1>4 DEF Forget, status, hist
<1>5. CASE OpenPhone
  <2>1. /\ opened' = Append(opened, phone) /\ main'.pc = "store" /\ main'.handle = Len(opened')
        /\ UNCHANGED <<flag, osPriv, state, dev, closed, plug, crossed>> /\ main.pc = "open"
    BY <1>5 DEF OpenPhone, status, hist
  <2>2. Len(opened') = Len(opened) + 1
    BY <2>1 DEF TypeInv, TypeOK
  <2> QED  BY <2>1, <2>2
<1>6. CASE OpenFails \/ DialogFails \/ Receive \/ Answer
  BY <1>6 DEF OpenFails, DialogFails, Receive, Answer, usb, status, hist
<1>7. CASE StoreHandle
  BY <1>7 DEF StoreHandle, status, hist
<1>8. CASE FillInfo
  BY <1>8 DEF FillInfo, status, hist
<1>9. CASE ConnectPhone \/ DialogDone
  BY <1>9 DEF ConnectPhone, DialogDone, status, hist
<1>10. CASE Disconnected \/ DropFlag
  BY <1>10 DEF Disconnected, DropFlag, usb, status, hist
<1>11. CASE MainClose
  <2>1. /\ UNCHANGED <<flag, osPriv, state, dev, opened, plug>> /\ main.pc = "close"
        /\ main'.handle = main.handle /\ main'.pc = "clear"
        /\ closed' = closed \cup ({osPriv} \ {0})
        /\ crossed' = (crossed \/ plug.pc = "notify")
    BY <1>11 DEF MainClose, Close, status
  <2>2. main.handle = 0 /\ plug.pc \notin {"scan", "bind"}
    BY <2>1
  <2>3. CASE crossed'
    BY <2>1, <2>2, <2>3
  <2>4. CASE ~crossed'
    <3>1. ~crossed /\ plug.pc \notin {"clear", "raise", "notify"}
      BY <2>1, <2>4
    <3>2. state # "init" /\ dev = osPriv /\ osPriv # 0
      BY <2>1, <3>1
    <3>3. osPriv \in closed' /\ closed \subseteq closed' /\ 0 \notin closed'
      BY <2>1, <3>2
    <3> QED  BY <2>1, <2>2, <3>1, <3>2, <3>3
  <2> QED  BY <2>3, <2>4
<1>12. CASE MainClear
  BY <1>12 DEF MainClear, Clear, status, hist
<1>13. CASE Tell \/ ResetAction \/ CountUp
  <2>1. UNCHANGED <<flag, usb, plug, crossed>> /\ main'.handle = main.handle
        /\ ((main.pc = "tell" /\ main'.pc \in {"told", "count"})
            \/ (main.pc \in {"reset", "count"} /\ main'.pc \in {"count", "loop"}))
    <3>1. CASE Tell
      BY <3>1 DEF Tell, usb, status, hist
    <3>2. CASE ResetAction \/ CountUp
      BY <3>2 DEF ResetAction, CountUp, usb, status, hist
    <3> QED  BY <1>13, <3>1, <3>2
  <2> QED  BY <2>1 DEF usb
<1>14. CASE Told
  BY <1>14 DEF Told, usb, status
<1>15. CASE ScanDisks \/ BindSocket
  BY <1>15 DEF ScanDisks, BindSocket, usb, status, hist
<1>16. CASE PhoneAdd \/ PhoneRem
  BY <1>16 DEF PhoneAdd, PhoneRem, Take, usb, hist
<1>17. CASE PlugClose
  BY <1>17 DEF PlugClose, Close, status
<1>18. CASE PlugClear
  BY <1>18 DEF PlugClear, Clear, status, hist
<1>19. CASE RaiseFlag
  BY <1>19 DEF RaiseFlag, usb, hist
<1>20. CASE DiskAdd \/ DiskAddIgnored \/ DiskRem \/ DiskRemIgnored \/ EnterDisk
  <2>1. UNCHANGED <<flag, usb, main, crossed>> /\ plug.pc \in {"poll", "enter"}
        /\ plug'.pc \in {"poll", "enter", "sample"}
    BY <1>20
    DEF DiskAdd, DiskAddIgnored, DiskRem, RemoveEntry, DiskRemIgnored, EnterDisk, Take, status, hist
  <2> QED  BY <2>1 DEF usb
<1>21. CASE Sample \/ Wait \/ Notify
  <2>1. UNCHANGED <<flag, usb, main, crossed>> /\ plug.pc \in {"sample", "wait", "notify"}
        /\ plug'.pc \in {"wait", "poll"}
    <3>1. CASE Wait
      <4>1. plug' = [plug EXCEPT !.pc = "poll"] \/ plug' = [plug EXCEPT !.polls = @ - 1]
        BY <3>1 DEF Wait
      <4> QED  BY <3>1, <4>1 DEF Wait, status, hist
    <3> QED  BY <1>21, <3>1 DEF Sample, Notify, status, hist
  <2> QED  BY <2>1 DEF usb
<1>22. CASE GiveUp
  BY <1>22 DEF GiveUp, usb
<1>23. CASE Crash \/ PlugPhone \/ UnplugPhone \/ SwitchDisk \/ Echo
  <2>1. UNCHANGED <<flag, usb, main, crossed, plug>>
    BY <1>23 DEF Crash, PlugPhone, UnplugPhone, SwitchDisk, Echo, status, hist
  <2> QED  BY <1>1, <2>1
<1>24. CASE UNCHANGED vars
  BY <1>1, <1>24 DEF vars, status, hist
<1> QED
  BY <1>2, <1>3, <1>4, <1>5, <1>6, <1>7, <1>8, <1>9, <1>10, <1>11, <1>12, <1>13, <1>14, <1>15,
     <1>16, <1>17, <1>18, <1>19, <1>20, <1>21, <1>22, <1>23, <1>24
  DEF Next, MainGoesOn, PlugGoesOn
-----------------------------------------------------------------------------
LEMMA PhoneNext == TypeInv /\ DiskInv /\ HandleInv /\ PhoneInv /\ [Next]_vars => PhoneInv'
<1> SUFFICES ASSUME TypeInv, DiskInv, HandleInv, PhoneInv, [Next]_vars PROVE PhoneInv'
  OBVIOUS
<1> DEFINE Ev == {"phoneAdd", "phoneRem", "diskAdd", "diskRem", "diskChange"}
           Known == {osPriv, dev, main.handle, 0}
<1>0. MainOK /\ PlugOK /\ crossed \in BOOLEAN /\ echo \in BOOLEAN /\ flag \in {0, 1}
      /\ Len(opened) \in Nat /\ phone \in Nat /\ uevents \in Seq(Ev)
      /\ osPriv \in 0..Len(opened) /\ dev \in 0..Len(opened) /\ main.handle \in 0..Len(opened)
  BY BoundsArePos, TypeParts DEF UsbOK, StatusOK, BusOK, MainOK, Handles
<1> HIDE DEF Ev
<1> USE <1>0 DEF MainOK, PlugOK, PhoneInv, Raising
(* Steps that add no handle and leave the phone, its events and its flag. *)
<1>1. ASSUME UNCHANGED <<uevents, phone, echo, flag, opened>>, crossed => crossed',
             osPriv' \in Known, dev' \in Known, main'.handle \in Known,
             main'.pc = "drop" <=> main.pc = "drop", Raising' <=> Raising,
             plug'.pc \in {"scan", "bind"} <=> plug.pc \in {"scan", "bind"}
      PROVE  PhoneInv'
  <2>1. PhoneNow' = PhoneNow
    BY <1>1 DEF PhoneNow
  <2>2. \A h \in {osPriv', dev', main'.handle} \ {0} : h \in {osPriv, dev, main.handle} \ {0}
    BY <1>1
  <2>3. LastIsIn(uevents', PhoneEvents, PhoneNow') /\ (Has(uevents', PhoneEvents) <=> Has(uevents, PhoneEvents))
    BY <1>1, <2>1
  <2>4. CASE Has(uevents', PhoneEvents) \/ Raising' \/ crossed'
    BY <1>1, <2>3, <2>4
  <2>5. CASE ~Has(uevents', PhoneEvents) /\ ~Raising' /\ ~crossed'
    <3>1. ~Has(uevents, PhoneEvents) /\ ~Raising /\ ~crossed
      BY <1>1, <2>3, <2>5
    <3>2. phone' # 0 => \A h \in {osPriv', dev', main'.handle} \ {0} : opened'[h] = phone'
      BY <1>1, <2>2, <3>1
    <3> QED  BY <1>1, <2>3, <2>5, <3>1, <3>2
  <2> QED  BY <2>4, <2>5
<1>2. CASE \/ MainLoop \/ OpenFails \/ DialogFails \/ Receive \/ Answer \/ Tell \/ Told
           \/ ResetAction \/ CountUp \/ Crash \/ UNCHANGED vars
  <2>1. UNCHANGED <<uevents, phone, echo, flag, opened, crossed, osPriv, dev, plug>>
    BY <1>2 DEF MainLoop, OpenFails, DialogFails, Receive, Answer, Tell, Told, ResetAction, CountUp,
                Crash, vars, bus, usb, status, hist
  <2>2. (main'.handle = main.handle /\ main'.pc # "drop" /\ main.pc # "drop") \/ main' = main
    <3>1. CASE Tell
      BY <3>1 DEF Tell, At
    <3>2. CASE Told
      BY <3>2 DEF Told, At
    <3>3. CASE ~Tell /\ ~Told
      BY <1>2, <3>3 DEF MainLoop, OpenFails, DialogFails, Receive, Answer, ResetAction, CountUp, Crash,
                        vars, At, Goto
    <3> QED  BY <3>1, <3>2, <3>3
  <2> QED  BY <1>1, <2>1, <2>2
<1>3. CASE \/ Detect \/ Forget \/ StoreHandle \/ FillInfo \/ ConnectPhone \/ DialogDone
           \/ MainClose \/ MainClear
  <2>1. UNCHANGED <<uevents, phone, echo, flag, opened, plug>> /\ (crossed => crossed')
    BY <1>3 DEF Detect, Forget, StoreHandle, FillInfo, ConnectPhone, DialogDone, MainClose, MainClear,
                Clear, bus, status, hist
  <2>2. osPriv' \in Known /\ dev' \in Known
    BY <1>3 DEF Detect, Forget, StoreHandle, FillInfo, ConnectPhone, DialogDone, MainClose, MainClear, Clear
  <2>3. main'.handle \in Known /\ main'.pc # "drop" /\ main.pc # "drop"
    BY <1>3 DEF Detect, Forget, StoreHandle, FillInfo, ConnectPhone, DialogDone, MainClose, MainClear,
                At, Goto
  <2> QED  BY <1>1, <2>1, <2>2, <2>3
<1>4. CASE ScanDisks \/ PlugClose \/ PlugClear \/ EnterDisk \/ Sample \/ GiveUp \/ Notify
  <2>1. UNCHANGED <<uevents, phone, echo, flag, opened, main>> /\ (crossed => crossed')
    BY <1>4 DEF ScanDisks, PlugClose, PlugClear, EnterDisk, Sample, GiveUp, Notify, Clear,
                bus, status, usb, hist
  <2>2. osPriv' \in Known /\ dev' \in Known
    BY <1>4 DEF ScanDisks, PlugClose, PlugClear, EnterDisk, Sample, GiveUp, Notify, Clear, usb
  <2>3. /\ (Raising' <=> Raising)
        /\ (plug'.pc \in {"scan", "bind"} <=> plug.pc \in {"scan", "bind"})
    BY <1>4 DEF ScanDisks, PlugClose, PlugClear, EnterDisk, Sample, GiveUp, Notify, PlugAt, PlugGoto
  <2> QED  BY <1>1, <2>1, <2>2, <2>3
<1>5. CASE Wait
  <2>1. UNCHANGED <<uevents, phone, echo, flag, opened, main, osPriv, dev, crossed>>
    BY <1>5 DEF Wait, bus, status, usb, hist
  <2>2. plug' = [plug EXCEPT !.pc = "poll"] \/ plug' = [plug EXCEPT !.polls = @ - 1]
    BY <1>5 DEF Wait
  <2>3. plug.pc = "wait" /\ plug'.pc \in {"wait", "poll"}
    BY <1>5, <2>2 DEF Wait, PlugAt
  <2> QED  BY <1>1, <2>1, <2>3
(* The handle of the phone on the bus. *)
<1>6. CASE OpenPhone
  <2>1. /\ opened' = Append(opened, phone) /\ main'.pc = "store" /\ main'.handle = Len(opened')
        /\ UNCHANGED <<uevents, phone, echo, flag, osPriv, dev, plug, crossed>> /\ main.pc = "open"
    BY <1>6 DEF OpenPhone, At, bus, status, hist
  <2>2. /\ Len(opened') = Len(opened) + 1 /\ opened'[Len(opened')] = phone
        /\ \A h \in 1..Len(opened) : opened'[h] = opened[h]
    BY <2>1 DEF TypeInv, TypeOK
  <2>3. phone # 0 /\ (\A h \in {osPriv, dev} \ {0} : opened[h] = phone) =>
          \A h \in {osPriv', dev', main'.handle} \ {0} : opened'[h] = phone
    BY <2>1, <2>2
  <2>4. LastIsIn(uevents', PhoneEvents, PhoneNow')
    BY <2>1 DEF PhoneNow
  <2>5. ~Has(uevents', PhoneEvents) /\ Raising' => phone' # 0
    BY <2>1
  <2>6. ASSUME ~Has(uevents', PhoneEvents), ~Raising', ~crossed'
        PROVE  /\ phone' # 0 => \A h \in {osPriv', dev', main'.handle} \ {0} : opened'[h] = phone'
               /\ (flag' = 1) = (phone' # 0) \/ (flag' = 0 /\ (echo' \/ plug'.pc \in {"scan", "bind"}))
    BY <2>1, <2>3, <2>6
  <2> QED  BY <2>1, <2>4, <2>5, <2>6
(* A phone is dropped that went before its events were taken. *)
<1>7. CASE Disconnected
  <2>1. /\ UNCHANGED <<uevents, phone, echo, flag, opened, osPriv, dev, plug, crossed>>
        /\ main'.handle = main.handle /\ main.pc \in {"handle", "answer"} /\ main'.pc = "drop" /\ Gone
    BY <1>7 DEF Disconnected, At, Goto, bus, status, usb, hist
  <2>2. ASSUME ~Has(uevents, PhoneEvents), ~Raising, ~crossed PROVE phone = 0
    <3>1. dev # 0 /\ dev \notin closed
      BY <2>1, <2>2 DEF HandleInv, InUse
    <3>2. opened[dev] # phone
      BY <2>1, <3>1 DEF Gone, Usable
    <3> QED  BY <2>2, <3>1, <3>2
  <2> QED  BY <2>1, <2>2 DEF PhoneNow
<1>8. CASE DropFlag
  <2>1. /\ UNCHANGED <<uevents, phone, echo, opened, osPriv, dev, plug, crossed>> /\ flag' = 0
        /\ main'.handle = main.handle /\ main.pc = "drop" /\ main'.pc = "close"
    BY <1>8 DEF DropFlag, At, Goto, bus, usb, hist
  <2> QED  BY <2>1 DEF PhoneNow
<1>9. CASE BindSocket
  <2>1. /\ UNCHANGED <<uevents, phone, flag, opened, osPriv, dev, main, crossed>> /\ echo' = TRUE
        /\ plug.pc = "bind" /\ plug'.pc = "poll"
    BY <1>9 DEF BindSocket, PlugAt, PlugGoto, status, usb, hist
  <2>2. flag = 0
    BY <2>1 DEF HandleInv
  <2> QED  BY <2>1, <2>2 DEF PhoneNow
(* The flag goes up when no handle is left of the phone before. *)
<1>10. CASE RaiseFlag
  <2>1. /\ UNCHANGED <<uevents, phone, echo, opened, osPriv, dev, main, crossed>> /\ flag' = 1
        /\ plug.pc = "raise" /\ plug'.pc = "poll"
    BY <1>10 DEF RaiseFlag, PlugAt, PlugGoto, bus, usb, hist
  <2>2. ~crossed => main.pc # "drop" /\ osPriv = 0 /\ dev = 0 /\ main.handle = 0
    BY <2>1 DEF HandleInv, Idle
  <2>3. LastIsIn(uevents', PhoneEvents, PhoneNow')
    BY <2>1 DEF PhoneNow
  <2> QED  BY <2>1, <2>2, <2>3
(* The first event of the socket. *)
<1>11. ASSUME NEW e, Take(e), PhoneAdd \/ PhoneRem \/ DiskAdd \/ DiskAddIgnored \/ DiskRem \/ DiskRemIgnored
       PROVE  PhoneInv'
  <2>1. plug.pc = "poll" /\ uevents # <<>> /\ Head(uevents) = e /\ uevents' = Tail(uevents)
    BY <1>11 DEF Take, PlugAt
  <2>2. /\ LastIsIn(uevents', PhoneEvents, PhoneNow)
        /\ e \notin PhoneEvents /\ ~Has(uevents', PhoneEvents) => ~Has(uevents, PhoneEvents)
        /\ e \in PhoneEvents /\ ~Has(uevents', PhoneEvents) => e \in PhoneNow
    BY <1>0, <2>1, QueueTail
  <2>3. UNCHANGED <<phone, echo, opened, osPriv, dev, main, crossed>>
    BY <1>11 DEF PhoneAdd, PhoneRem, DiskAdd, DiskAddIgnored, DiskRem, DiskRemIgnored, usb, hist
  <2>4. LastIsIn(uevents', PhoneEvents, PhoneNow')
    BY <2>2, <2>3 DEF PhoneNow
  <2>5. CASE PhoneAdd
    <3>1. e = "phoneAdd" /\ plug'.pc = "close"
      BY <2>1, <2>5 DEF PhoneAdd, Take, PlugGoto
    <3>2. ~Has(uevents', PhoneEvents) => phone # 0
      BY <2>2, <3>1 DEF PhoneEvents, PhoneNow
    <3> QED  BY <2>3, <2>4, <3>1, <3>2
  <2>6. CASE PhoneRem
    <3>1. e = "phoneRem" /\ plug' = plug /\ flag' = 0
      BY <2>1, <2>6 DEF PhoneRem, Take
    <3>2. ~Has(uevents', PhoneEvents) => phone = 0
      BY <2>2, <3>1 DEF PhoneEvents, PhoneNow
    <3> QED  BY <2>1, <2>3, <2>4, <3>1, <3>2
  <2>7. CASE DiskAdd \/ DiskAddIgnored \/ DiskRem \/ DiskRemIgnored
    <3>0. e \notin PhoneEvents
      BY <2>1, <2>7 DEF DiskAdd, DiskAddIgnored, DiskRem, DiskRemIgnored, Take, PhoneEvents
    <3>1. e \notin PhoneEvents /\ flag' = flag /\ plug'.pc \in {"poll", "enter", "sample"}
      <4>1. CASE DiskAdd
        BY <2>1, <3>0, <4>1 DEF DiskAdd, PlugGoto
      <4>2. CASE DiskRem
        BY <2>1, <3>0, <4>2 DEF DiskRem, RemoveEntry, PlugGoto
      <4>3. CASE DiskAddIgnored \/ DiskRemIgnored
        BY <2>1, <3>0, <4>3 DEF DiskAddIgnored, DiskRemIgnored, status
      <4> QED  BY <2>7, <4>1, <4>2, <4>3
    <3>2. CASE Has(uevents', PhoneEvents)
      BY <2>4, <3>2
    <3>3. CASE ~Has(uevents', PhoneEvents)
      <4>1. ~Has(uevents, PhoneEvents)
        BY <2>2, <3>1, <3>3
      <4> QED  BY <2>1, <2>3, <2>4, <3>1, <4>1
    <3> QED  BY <3>2, <3>3
  <2> QED  BY <1>11, <2>5, <2>6, <2>7
<1>12. CASE PhoneAdd \/ PhoneRem \/ DiskAdd \/ DiskAddIgnored \/ DiskRem \/ DiskRemIgnored
  <2>1. \E e : Take(e)
    BY <1>12 DEF PhoneAdd, PhoneRem, DiskAdd, DiskAddIgnored, DiskRem, DiskRemIgnored
  <2> QED  BY <1>11, <1>12, <2>1
(* The cables. *)
<1>13. CASE PlugPhone \/ UnplugPhone
  <2>1. UNCHANGED <<echo, flag, opened, osPriv, dev, main, crossed, plug>>
    BY <1>13 DEF PlugPhone, UnplugPhone, Event, status, usb, hist
  <2>2. PICK e \in PhoneEvents : Event(e) /\ e \in PhoneNow'
    <3>1. CASE PlugPhone
      <4>1. phone' # 0
        BY <3>1 DEF PlugPhone, Event, TypeInv, TypeOK
      <4> QED  BY <3>1, <4>1 DEF PlugPhone, PhoneEvents, PhoneNow
    <3>2. CASE UnplugPhone
      BY <3>2 DEF UnplugPhone, PhoneEvents, PhoneNow
    <3> QED  BY <1>13, <3>1, <3>2
  <2>3. CASE Bound
    <3>1. uevents' = Append(uevents, e)
      BY <2>2, <2>3 DEF Event
    <3>2. e \in Ev
      BY <2>2 DEF Ev, PhoneEvents
    <3>3. LastIsIn(uevents', PhoneEvents, PhoneNow') /\ Has(uevents', PhoneEvents)
      BY <1>0, <2>2, <3>1, <3>2, QueueAppend
    <3> QED  BY <3>3
  <2>4. CASE ~Bound
    <3>1. plug.pc \in {"scan", "bind"} /\ uevents' = <<>>
      BY <2>2, <2>4 DEF Event, Bound, DiskInv
    <3>2. opened = <<>> /\ main.pc = "loop" /\ flag = 0
      BY <3>1 DEF HandleInv
    <3>3. osPriv = 0 /\ dev = 0 /\ main.handle = 0
      BY <3>2
    <3>4. LastIsIn(uevents', PhoneEvents, PhoneNow')
      BY <3>1 DEF LastIsIn
    <3> QED  BY <2>1, <3>1, <3>2, <3>3, <3>4
  <2> QED  BY <2>3, <2>4
<1>14. CASE SwitchDisk
  <2>1. UNCHANGED <<phone, echo, flag, opened, osPriv, dev, main, crossed, plug>>
    BY <1>14 DEF SwitchDisk, Event, status, usb, hist
  <2>2. PICK e \in DiskEvents : Event(e)
    BY <1>14 DEF SwitchDisk, DiskEvents
  <2>3. e \in Ev /\ e \notin PhoneEvents /\ (uevents' = uevents \/ uevents' = Append(uevents, e))
    BY <2>2 DEF Ev, DiskEvents, PhoneEvents, Event
  <2>4. LastIsIn(uevents', PhoneEvents, PhoneNow)
        /\ (~Has(uevents', PhoneEvents) => ~Has(uevents, PhoneEvents))
    <3>1. CASE uevents' = Append(uevents, e)
      BY <1>0, <2>3, <3>1, QueueAppend
    <3> QED  BY <2>3, <3>1
  <2> QED  BY <2>1, <2>4 DEF PhoneNow
<1>15. CASE Echo
  <2>1. UNCHANGED <<phone, flag, opened, osPriv, dev, main, crossed, plug>> /\ echo /\ echo' = FALSE
        /\ plug.pc \notin {"scan", "bind"}
    BY <1>15 DEF Echo, DiskInv, status, usb, hist
  <2>2. CASE phone # 0
    <3>1. uevents' = Append(uevents, "phoneAdd")
      BY <1>15, <2>2 DEF Echo
    <3>2. "phoneAdd" \in Ev /\ "phoneAdd" \in PhoneEvents /\ "phoneAdd" \in PhoneNow'
      BY <2>1, <2>2 DEF Ev, PhoneEvents, PhoneNow
    <3>3. LastIsIn(uevents', PhoneEvents, PhoneNow') /\ Has(uevents', PhoneEvents)
      BY <1>0, <3>1, <3>2, QueueAppend
    <3> QED  BY <3>3
  <2>3. CASE phone = 0
    <3>1. uevents' = uevents
      BY <1>15, <2>3 DEF Echo
    <3> QED  BY <2>1, <2>3, <3>1 DEF PhoneNow
  <2> QED  BY <2>2, <2>3
<1> QED
  BY <1>2, <1>3, <1>4, <1>5, <1>6, <1>7, <1>8, <1>9, <1>10, <1>12, <1>13, <1>14, <1>15
  DEF Next, MainGoesOn, PlugGoesOn
-----------------------------------------------------------------------------
LEMMA AllInit == Init => IInv
<1> SUFFICES ASSUME Init PROVE IInv
  OBVIOUS
<1>1. TypeInv
  BY TypeInit
<1>2. EventInv
  BY DEF Init, EventInv, AtDisk
<1>3. \A E, Ok : LastIsIn(uevents, E, Ok)
  BY DEF Init, LastIsIn
<1>4. DiskInv
  BY <1>3 DEF Init, DiskInv
<1>5. HandleInv
  BY DEF Init, HandleInv, InUse, Idle
<1>6. PhoneInv
  BY <1>3 DEF Init, PhoneInv, Raising
<1> QED  BY <1>1, <1>2, <1>4, <1>5, <1>6 DEF IInv

LEMMA AllNext == IInv /\ [Next]_vars => IInv'
<1> SUFFICES ASSUME IInv, [Next]_vars PROVE IInv'
  OBVIOUS
<1>1. TypeInv' /\ DiskInv' /\ HandleInv' /\ PhoneInv'
  BY TypeNext, DiskNext, HandleNext, PhoneNext DEF IInv
<1>2. EventInv'
  BY EventNext DEF IInv
<1> QED  BY <1>1, <1>2 DEF IInv

LEMMA Inductive == Spec => []IInv
BY AllInit, AllNext, PTL DEF Spec

LEMMA EmptyHasNone == \A E : ~Has(<<>>, E)
BY DEF Has

(* When every event is handled and main is not dropping a phone, the flag  *)
(* main works by (usbPhoneStatus) says whether a phone is plugged, unless  *)
(* a thread used a handle the other closed. For any number of plugs.       *)
THEOREM FlagFollowsPlugAlways == Spec => []FlagFollowsPlug
<1>1. IInv => FlagFollowsPlug
  <2> SUFFICES ASSUME IInv, Quiet, main.pc # "drop", ~crossed
               PROVE  (flag = 1) = (phone # 0)
    BY DEF FlagFollowsPlug
  <2>1. ~Has(uevents, PhoneEvents) /\ ~Raising /\ plug.pc = "poll" /\ ~echo
    BY EmptyHasNone DEF Quiet, Raising
  <2> QED  BY <2>1 DEF IInv, PhoneInv
<1> QED  BY <1>1, Inductive, PTL

(* A thread that talks to the phone has a handle that is open, and a       *)
(* handle that is not closed is known to usb_phone or to main: without a   *)
(* lock on it, as long as neither thread closes what the other is using.   *)
THEOREM HandlesHaveOwnerAlways == Spec => []HandlesHaveOwner
<1>1. IInv => HandlesHaveOwner
  <2> SUFFICES ASSUME IInv, ~crossed
               PROVE  /\ main.pc \in {"dialog", "handle", "answer"} => Usable
                      /\ state = "connected" /\ (main.pc = "told" \/ plug.pc = "notify") => Usable
                      /\ (1..Len(opened)) \ closed \subseteq {osPriv, main.handle}
    BY DEF HandlesHaveOwner
  <2> USE DEF IInv, HandleInv, InUse, Usable
  <2>1. main.pc \in {"dialog", "handle", "answer", "told"} => Usable
    <3> SUFFICES ASSUME main.pc \in {"dialog", "handle", "answer", "told"} PROVE Usable
      OBVIOUS
    <3>1. state # "init" /\ dev # 0 /\ plug.pc # "clear"
      BY DEF Idle
    <3> QED  BY <3>1
  <2>2. state = "connected" /\ plug.pc = "notify" => Usable
    BY DEF Idle
  <2> QED  BY <2>1, <2>2
<1> QED  BY <1>1, Inductive, PTL

(* When every event is handled the disk has an entry in uDinfo if and only *)
(* if it is there, unless it was pulled between the two opens of its       *)
(* addition or switched between the scan and the bind of the socket.       *)
THEOREM EntryFollowsDiskAlways == Spec => []EntryFollowsDisk
<1>1. IInv => EntryFollowsDisk
  <2> SUFFICES ASSUME IInv, Quiet, ~unseen
               PROVE  table = "freed" \/ (table = "disk") = disk
    BY DEF EntryFollowsDisk
  <2>1. ~Has(uevents, DiskEvents) /\ plug.pc = "poll"
    BY EmptyHasNone DEF Quiet
  <2> QED  BY <2>1 DEF IInv, DiskInv
<1> QED  BY <1>1, Inductive, PTL

(* When the plug thread is done with a disk event the phone has been told, *)
(* by whichever of the two threads, for any COUNT_TIME and any width of    *)
(* usbSendCount, unless notify_plug gave up on main while it was telling.  *)
THEOREM EventIsToldAlways == Spec => []EventIsTold
<1>1. IInv => EventIsTold
  BY DEF IInv, EventInv, EventIsTold, AtDisk
<1> QED  BY <1>1, Inductive, PTL
=============================================================================
