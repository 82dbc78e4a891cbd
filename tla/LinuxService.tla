---------------------------- MODULE LinuxService ----------------------------
(***************************************************************************)
(* The Linux build of the service: main serves the phone through libusb    *)
(* while a second thread, vs_main_disk, takes the kernel's uevents one by  *)
(* one. The two share usbLinux (is a phone plugged, which disk event is to *)
(* be told, how often main went round), the handle in usb_phone and the    *)
(* connection in uSinfo, without a lock.                                   *)
(*                                                                         *)
(* A phone is the number of its plugging, a handle that of its opening.    *)
(* One disk stands for all; what a request does is left to the modules of  *)
(* the requests, which this build shares.                                  *)
(***************************************************************************)
EXTENDS Naturals, Sequences, FiniteSets

CONSTANTS
  MaxEvents,   \* plug events of phone and disk together, at most
  CountTime,   \* COUNT_TIME: 10 in the build
  MaxCount     \* usbSendCount wraps here: at 2^32 in the build

ASSUME BoundsArePos == MaxEvents \in Nat /\ CountTime \in Nat \ {0} /\ MaxCount \in Nat \ {0}

Actions == {"none", "add", "rem"}     \* plugStatus

VARIABLES
  phone,     \* the phone that is plugged, 0 if none
  disk,      \* whether the disk is plugged
  uevents,   \* what the netlink socket holds
  plugged,   \* number of events so far
  flag,      \* usbLinux.usbPhoneStatus
  action,    \* usbLinux.usbDiskStatus
  count,     \* usbLinux.usbSendCount
  osPriv,    \* usb_phone.os_priv: a handle, 0 for NULL
  state,     \* uSinfo.State: "init", "connecting", "connected"
  dev,       \* uSinfo.itunes.usbdev.os_priv
  opened,    \* phones of the handles opened so far
  closed,    \* handles that were closed
  echo,      \* whether the shell that makes a plugged phone report itself runs
  table,     \* the entry in uDinfo: "none", "disk", "freed" if its record is freed
  main,      \* main: where it stands, a handle not stored yet, diskStatus
  plug,      \* vs_main_disk: where it stands, sendCount, polls left, diskPlug
  alive,     \* FALSE once a handle or a record that is freed was used and it crashed
  due,       \* history: the disk event that was announced and not told yet
  crossed,   \* history: a thread used a handle the other closed, or was about to
  unseen,    \* history: the disk was switched after the scan, before the bind
  slow       \* history: the plug thread gave up on main in notify_plug

bus    == <<phone, disk, uevents, plugged, echo>>
usb    == <<osPriv, state, dev, opened, closed>>
status == <<flag, action, count>>
hist   == <<due, crossed, unseen, slow>>
vars   == <<bus, status, usb, table, main, plug, alive, hist>>

At(pc)    == alive /\ main.pc = pc
PlugAt(pc) == alive /\ plug.pc = pc
Goto(pc)   == main' = [main EXCEPT !.pc = pc]
PlugGoto(pc) == plug' = [plug EXCEPT !.pc = pc]

-----------------------------------------------------------------------------
(* libusb_close; NULL is never closed, what closing twice does is open. *)
Close(h) ==
  /\ closed' = closed \cup ({h} \ {0})
  /\ alive' \in {TRUE, h \notin closed}

(* Variant: uSinfo is left as it is. *)
ClearKeepsState ==
  /\ osPriv' = 0
  /\ UNCHANGED <<state, dev, opened, closed>>

(* The second half of usProtocol_DeviceDisConnect. *)
Clear ==
  /\ osPriv' = 0 /\ dev' = 0 /\ state' = "init"
  /\ UNCHANGED <<opened, closed>>

Usable == dev # 0 /\ dev \notin closed
Gone   == Usable => opened[dev] # phone     \* LIBUSB_ERROR_NO_DEVICE

(* A send may have to wait for the phone; there is no timeout. *)
MayWait == state = "connected" /\ Usable /\ ~Gone

(* notify_plug: what is sent is told, or not needed when no phone listens. *)
NotifyPlug(a) == due' = IF due = a THEN "none" ELSE due

-----------------------------------------------------------------------------
(* main *)

MainLoop ==
  /\ At("loop") /\ flag = 1
  /\ Goto("detect")
  /\ UNCHANGED <<bus, status, usb, table, plug, alive, hist>>

(* usProtocol_DeviceDetect: a phone it knows is taken as it is; otherwise  *)
(* an old handle is closed.                                                *)
Detect ==
  /\ At("detect")
  /\ IF state # "init"
     THEN Goto("connect") /\ UNCHANGED <<closed, alive>>
     ELSE Goto("forget") /\ Close(osPriv)
  /\ UNCHANGED <<bus, status, osPriv, state, dev, opened, table, plug, hist>>

Forget ==
  /\ At("forget")
  /\ osPriv' = 0
  /\ Goto("open")
  /\ UNCHANGED <<bus, status, state, dev, opened, closed, table, plug, alive, hist>>

(* The phone on the bus is opened and its interface claimed. *)
OpenPhone ==
  /\ At("open") /\ phone # 0
  /\ opened' = Append(opened, phone)
  /\ main' = [main EXCEPT !.pc = "store", !.handle = Len(opened')]
  /\ UNCHANGED <<bus, status, osPriv, state, dev, closed, table, plug, alive, hist>>

(* None is found, or a call fails; the handle is closed again. *)
OpenFails ==
  /\ At("open")
  /\ Goto("loop")
  /\ UNCHANGED <<bus, status, usb, table, plug, alive, hist>>

StoreHandle ==
  /\ At("store")
  /\ osPriv' = main.handle
  /\ Goto("fill")
  /\ UNCHANGED <<bus, status, state, dev, opened, closed, table, plug, alive, hist>>

(* uSinfo gets its copy of usb_phone. *)
FillInfo ==
  /\ At("fill")
  /\ state' = "connecting" /\ dev' = osPriv
  /\ main' = [main EXCEPT !.pc = "connect", !.handle = 0]
  /\ UNCHANGED <<bus, status, osPriv, opened, closed, table, plug, alive, hist>>

(* usProtocol_ConnectPhone: an iPhone takes a dialog, an Android phone none. *)
ConnectPhone ==
  /\ At("connect")
  /\ \/ state = "init" /\ Goto("loop") /\ UNCHANGED state
     \/ state = "connected" /\ Goto("handle") /\ UNCHANGED state
     \/ state = "connecting" /\ Goto("handle") /\ state' = "connected"
     \/ state = "connecting" /\ Goto("dialog") /\ UNCHANGED state
  /\ UNCHANGED <<bus, status, osPriv, dev, opened, closed, table, plug, alive, hist>>

(* The last answer of the dialog; the state is set without a look at what  *)
(* became of uSinfo meanwhile.                                             *)
DialogDone ==
  /\ At("dialog") /\ ~(Usable /\ Gone)
  /\ state' = "connected"
  /\ Goto("handle")
  /\ UNCHANGED <<bus, status, osPriv, dev, opened, closed, table, plug, alive, hist>>

DialogFails ==
  /\ At("dialog")
  /\ Goto("loop")
  /\ UNCHANGED <<bus, status, usb, table, plug, alive, hist>>

(* usStorage_Handle. A request is received, and is answered unless it     *)
(* fails; a phone that is silent keeps main waiting.                       *)
Receive ==
  /\ At("handle") /\ ~(Usable /\ Gone)
  /\ Goto("answer") \/ Goto("tell")
  /\ UNCHANGED <<bus, status, usb, table, plug, alive, hist>>

Answer ==
  /\ At("answer")
  /\ Goto("tell")
  /\ UNCHANGED <<bus, status, usb, table, plug, alive, hist>>

(* PROTOCOL_DISCONNECT, of the receive or of a send. *)
Disconnected ==
  /\ At("handle") \/ At("answer")
  /\ Gone
  /\ Goto("drop")
  /\ UNCHANGED <<bus, status, usb, table, plug, alive, hist>>

(* A call of libusb with NULL or a handle that is closed. *)
Crash ==
  /\ \/ At("handle") \/ At("answer") \/ At("dialog")
     \/ (At("told") \/ PlugAt("notify")) /\ state = "connected"
  /\ ~Usable
  /\ alive' = FALSE
  /\ UNCHANGED <<bus, status, usb, table, main, plug, hist>>

DropFlag ==
  /\ At("drop")
  /\ flag' = 0
  /\ Goto("close")
  /\ UNCHANGED <<bus, action, count, usb, table, plug, alive, hist>>

MainClose ==
  /\ At("close")
  /\ Close(osPriv)
  /\ crossed' = (crossed \/ plug.pc = "notify")
  /\ Goto("clear")
  /\ UNCHANGED <<bus, status, osPriv, state, dev, opened, table, plug, due, unseen, slow>>

MainClear ==
  /\ At("clear")
  /\ Clear
  /\ Goto("loop")
  /\ UNCHANGED <<bus, status, table, plug, alive, hist>>

(* Variant: the event is reset even if there was none. *)
TellAlways ==
  /\ At("tell")
  /\ main' = [main EXCEPT !.pc = "told", !.act = action]
  /\ UNCHANGED <<bus, status, usb, table, plug, alive, hist>>

(* diskStatus is read; if there is none main goes round. *)
Tell ==
  /\ At("tell")
  /\ main' = [main EXCEPT !.pc = IF action = "none" THEN "count" ELSE "told", !.act = action]
  /\ UNCHANGED <<bus, status, usb, table, plug, alive, hist>>

(* notify_plug has sent it. *)
Told ==
  /\ At("told")
  /\ NotifyPlug(main.act)
  /\ main' = [main EXCEPT !.pc = "reset", !.act = "none"]
  /\ UNCHANGED <<bus, status, usb, table, plug, alive, crossed, unseen, slow>>

ResetAction ==
  /\ At("reset")
  /\ action' = "none"
  /\ Goto("count")
  /\ UNCHANGED <<bus, flag, count, usb, table, plug, alive, hist>>

CountUp ==
  /\ At("count")
  /\ count' = (count + 1) % MaxCount
  /\ Goto("loop")
  /\ UNCHANGED <<bus, flag, action, usb, table, plug, alive, hist>>

-----------------------------------------------------------------------------
(* vs_main_disk *)

(* usDisk_DeviceInit. What could be opened may be gone when it is opened   *)
(* again.                                                                  *)
ScanDisks ==
  /\ PlugAt("scan")
  /\ table' \in IF disk THEN {"disk", "freed"} ELSE {"none"}
  /\ PlugGoto("bind")
  /\ UNCHANGED <<bus, status, usb, main, alive, hist>>

(* The socket holds what is reported from now on. A phone that is plugged  *)
(* already is made to report itself, by a shell in the background.         *)
BindSocket ==
  /\ PlugAt("bind")
  /\ echo' = TRUE
  /\ PlugGoto("poll")
  /\ UNCHANGED <<phone, disk, uevents, plugged, status, usb, table, main, alive, hist>>

Take(e) ==
  /\ PlugAt("poll")
  /\ uevents # <<>> /\ Head(uevents) = e
  /\ uevents' = Tail(uevents)

(* storage_handle_phoneplug, "add": a flag still up is taken down first. *)
PhoneAdd ==
  /\ Take("phoneAdd")
  /\ flag' = 0
  /\ PlugGoto("close")
  /\ UNCHANGED <<phone, disk, plugged, echo, action, count, usb, table, main, alive, hist>>

(* Where main has no handle in use. *)
Idle == main.pc \in {"loop", "reset", "count"}

PlugClose ==
  /\ PlugAt("close")
  /\ Close(osPriv)
  /\ crossed' = (crossed \/ ~Idle)
  /\ PlugGoto("clear")
  /\ UNCHANGED <<bus, status, osPriv, state, dev, opened, table, main, due, unseen, slow>>

PlugClear ==
  /\ PlugAt("clear")
  /\ Clear
  /\ PlugGoto("raise")
  /\ UNCHANGED <<bus, status, table, main, alive, hist>>

RaiseFlag ==
  /\ PlugAt("raise")
  /\ flag' = 1
  /\ PlugGoto("poll")
  /\ UNCHANGED <<bus, action, count, usb, table, main, alive, hist>>

(* Variant: the flag stays. *)
PhoneRemIgnored ==
  /\ Take("phoneRem")
  /\ UNCHANGED <<phone, disk, plugged, echo, status, usb, table, main, plug, alive, hist>>

PhoneRem ==
  /\ Take("phoneRem")
  /\ flag' = 0
  /\ UNCHANGED <<phone, disk, plugged, echo, action, count, usb, table, main, plug, alive, hist>>

(* storage_handle_diskplug. An added disk is announced before its entry is *)
(* made; "change" is an addition if the disk can be opened.                *)
DiskAdd ==
  /\ Take("diskAdd") \/ Take("diskChange")
  /\ disk
  /\ action' = "add" /\ due' = "add"
  /\ PlugGoto("enter")
  /\ UNCHANGED <<phone, disk, plugged, echo, flag, count, usb, table, main, alive,
                 crossed, unseen, slow>>

(* The disk cannot be opened any more. *)
DiskAddIgnored ==
  /\ Take("diskAdd") /\ ~disk
  /\ UNCHANGED <<phone, disk, plugged, echo, status, usb, table, main, plug, alive, hist>>

(* usDisk_DeviceDetect: an entry that is there stays. When the disk cannot *)
(* be opened a second time the record is freed and the entry stays.        *)
EnterDisk ==
  /\ PlugAt("enter")
  /\ table' = IF table # "none" THEN table ELSE IF disk THEN "disk" ELSE "freed"
  /\ PlugGoto("sample")
  /\ UNCHANGED <<bus, status, usb, main, alive, hist>>

(* Variant: the entry stays. *)
RemoveEntryKeeps ==
  /\ table # "none"
  /\ action' = "rem" /\ due' = "rem"
  /\ UNCHANGED <<table, alive>>
  /\ PlugGoto("sample")

(* usDisk_DeviceDisConnect. The name in a freed record is likely the one   *)
(* that was there: then it is freed twice.                                 *)
RemoveEntry ==
  /\ table # "none"
  /\ table' = "none"
  /\ action' = "rem" /\ due' = "rem"
  /\ alive' \in {TRUE, table = "disk"}
  /\ PlugGoto("sample")

(* A removed disk is announced when its entry is gone. *)
DiskRem ==
  /\ Take("diskRem") \/ (Take("diskChange") /\ ~disk)
  /\ RemoveEntry
  /\ UNCHANGED <<phone, disk, plugged, echo, flag, count, usb, main, crossed, unseen, slow>>

(* No entry has the name of the disk. *)
DiskRemIgnored ==
  /\ Take("diskRem") \/ (Take("diskChange") /\ ~disk)
  /\ table # "disk"
  /\ UNCHANGED <<phone, disk, plugged, echo, status, usb, table, main, plug, alive, hist>>

(* Variant: countTime++ <= COUNT_TIME. *)
SampleOneMore ==
  /\ PlugAt("sample")
  /\ plug' = [plug EXCEPT !.pc = "wait", !.sent = count, !.polls = CountTime + 1]
  /\ UNCHANGED <<bus, status, usb, table, main, alive, hist>>

(* The count is taken before the first of CountTime polls. *)
Sample ==
  /\ PlugAt("sample")
  /\ plug' = [plug EXCEPT !.pc = "wait", !.sent = count, !.polls = CountTime]
  /\ UNCHANGED <<bus, status, usb, table, main, alive, hist>>

(* Main went round and took the event. *)
MainTold == count # plug.sent /\ action = "none"

Wait ==
  /\ PlugAt("wait") /\ plug.polls > 0
  /\ plug' = IF MainTold THEN [plug EXCEPT !.pc = "poll"] ELSE [plug EXCEPT !.polls = @ - 1]
  /\ UNCHANGED <<bus, status, usb, table, main, alive, hist>>

(* Main may be waiting for the phone: this thread tells the event. *)
GiveUp ==
  /\ PlugAt("wait") /\ plug.polls = 0
  /\ plug' = [plug EXCEPT !.pc = "notify", !.act = action]
  /\ action' = "none"
  /\ slow' = (slow \/ main.pc \in {"told", "reset"})
  /\ crossed' = (crossed \/ main.pc = "clear")
  /\ UNCHANGED <<bus, flag, count, usb, table, main, alive, due, unseen>>

Notify ==
  /\ PlugAt("notify")
  /\ NotifyPlug(plug.act)
  /\ plug' = [plug EXCEPT !.pc = "poll", !.act = "none"]
  /\ UNCHANGED <<bus, status, usb, table, main, alive, crossed, unseen, slow>>

-----------------------------------------------------------------------------
(* The cables, and the kernel that reports them in order. *)
Bound == plug.pc \notin {"scan", "bind"}

Event(e) ==
  /\ plugged < MaxEvents /\ plugged' = plugged + 1
  /\ uevents' = IF Bound THEN Append(uevents, e) ELSE uevents
  /\ UNCHANGED echo

PlugPhone ==
  /\ phone = 0
  /\ Event("phoneAdd")
  /\ phone' = plugged'
  /\ UNCHANGED <<disk, status, usb, table, main, plug, alive, hist>>

UnplugPhone ==
  /\ phone # 0
  /\ Event("phoneRem")
  /\ phone' = 0
  /\ UNCHANGED <<disk, status, usb, table, main, plug, alive, hist>>

(* A card reader stays and reports a change of its medium. *)
SwitchDisk ==
  /\ Event(IF disk THEN "diskRem" ELSE "diskAdd") \/ Event("diskChange")
  /\ disk' = ~disk
  /\ unseen' = (unseen \/ plug.pc = "bind")
  /\ UNCHANGED <<phone, status, usb, table, main, plug, alive, due, crossed, slow>>

Echo ==
  /\ echo /\ echo' = FALSE
  /\ uevents' = IF phone # 0 THEN Append(uevents, "phoneAdd") ELSE uevents
  /\ UNCHANGED <<phone, disk, plugged, status, usb, table, main, plug, alive, hist>>

Init ==
  /\ phone = 0 /\ disk \in BOOLEAN /\ uevents = <<>> /\ plugged = 0 /\ echo = FALSE
  /\ flag = 0 /\ action = "none" /\ count = 0
  /\ osPriv = 0 /\ state = "init" /\ dev = 0 /\ opened = <<>> /\ closed = {}
  /\ table = "none"
  /\ main = [pc |-> "loop", handle |-> 0, act |-> "none"]
  /\ plug = [pc |-> "scan", sent |-> 0, polls |-> 0, act |-> "none"]
  /\ alive = TRUE
  /\ due = "none" /\ crossed = FALSE /\ unseen = FALSE /\ slow = FALSE

(* Steps that wait for nobody. *)
MainGoesOn ==
  \/ MainLoop \/ Detect \/ Forget \/ StoreHandle \/ FillInfo \/ ConnectPhone
  \/ Disconnected \/ DropFlag \/ MainClose \/ MainClear
  \/ Tell \/ ResetAction \/ CountUp

PlugGoesOn ==
  \/ ScanDisks \/ BindSocket
  \/ PhoneAdd \/ PlugClose \/ PlugClear \/ RaiseFlag \/ PhoneRem
  \/ DiskAdd \/ DiskAddIgnored \/ EnterDisk \/ DiskRem \/ DiskRemIgnored
  \/ Sample \/ Wait \/ GiveUp

Next ==
  \/ MainGoesOn \/ OpenPhone \/ OpenFails \/ DialogDone \/ DialogFails
  \/ Receive \/ Answer \/ Told
  \/ PlugGoesOn \/ Notify
  \/ Crash
  \/ PlugPhone \/ UnplugPhone \/ SwitchDisk \/ Echo

Spec == Init /\ [][Next]_vars

(* Both threads are scheduled, the shell ends, and a phone that is there   *)
(* can be opened and answers a dialog that is tried again and again. A     *)
(* phone need not send a request nor take what it is sent.                 *)
FairSpec ==
  /\ Spec
  /\ WF_vars(MainGoesOn) /\ WF_vars(PlugGoesOn) /\ WF_vars(Echo)
  /\ WF_vars(Told /\ ~MayWait) /\ WF_vars(Notify /\ ~MayWait)
  /\ SF_vars(OpenPhone) /\ SF_vars(DialogDone)
  /\ WF_vars(OpenFails)

-----------------------------------------------------------------------------
Handles == 0..Len(opened)

TypeOK ==
  /\ phone \in 0..MaxEvents /\ disk \in BOOLEAN /\ echo \in BOOLEAN
  /\ table \in {"none", "disk", "freed"}
  /\ uevents \in Seq({"phoneAdd", "phoneRem", "diskAdd", "diskRem", "diskChange"})
  /\ plugged \in 0..MaxEvents
  /\ flag \in {0, 1} /\ action \in Actions /\ count \in 0..MaxCount-1
  /\ osPriv \in Handles /\ dev \in Handles /\ closed \subseteq Handles \ {0}
  /\ state \in {"init", "connecting", "connected"}
  /\ opened \in Seq(1..MaxEvents)
  /\ main.pc \in {"loop", "detect", "forget", "open", "store", "fill", "connect", "dialog",
                  "handle", "answer", "drop", "close", "clear", "tell", "told", "reset", "count"}
  /\ main.handle \in Handles /\ main.act \in Actions
  /\ plug.pc \in {"scan", "bind", "poll", "close", "clear", "raise", "enter", "sample",
                  "wait", "notify"}
  /\ plug.sent \in 0..MaxCount-1 /\ plug.polls \in 0..CountTime /\ plug.act \in Actions
  /\ alive \in BOOLEAN /\ due \in Actions
  /\ crossed \in BOOLEAN /\ unseen \in BOOLEAN /\ slow \in BOOLEAN

(* Every event is handled. *)
Quiet == uevents = <<>> /\ ~echo /\ plug.pc = "poll"

(* When every event is handled and main is not dropping a phone, the flag  *)
(* says whether a phone is plugged (usStorage.c:1235). It fails if a       *)
(* handle was closed while the other thread was at work with it: main's    *)
(* late disconnection takes the flag of the new phone down.                *)
FlagFollowsPlug ==
  (Quiet /\ main.pc # "drop" /\ ~crossed) => (flag = 1) = (phone # 0)

(* Both threads talk through a handle that is open, and every handle that  *)
(* is not closed is known to the program, with the same exception.         *)
HandlesHaveOwner ==
  crossed \/
    /\ main.pc \in {"dialog", "handle", "answer"} => Usable
    /\ state = "connected" /\ (main.pc = "told" \/ plug.pc = "notify") => Usable
    /\ (1..Len(opened)) \ closed \subseteq {osPriv, main.handle}

(* When every event is handled the disk has an entry if and only if it is  *)
(* there, unless the second open in its addition or in the scan failed, or *)
(* it was switched between the scan of the disks and the bind of the       *)
(* socket.                                                                 *)
EntryFollowsDisk ==
  (Quiet /\ alive /\ ~unseen) => table = "freed" \/ (table = "disk") = disk

(* When the plug thread is done with a disk event the phone has been told, *)
(* by this thread or by main, unless it gave up on main just while main    *)
(* was telling the event before.                                           *)
EventIsTold == (plug.pc = "poll" /\ ~slow) => due = "none"

(* A phone that stays is served in the end, through a handle of its own,   *)
(* with the exception of FlagFollowsPlug and of a crash.                   *)
PhoneIsServed ==
  <>[](phone # 0 /\ ~crossed /\ alive) => <>[](state = "connected" /\ Usable /\ ~Gone)
=============================================================================
