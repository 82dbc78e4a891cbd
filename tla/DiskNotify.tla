----------------------------- MODULE DiskNotify -----------------------------
(***************************************************************************)
(* Plugging and unplugging: the disk task (vs_main_disk) watches the card  *)
(* slot and enumerates the USB disk, the USB interrupt reports what is     *)
(* unplugged, and both tell the phone task (vs_main) through the counter   *)
(* notifyPhone that the phone must hear of the new set of disks.           *)
(*                                                                         *)
(* Tasks interleave between any two of the steps below; a step of the      *)
(* interrupt is not interrupted by a task. An announcement is a change of  *)
(* the disk table for which the tag was raised; announcements are counted  *)
(* to tell which of them a message to the phone covers.                    *)
(***************************************************************************)
EXTENDS Naturals, FiniteSets

CONSTANTS
  TagLimit,   \* 127: the counter goes back to 1 after it
  MaxPlugs,   \* things plugged or unplugged, at most
  MaxFaults   \* enumerations and sends that fail, at most

ASSUME TagLimitIsPos == TagLimit \in Nat \ {0}
ASSUME BoundsAreNat  == MaxPlugs \in Nat /\ MaxFaults \in Nat

VARIABLES
  phone,       \* USB_HostState[NXP_USB_PHONE] = HOST_STATE_Configured
  diskIn,      \* a USB disk is in port 1
  cardIn,      \* a card is in the slot
  port,        \* USB_HostState[NXP_USB_DISK]
  entry,       \* uDinfo: disknum zero, disknum set, all fields set
  sd_plugin,   \* the disk task has taken the card in
  notifyPhone, \* the tag
  pcD,         \* the disk task
  back,        \* where the disk task goes on after NXP_setDiskNotifyTag
  loaded,      \* notifyPhone as `++` read it
  pcP,         \* the phone task
  notifying,   \* diskLUN runs for NXP_notifyDiskChange, not for a request
  num,         \* announcements made when usDisk_DiskNum was read
  announced,   \* announcements made
  told,        \* announcements the last message to the phone covers
  sendFailed,  \* some message did not reach the phone
  resetAsked,  \* IOCTL_POWER_RESET_I2C was sent to the power controller
  plugs, faults

diskTask  == <<pcD, back, loaded>>
phoneTask == <<pcP, notifying, num, told, sendFailed>>
ext       == <<phone, diskIn, cardIn, plugs>>
vars == <<ext, port, entry, sd_plugin, notifyPhone, diskTask, phoneTask,
          announced, resetAsked, faults>>

Fault == faults < MaxFaults /\ faults' = faults + 1
Plug  == plugs < MaxPlugs /\ plugs' = plugs + 1

Boot(disk) ==
  /\ phone' = FALSE
  /\ port' = IF disk THEN "powered" ELSE "unattached"
  /\ entry' = [hdd |-> "none", card |-> "none"]
  /\ sd_plugin' = FALSE
  /\ notifyPhone' = 0
  /\ pcD' = "card" /\ back' = "usb" /\ loaded' = 0
  /\ pcP' = "wait" /\ notifying' = FALSE
  /\ num' = 0 /\ announced' = 0 /\ told' = 0 /\ sendFailed' = FALSE
  /\ resetAsked' = FALSE

Init ==
  /\ phone = FALSE /\ diskIn = FALSE /\ cardIn = FALSE
  /\ port = "unattached"
  /\ entry = [hdd |-> "none", card |-> "none"]
  /\ sd_plugin = FALSE
  /\ notifyPhone = 0
  /\ pcD = "card" /\ back = "usb" /\ loaded = 0
  /\ pcP = "wait" /\ notifying = FALSE
  /\ num = 0 /\ announced = 0 /\ told = 0 /\ sendFailed = FALSE
  /\ resetAsked = FALSE
  /\ plugs = 0 /\ faults = 0

-----------------------------------------------------------------------------
(* The disk task: wait_sdcard.                                             *)

NoCardNews ==
  /\ pcD = "card"
  /\ cardIn = sd_plugin
  /\ pcD' = "usb"
  /\ UNCHANGED <<ext, port, entry, sd_plugin, notifyPhone, back, loaded, phoneTask,
                 announced, resetAsked, faults>>

CardFails ==
  /\ pcD = "card"
  /\ cardIn /\ ~sd_plugin
  /\ Fault
  /\ pcD' = "usb"
  /\ UNCHANGED <<ext, port, entry, sd_plugin, notifyPhone, back, loaded, phoneTask,
                 announced, resetAsked>>

(* usDisk_FindLocation marks the entry before the fields are known. *)
CardFound ==
  /\ pcD = "card"
  /\ cardIn /\ ~sd_plugin
  /\ IF entry.card = "none"
     THEN entry' = [entry EXCEPT !.card = "marked"] /\ pcD' = "fillcard"
     ELSE pcD' = "usb" /\ UNCHANGED entry
  /\ UNCHANGED <<ext, port, sd_plugin, notifyPhone, back, loaded, phoneTask,
                 announced, resetAsked, faults>>

CardFilled ==
  /\ pcD = "fillcard"
  /\ entry' = [entry EXCEPT !.card = "filled"]
  /\ sd_plugin' = TRUE
  /\ pcD' = "tag" /\ back' = "usb"
  /\ UNCHANGED <<ext, port, notifyPhone, loaded, phoneTask, announced, resetAsked, faults>>

(* Variant: the flag is cleared and the entry stays. *)
CardGoneKeepsEntry ==
  /\ pcD = "card"
  /\ ~cardIn /\ sd_plugin
  /\ sd_plugin' = FALSE
  /\ pcD' = "tag" /\ back' = "usb"
  /\ UNCHANGED <<ext, port, entry, notifyPhone, loaded, phoneTask, announced, resetAsked, faults>>

CardGone ==
  /\ pcD = "card"
  /\ ~cardIn /\ sd_plugin
  /\ sd_plugin' = FALSE
  /\ entry' = [entry EXCEPT !.card = "none"]
  /\ pcD' = "tag" /\ back' = "usb"
  /\ UNCHANGED <<ext, port, notifyPhone, loaded, phoneTask, announced, resetAsked, faults>>

-----------------------------------------------------------------------------
(* The disk task: wait_usbdisk. Once inside, only "configured" leads out.  *)

EnterUsb ==
  /\ pcD = "usb"
  /\ pcD' = IF port = "unattached" THEN "card" ELSE "spin"
  /\ UNCHANGED <<ext, port, entry, sd_plugin, notifyPhone, back, loaded, phoneTask,
                 announced, resetAsked, faults>>

LeaveUsb ==
  /\ pcD = "spin"
  /\ port = "configured"
  /\ pcD' = "card"
  /\ UNCHANGED <<ext, port, entry, sd_plugin, notifyPhone, back, loaded, phoneTask,
                 announced, resetAsked, faults>>

(* USB_Host_ProcessNextHostState reaches the addressed state and raises    *)
(* EnumerationComplete; usDisk_DeviceDetectHDD starts its dialog.          *)
Enumerated ==
  /\ pcD = "spin"
  /\ port = "powered"
  /\ port' = "addressed"
  /\ pcD' = "dialog"
  /\ UNCHANGED <<ext, entry, sd_plugin, notifyPhone, back, loaded, phoneTask,
                 announced, resetAsked, faults>>

(* Variant: the box is not asked to restart. *)
EnumerationFailsQuietly ==
  /\ pcD = "spin"
  /\ port = "powered"
  /\ Fault
  /\ port' = "unattached"
  /\ entry' = [entry EXCEPT !.hdd = "none"]
  /\ pcD' = "tag" /\ back' = "spin"
  /\ UNCHANGED <<ext, sd_plugin, notifyPhone, loaded, phoneTask, announced, resetAsked>>

(* A step of the enumeration fails: EnumerationFailed, then Unattached.    *)
EnumerationFails ==
  /\ pcD = "spin"
  /\ port = "powered"
  /\ Fault
  /\ port' = "unattached"
  /\ entry' = [entry EXCEPT !.hdd = "none"]
  /\ resetAsked' = TRUE
  /\ pcD' = "tag" /\ back' = "spin"
  /\ UNCHANGED <<ext, sd_plugin, notifyPhone, loaded, phoneTask, announced>>

(* The whole dialog succeeds; ClaimInterface has set the configuration.    *)
DialogDone ==
  /\ pcD = "dialog"
  /\ port = "addressed"
  /\ port' = "configured"
  /\ pcD' = "findhdd"
  /\ UNCHANGED <<ext, entry, sd_plugin, notifyPhone, back, loaded, phoneTask,
                 announced, resetAsked, faults>>

(* A request of the dialog fails: the disk is gone, or it answers with an  *)
(* error and NXP_RequestSense and the like set configuration 0 again, or   *)
(* it never gets ready, and the configuration stays. The event handler     *)
(* raises the tag all the same.                                            *)
DialogFails ==
  /\ pcD = "dialog"
  /\ port = "addressed" => Fault
  /\ port # "addressed" => UNCHANGED faults
  /\ \/ UNCHANGED port
     \/ port = "addressed" /\ port' = "configured"
  /\ pcD' = "tag" /\ back' = "spin"
  /\ UNCHANGED <<ext, entry, sd_plugin, notifyPhone, loaded, phoneTask,
                 announced, resetAsked>>

HddFound ==
  /\ pcD = "findhdd"
  /\ IF entry.hdd = "none"
     THEN entry' = [entry EXCEPT !.hdd = "marked"] /\ pcD' = "fillhdd" /\ UNCHANGED back
     ELSE pcD' = "tag" /\ back' = "spin" /\ UNCHANGED entry
  /\ UNCHANGED <<ext, port, sd_plugin, notifyPhone, loaded, phoneTask,
                 announced, resetAsked, faults>>

(* memcpy over the entry: DiskInfo.disknum was read from it just before.   *)
HddFilled ==
  /\ pcD = "fillhdd"
  /\ entry' = [entry EXCEPT !.hdd = "filled"]
  /\ pcD' = "tag" /\ back' = "spin"
  /\ UNCHANGED <<ext, port, sd_plugin, notifyPhone, loaded, phoneTask,
                 announced, resetAsked, faults>>

-----------------------------------------------------------------------------
(* NXP_setDiskNotifyTag in the disk task: test, load, store, clamp.        *)

TagTest ==
  /\ pcD = "tag"
  /\ IF phone
     THEN pcD' = "store" /\ loaded' = notifyPhone
     ELSE pcD' = back /\ UNCHANGED loaded
  /\ UNCHANGED <<ext, port, entry, sd_plugin, notifyPhone, back, phoneTask,
                 announced, resetAsked, faults>>

(* Variant: the limit is tested one too late. *)
TagStoreLate ==
  /\ pcD = "store"
  /\ notifyPhone' = loaded + 1
  /\ announced' = announced + 1
  /\ pcD' = IF loaded > TagLimit THEN "clamp" ELSE back
  /\ UNCHANGED <<ext, port, entry, sd_plugin, back, loaded, phoneTask,
                 resetAsked, faults>>

TagStore ==
  /\ pcD = "store"
  /\ notifyPhone' = loaded + 1
  /\ announced' = announced + 1
  /\ pcD' = IF loaded = TagLimit THEN "clamp" ELSE back
  /\ UNCHANGED <<ext, port, entry, sd_plugin, back, loaded, phoneTask,
                 resetAsked, faults>>

(* Variant: the counter starts again at 0, which means "nothing to tell". *)
TagClampToZero ==
  /\ pcD = "clamp"
  /\ notifyPhone' = 0
  /\ pcD' = back
  /\ UNCHANGED <<ext, port, entry, sd_plugin, back, loaded, phoneTask,
                 announced, resetAsked, faults>>

TagClamp ==
  /\ pcD = "clamp"
  /\ notifyPhone' = 1
  /\ pcD' = back
  /\ UNCHANGED <<ext, port, entry, sd_plugin, back, loaded, phoneTask,
                 announced, resetAsked, faults>>

(* The same inside the interrupt, in one piece. *)
TagFromIsr ==
  IF phone
  THEN /\ notifyPhone' = IF notifyPhone = TagLimit THEN 1 ELSE notifyPhone + 1
       /\ announced' = announced + 1
  ELSE UNCHANGED <<notifyPhone, announced>>

-----------------------------------------------------------------------------
(* The phone task. *)

Connect ==
  /\ pcP = "wait"
  /\ phone
  /\ pcP' = "handle"
  /\ UNCHANGED <<ext, port, entry, sd_plugin, notifyPhone, diskTask, notifying, num, told,
                 sendFailed, announced, resetAsked, faults>>

(* usStorage_Handle serves one request, or fails because the phone left. *)
Handle ==
  /\ pcP = "handle"
  /\ pcP' = "check"
  /\ UNCHANGED <<ext, port, entry, sd_plugin, notifyPhone, diskTask, notifying, num, told,
                 sendFailed, announced, resetAsked, faults>>

(* The request is SCSI_GET_LUN. *)
HandleLun ==
  /\ pcP = "handle"
  /\ phone
  /\ pcP' = "num" /\ notifying' = FALSE
  /\ UNCHANGED <<ext, port, entry, sd_plugin, notifyPhone, diskTask, num, told,
                 sendFailed, announced, resetAsked, faults>>

Check ==
  /\ pcP = "check"
  /\ IF phone /\ notifyPhone # 0
     THEN pcP' = "num" /\ notifying' = TRUE
     ELSE pcP' = (IF phone THEN "handle" ELSE "wait") /\ UNCHANGED notifying
  /\ UNCHANGED <<ext, port, entry, sd_plugin, notifyPhone, diskTask, num, told,
                 sendFailed, announced, resetAsked, faults>>

(* usStorage_diskLUN reads the table ... *)
DiskNum ==
  /\ pcP = "num"
  /\ num' = announced
  /\ pcP' = "send"
  /\ UNCHANGED <<ext, port, entry, sd_plugin, notifyPhone, diskTask, notifying, told,
                 sendFailed, announced, resetAsked, faults>>

AfterSend == IF notifying THEN "reset" ELSE "check"

(* ... and sends what it read. *)
Send ==
  /\ pcP = "send"
  /\ phone
  /\ told' = num
  /\ pcP' = AfterSend
  /\ UNCHANGED <<ext, port, entry, sd_plugin, notifyPhone, diskTask, notifying, num,
                 sendFailed, announced, resetAsked, faults>>

(* NXP_notifyDiskChange prints that it failed and goes on. *)
SendFails ==
  /\ pcP = "send"
  /\ phone => Fault
  /\ ~phone => UNCHANGED faults
  /\ sendFailed' = TRUE
  /\ pcP' = AfterSend
  /\ UNCHANGED <<ext, port, entry, sd_plugin, notifyPhone, diskTask, notifying, num, told,
                 announced, resetAsked>>

ResetTag ==
  /\ pcP = "reset"
  /\ notifyPhone' = 0
  /\ pcP' = IF phone THEN "handle" ELSE "wait"
  /\ UNCHANGED <<ext, port, entry, sd_plugin, diskTask, notifying, num, told,
                 sendFailed, announced, resetAsked, faults>>

-----------------------------------------------------------------------------
(* The world: cables, and the interrupt each of them raises. *)

PlugCard ==
  /\ Plug
  /\ cardIn' = ~cardIn
  /\ UNCHANGED <<phone, diskIn, port, entry, sd_plugin, notifyPhone, diskTask, phoneTask,
                 announced, resetAsked, faults>>

AttachDisk ==
  /\ ~diskIn
  /\ Plug
  /\ diskIn' = TRUE
  /\ port' = "powered"
  /\ UNCHANGED <<phone, cardIn, entry, sd_plugin, notifyPhone, diskTask, phoneTask,
                 announced, resetAsked, faults>>

(* USB_ResetInterface after a failed enumeration finds the disk anew. *)
ReportDisk ==
  /\ diskIn
  /\ port = "unattached"
  /\ port' = "powered"
  /\ UNCHANGED <<ext, entry, sd_plugin, notifyPhone, diskTask, phoneTask,
                 announced, resetAsked, faults>>

(* Variant: no restart after a disk was pulled out. *)
UnattachDiskNoReset ==
  /\ diskIn
  /\ Plug
  /\ diskIn' = FALSE
  /\ entry' = [entry EXCEPT !.hdd = "none"]
  /\ TagFromIsr
  /\ port' = "unattached"
  /\ UNCHANGED <<phone, cardIn, sd_plugin, diskTask, phoneTask, resetAsked, faults>>

(* EVENT_USB_Host_DeviceUnattached for the disk, then the port state. *)
UnattachDisk ==
  /\ diskIn
  /\ Plug
  /\ diskIn' = FALSE
  /\ entry' = [entry EXCEPT !.hdd = "none"]
  /\ TagFromIsr
  /\ resetAsked' = TRUE
  /\ port' = "unattached"
  /\ UNCHANGED <<phone, cardIn, sd_plugin, diskTask, phoneTask, faults>>

AttachPhone ==
  /\ ~phone
  /\ pcP = "wait"
  /\ Plug
  /\ phone' = TRUE
  /\ UNCHANGED <<diskIn, cardIn, port, entry, sd_plugin, notifyPhone, diskTask, phoneTask,
                 announced, resetAsked, faults>>

(* The same event for the phone: a connected one makes the box restart;    *)
(* one whose type usProtocol_DeviceDetect has not stored yet does not.     *)
UnattachPhone ==
  /\ phone
  /\ Plug
  /\ phone' = FALSE
  /\ \/ resetAsked' = TRUE
     \/ pcP = "wait" /\ UNCHANGED resetAsked
  /\ UNCHANGED <<diskIn, cardIn, port, entry, sd_plugin, notifyPhone, diskTask, phoneTask,
                 announced, faults>>

(* The power controller serves the request: the program starts again.      *)
PowerCycle ==
  /\ resetAsked
  /\ Boot(diskIn)
  /\ UNCHANGED <<diskIn, cardIn, plugs, faults>>

DiskTask ==
  \/ NoCardNews \/ CardFails \/ CardFound \/ CardFilled \/ CardGone
  \/ EnterUsb \/ LeaveUsb \/ Enumerated \/ EnumerationFails
  \/ DialogDone \/ DialogFails \/ HddFound \/ HddFilled
  \/ TagTest \/ TagStore \/ TagClamp

PhoneTask ==
  Connect \/ Handle \/ HandleLun \/ Check \/ DiskNum \/ Send \/ SendFails \/ ResetTag

World == PlugCard \/ AttachDisk \/ ReportDisk \/ UnattachDisk \/ AttachPhone \/ UnattachPhone

Next == DiskTask \/ PhoneTask \/ World \/ PowerCycle

Spec == Init /\ [][Next]_vars

(***************************************************************************)
(* Both tasks get the processor, the power controller serves a request,    *)
(* and usStorage_Handle returns: a receive has no timeout, so that is the  *)
(* assumption that a connected phone keeps sending requests.               *)
(***************************************************************************)
FairSpec == Spec /\ WF_vars(DiskTask) /\ WF_vars(PhoneTask) /\ WF_vars(PowerCycle)

-----------------------------------------------------------------------------
TypeOK ==
  /\ phone \in BOOLEAN /\ diskIn \in BOOLEAN /\ cardIn \in BOOLEAN
  /\ port \in {"unattached", "powered", "addressed", "configured"}
  /\ entry \in [{"hdd", "card"} -> {"none", "marked", "filled"}]
  /\ sd_plugin \in BOOLEAN
  /\ notifyPhone \in 0..(IF pcD = "clamp" THEN TagLimit + 1 + MaxPlugs ELSE TagLimit)
  /\ pcD \in {"card", "fillcard", "usb", "spin", "dialog", "findhdd", "fillhdd",
              "tag", "store", "clamp"}
  /\ back \in {"usb", "spin"}
  /\ loaded \in 0..TagLimit
  /\ pcP \in {"wait", "handle", "check", "num", "send", "reset"}
  /\ notifying \in BOOLEAN /\ sendFailed \in BOOLEAN /\ resetAsked \in BOOLEAN
  /\ num \in Nat /\ announced \in Nat /\ told \in Nat
  /\ plugs \in 0..MaxPlugs /\ faults \in 0..MaxFaults

(* The table follows what is plugged. A disk pulled out while              *)
(* usDisk_DeviceDetectHDD was about to enter it stays in uDinfo; such an   *)
(* entry never outlives the restart the interrupt asked for. And between   *)
(* two rounds of wait_sdcard the flag sd_plugin and the table agree on the *)
(* card: usDisk_FindLocation never turns a card away, and none is offered  *)
(* to the phone that the disk task does not watch.                         *)
TableFollowsPlugs ==
  /\ (entry.hdd # "none" /\ ~diskIn) => resetAsked
  /\ pcD \in {"card", "usb", "spin"} => (sd_plugin <=> entry.card = "filled")

(* An announcement made before the phone task starts a message reaches the *)
(* phone, as long as the phone stays and the message is not lost.          *)
PendingTagIsTold ==
  \A v \in 1..(MaxPlugs + MaxFaults + 2) :
    (announced = v /\ phone /\ notifyPhone # 0 /\ pcP \in {"handle", "check"})
      ~> (told >= v \/ ~phone \/ sendFailed)

(* Every change of the disks is told to a phone that stays connected:      *)
(* "Notify Disk Change to Phone Successful".                               *)
EveryChangeIsTold ==
  \A v \in 1..(MaxPlugs + MaxFaults + 2) :
    (announced = v /\ phone) ~> (told >= v \/ ~phone \/ sendFailed)

(* A card in the slot is taken in, although wait_usbdisk polls the USB     *)
(* disk in the same task: it comes back ("*0: no usb disk *1: usb disk ok") *)
(* unless the disk refused the dialog of DeviceDetect, which leaves the    *)
(* port addressed, and nothing leads out of the loop.                      *)
CardIsTakenInUnlessRefused ==
  (cardIn /\ ~sd_plugin)
    ~> (sd_plugin \/ ~cardIn \/ (pcD = "spin" /\ port = "addressed"))
=============================================================================
