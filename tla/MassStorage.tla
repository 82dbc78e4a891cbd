----------------------------- MODULE MassStorage -----------------------------
(***************************************************************************)
(* The USB disk on port 1: its set-up by the disk task                     *)
(* (usDisk_DeviceDetectHDD) and the reads and writes of the phone task,    *)
(* both through MS_Host_SendCommand, which sends a command block on one    *)
(* bulk pipe, moves the data and receives a status block on the other.     *)
(*                                                                         *)
(* A status block carries the tag of its command, but nobody compares it:  *)
(* that a status is the one of this command follows from the order of      *)
(* things only. No lock keeps the two tasks apart either.                  *)
(*                                                                         *)
(* A pipe is "ok", has a transfer "queued", is at "stall", or is closed.   *)
(* EhciQueue has what happens below: a transfer is one step here. The disk *)
(* obeys the bulk-only protocol; it may fail any command.                  *)
(***************************************************************************)
EXTENDS Naturals

CONSTANTS
  Tests,      \* 0x80: tests of the unit before a disk is given up
  TagLimit,   \* 0xFFFFFFFF: the tag goes back to 1 there
  MaxPlugs,   \* times the disk is plugged or pulled out, at most
  MaxFaults   \* commands and requests the disk fails, at most

ASSUME SizesArePos == Tests \in Nat \ {0} /\ TagLimit \in Nat \ (0..2)
ASSUME BoundsAreNat == MaxPlugs \in Nat /\ MaxFaults \in Nat

Tasks == {"disk", "phone"}
Old   == 0  \* in place of a tag: what is in a buffer is of no command

VARIABLES
  dev,        \* the disk: see Present
  host,       \* USB_HostState[NXP_USB_DISK]
  active,     \* UStorage_Interface[NXP_USB_DISK].State.IsActive
  tag,        \* State.TransactionTag
  pipe,       \* per direction: st, and by, the task whose transfer is queued
  selected,   \* pipeselected[NXP_USB_DISK]: the pipe that is waited for
  x,          \* per task: the MS_Host_SendCommand under way
  result,     \* per task: how its last command ended
  setup,      \* where usDisk_DeviceDetectHDD is
  loopCount,  \* of NXP_ReadDeviceCapacity
  entry,      \* uDinfo[STOR_HDD]
  resetAsked, \* the power controller has been asked for a restart
  plugs, faults

vars == <<dev, host, active, tag, pipe, selected, x, result, setup, loopCount, entry,
          resetAsked, plugs, faults>>
table == <<setup, loopCount, entry, resetAsked, plugs>>

Fault == faults < MaxFaults /\ faults' = faults + 1
NoFault == UNCHANGED faults

-----------------------------------------------------------------------------
(* The disk. It waits for a command, owes data, takes data, owes a status, *)
(* or holds the status back until the stall of its IN endpoint is cleared. *)
(* `spin` tests of the unit will fail before it is ready.                  *)
Present(s) == [in |-> TRUE, phase |-> "idle", op |-> "tur", tag |-> Old,
               good |-> TRUE, spin |-> s]
Absent == [Present(0) EXCEPT !.in = FALSE]

Closed == [st |-> "closed", by |-> "disk"]
Open   == [st |-> "ok", by |-> "disk"]
BothPipes(s) == [p \in {"in", "out"} |-> s]

Idle == [pc |-> "idle", on |-> FALSE, op |-> "tur", tag |-> Old, buf |-> Old,
         csw |-> [tag |-> Old, good |-> FALSE]]

Boot ==
  /\ active' = FALSE /\ tag' = 0
  /\ pipe' = BothPipes(Closed) /\ selected' = "out"
  /\ x' = [t \in Tasks |-> Idle] /\ result' = [t \in Tasks |-> "none"]
  /\ setup' = "wait" /\ loopCount' = 0 /\ entry' = "none"
  /\ resetAsked' = FALSE

Init ==
  /\ dev = Absent
  /\ host = "unattached"
  /\ active = FALSE /\ tag = 0
  /\ pipe = BothPipes(Closed) /\ selected = "out"
  /\ x = [t \in Tasks |-> Idle] /\ result = [t \in Tasks |-> "none"]
  /\ setup = "wait" /\ loopCount = 0 /\ entry = "none"
  /\ resetAsked = FALSE
  /\ plugs = 0 /\ faults = 0

DataWay(op) == CASE op = "tur" -> "none" [] op = "write" -> "out" [] OTHER -> "in"

(* The pipe of the stage a command is in. *)
PipeOf(c) == CASE c.pc = "cbw" -> "out" [] c.pc = "csw" -> "in" [] OTHER -> DataWay(c.op)

-----------------------------------------------------------------------------
(* MS_Host_SendCommand. *)

(* Variant: the tag may become the value it has to leave out. *)
NextTagLate == IF tag + 1 > TagLimit THEN 1 ELSE tag + 1

NextTag == IF tag + 1 = TagLimit THEN 1 ELSE tag + 1

(* MS_Host_GetInquiryData and its kin ask first whether the disk is there. *)
SendCommand(t, op) ==
  IF host = "configured" /\ active
  THEN /\ tag' = NextTag
       /\ x' = [x EXCEPT ![t] = [Idle EXCEPT !.pc = "cbw", !.op = op, !.tag = NextTag]]
       /\ result' = [result EXCEPT ![t] = "none"]
  ELSE result' = [result EXCEPT ![t] = "error"] /\ UNCHANGED <<tag, x>>

Ends(t, r) ==
  /\ x' = [x EXCEPT ![t].pc = "idle", ![t].on = FALSE]
  /\ result' = [result EXCEPT ![t] = r]

GoOn(t, pc) == x' = [x EXCEPT ![t].pc = pc, ![t].on = FALSE] /\ UNCHANGED result

(* Variant: the status block is received, but not looked at. *)
StatusReadBlindly(t) ==
  CASE x[t].pc = "cbw"  -> GoOn(t, IF DataWay(x[t].op) = "none" THEN "csw" ELSE "data")
    [] x[t].pc = "data" -> GoOn(t, "csw")
    [] x[t].pc = "csw"  -> Ends(t, "ok")

(* A stage has ended well. The status block that nothing was received into *)
(* holds whatever was on the stack.                                        *)
StageOk(t) ==
  CASE x[t].pc = "cbw"  -> GoOn(t, IF DataWay(x[t].op) = "none" THEN "csw" ELSE "data")
    [] x[t].pc = "data" -> GoOn(t, "csw")
    [] x[t].pc = "csw"  ->
         IF x[t].csw.tag = Old THEN \E r \in {"ok", "failed"} : Ends(t, r)
         ELSE Ends(t, IF x[t].csw.good THEN "ok" ELSE "failed")

(* An error in the data stage counts as a stall, after which the status is *)
(* asked for.                                                              *)
StageFails(t) == IF x[t].pc = "data" THEN GoOn(t, "csw") ELSE Ends(t, "error")

(* Pipe_Streaming2 queues its transfer on a pipe whose last one was fine.  *)
(* The pipe is selected in any case, for both tasks.                       *)
Streaming2(t) ==
  /\ x[t].pc # "idle" /\ ~x[t].on
  /\ selected' = PipeOf(x[t])
  /\ UNCHANGED <<dev, host, active, tag, table, faults>>

StartStage(t) ==
  /\ Streaming2(t)
  /\ pipe[selected'].st = "ok"
  /\ pipe' = [pipe EXCEPT ![selected'] = [st |-> "queued", by |-> t]]
  /\ x' = [x EXCEPT ![t].on = TRUE]
  /\ UNCHANGED result

(* The handle of a closed pipe is 0 and stands for the first queue head of *)
(* port 0, which may be fine: then the task waits there.                   *)
StartAstray(t) ==
  /\ Streaming2(t)
  /\ pipe[selected'].st = "closed"
  /\ x' = [x EXCEPT ![t].on = TRUE]
  /\ UNCHANGED <<pipe, result>>

(* PIPE_RWSTREAM_IncompleteTransfer. A pipe that stalled is never used     *)
(* again: HcdClearEndpointHalt is empty, and nobody calls it.              *)
Refused(t) ==
  /\ Streaming2(t)
  /\ pipe[selected'].st # "ok"
  /\ StageFails(t)
  /\ UNCHANGED pipe

(* Pipe_WaitUntilOK, which has no timeout, waits for the selected pipe.    *)
StageEnds(t) ==
  LET st == pipe[selected].st IN
  /\ x[t].on
  /\ \/ st \in {"ok", "closed"} /\ StageOk(t)
     \/ st = "stall" /\ StageFails(t)
     \/ st = "closed" /\ host = "unattached" /\ StageFails(t)
  /\ UNCHANGED <<dev, host, active, tag, pipe, selected, table, faults>>

-----------------------------------------------------------------------------
(* The disk serves what is queued on its pipes. *)

Serving(p, pc, phase) ==
  /\ pipe[p].st = "queued"
  /\ x[pipe[p].by].pc = pc
  /\ dev.in /\ dev.phase = phase

Served(p, st) == pipe' = [pipe EXCEPT ![p].st = st]

TakeCommand ==
  LET c == x[pipe["out"].by] IN
  /\ Serving("out", "cbw", "idle")
  /\ \E good \in BOOLEAN :
       /\ IF c.op = "tur" THEN good = (dev.spin = 0) /\ NoFault
          ELSE IF good THEN NoFault ELSE Fault
       /\ dev' = [dev EXCEPT !.op = c.op, !.tag = c.tag, !.good = good,
                    !.phase = IF DataWay(c.op) = "none" THEN "status" ELSE DataWay(c.op),
                    !.spin = IF c.op = "tur" /\ @ > 0 THEN @ - 1 ELSE @]
  /\ Served("out", "ok")
  /\ UNCHANGED <<host, active, selected, tag, x, result, table>>

(* All of the data, or fill data, or less, with a short packet in the last *)
(* descriptor of the transfer.                                             *)
GiveData ==
  LET t == pipe["in"].by IN
  /\ Serving("in", "data", "in")
  /\ dev' = [dev EXCEPT !.phase = "status"]
  /\ x' = IF dev.good THEN [x EXCEPT ![t].buf = dev.tag] ELSE x
  /\ Served("in", "ok")
  /\ UNCHANGED <<host, active, selected, tag, result, table, faults>>

StallData ==
  /\ Serving("in", "data", "in")
  /\ ~dev.good
  /\ dev' = [dev EXCEPT !.phase = "held"]
  /\ Served("in", "stall")
  /\ UNCHANGED <<host, active, selected, tag, x, result, table, faults>>

(* A short packet in an earlier descriptor does not end the transfer: the  *)
(* status goes into the next one and nothing comes for the last.           *)
EndDataEarly ==
  /\ Serving("in", "data", "in")
  /\ ~dev.good /\ dev.op = "read"
  /\ dev' = Present(dev.spin)
  /\ UNCHANGED <<host, active, tag, pipe, selected, x, result, table, faults>>

TakeData ==
  /\ Serving("out", "data", "out")
  /\ dev' = [dev EXCEPT !.phase = "status"]
  /\ \/ Served("out", "ok")
     \/ ~dev.good /\ Served("out", "stall")
  /\ UNCHANGED <<host, active, selected, tag, x, result, table, faults>>

GiveStatus ==
  LET t == pipe["in"].by IN
  /\ Serving("in", "csw", "status")
  /\ dev' = Present(dev.spin)
  /\ x' = [x EXCEPT ![t].csw = [tag |-> dev.tag, good |-> dev.good]]
  /\ Served("in", "ok")
  /\ UNCHANGED <<host, active, selected, tag, result, table, faults>>

(* Nothing the disk waits for: a command before the status was fetched, or *)
(* data it did not ask for.                                                *)
RefuseOut ==
  /\ \/ \E ph \in {"in", "out", "status", "held"} : Serving("out", "cbw", ph)
     \/ \E ph \in {"idle", "in", "status", "held"} : Serving("out", "data", ph)
  /\ Served("out", "stall")
  /\ UNCHANGED <<dev, host, active, selected, tag, x, result, table, faults>>

(* The status where data are waited for ends the transfer early, and data  *)
(* do not fit where a status is waited for.                                *)
StatusForData ==
  /\ Serving("in", "data", "status")
  /\ dev' = Present(dev.spin)
  /\ Served("in", "ok")
  /\ UNCHANGED <<host, active, selected, tag, x, result, table, faults>>

DataForStatus ==
  /\ Serving("in", "csw", "in")
  /\ dev' = [dev EXCEPT !.phase = "held"]
  /\ Served("in", "stall")
  /\ UNCHANGED <<host, active, selected, tag, x, result, table, faults>>

-----------------------------------------------------------------------------
(* The disk task: wait_usbdisk and usDisk_DeviceDetectHDD. *)

NoCommand == UNCHANGED <<tag, selected, x, result>>

(* The enumeration is HostEnumeration's; it ends with this event. *)
Enumerated ==
  /\ setup = "wait"
  /\ host = "powered"
  /\ host' = "addressed"
  /\ setup' = "claim"
  /\ NoCommand
  /\ UNCHANGED <<dev, active, pipe, loopCount, entry, resetAsked, plugs, faults>>

(* NXP_ClaimInterface: descriptors, pipes, configuration, with the State   *)
(* of the interface cleared in between.                                    *)
Configured ==
  /\ setup = "claim"
  /\ dev.in /\ host = "addressed"
  /\ tag' = 0
  /\ pipe' = BothPipes(Open)
  /\ active' = TRUE
  /\ host' = "configured"
  /\ setup' = "lun"
  /\ UNCHANGED <<dev, selected, x, result, loopCount, resetAsked, plugs, faults>>

(* Variant: the disk is entered as soon as it is configured, like a card.  *)
ClaimEnters == Configured /\ entry' = "filled"

Claim == Configured /\ UNCHANGED entry

(* Whatever fails here leaves the port as it is, but for the pipes that    *)
(* may be open already.                                                    *)
ClaimFails ==
  /\ setup = "claim"
  /\ IF dev.in /\ host = "addressed" THEN Fault ELSE NoFault
  /\ pipe' \in {pipe} \cup (IF dev.in THEN {BothPipes(Open)} ELSE {})
  /\ setup' = "wait"
  /\ NoCommand
  /\ UNCHANGED <<dev, host, active, loopCount, entry, resetAsked, plugs>>

Reachable == dev.in /\ host = "configured"

GetMaxLUN ==
  /\ setup = "lun"
  /\ Reachable
  /\ setup' = "sense"
  /\ NoCommand
  /\ UNCHANGED <<dev, host, active, pipe, loopCount, entry, resetAsked, plugs, faults>>

(* USB_Host_SetDeviceConfiguration(0), which may fail too. *)
Unconfigure ==
  /\ setup' = "wait"
  /\ \/ dev.in /\ host \in {"addressed", "configured"} /\ host' = "addressed"
     \/ UNCHANGED host

(* Also if the disk only stalls the request, as one with a single unit     *)
(* may: USB_Host_SendControlRequest never returns SetupStalled.            *)
GetMaxLUNFails ==
  /\ setup = "lun"
  /\ IF Reachable THEN Fault ELSE NoFault
  /\ Unconfigure
  /\ NoCommand
  /\ UNCHANGED <<dev, active, pipe, loopCount, entry, resetAsked, plugs>>

Commands == {"sense", "inquiry", "tur", "capacity"}

Issue ==
  /\ setup \in Commands
  /\ x["disk"].pc = "idle" /\ result["disk"] = "none"
  /\ SendCommand("disk", setup)
  /\ UNCHANGED <<dev, host, active, pipe, selected, table, faults>>

Following == [sense |-> "inquiry", inquiry |-> "tur", tur |-> "capacity", capacity |-> "find"]

Answer(r) ==
  /\ setup \in Commands
  /\ result["disk"] = r
  /\ result' = [result EXCEPT !["disk"] = "none"] /\ x' = [x EXCEPT !["disk"] = Idle]
  /\ UNCHANGED <<dev, active, tag, pipe, selected, entry, resetAsked, plugs, faults>>

Succeeded ==
  /\ Answer("ok")
  /\ setup' = Following[setup]
  /\ loopCount' = 0
  /\ UNCHANGED host

(* Variant: one test less. *)
NotReadyTooSoon ==
  /\ setup = "tur"
  /\ Answer("failed")
  /\ loopCount' = loopCount + 1
  /\ setup' = IF loopCount' >= Tests - 1 THEN "wait" ELSE setup
  /\ UNCHANGED host

(* A unit that is not ready is tested again, 0x80 times in all. The port   *)
(* stays configured if it is given up.                                     *)
NotReady ==
  /\ setup = "tur"
  /\ Answer("failed")
  /\ IF loopCount + 1 = Tests
     THEN loopCount' = 0 /\ setup' = "wait"
     ELSE loopCount' = loopCount + 1 /\ UNCHANGED setup
  /\ UNCHANGED host

GivenUp ==
  /\ \/ Answer("error")
     \/ setup # "tur" /\ Answer("failed")
  /\ loopCount' = 0
  /\ Unconfigure

(* usDisk_FindLocation, then memcpy over the entry. *)
FindLocation ==
  /\ setup = "find"
  /\ IF entry = "none" THEN entry' = "marked" /\ setup' = "fill"
     ELSE setup' = "wait" /\ UNCHANGED entry
  /\ NoCommand
  /\ UNCHANGED <<dev, host, active, pipe, loopCount, resetAsked, plugs, faults>>

FillEntry ==
  /\ setup = "fill"
  /\ entry' = "filled" /\ setup' = "wait"
  /\ NoCommand
  /\ UNCHANGED <<dev, host, active, pipe, loopCount, resetAsked, plugs, faults>>

-----------------------------------------------------------------------------
(* The phone task: usDisk_DiskReadSectors and usDisk_DiskWriteSectors on   *)
(* an entry that is there. An entry that is only marked is left out: the   *)
(* window is a memcpy, and what is read through its null pointer is        *)
(* anything.                                                               *)
ReadOrWrite ==
  /\ entry = "filled"
  /\ x["phone"].pc = "idle"
  /\ \E op \in {"read", "write"} : SendCommand("phone", op)
  /\ UNCHANGED <<dev, host, active, pipe, selected, table, faults>>

-----------------------------------------------------------------------------
Plug == plugs < MaxPlugs /\ plugs' = plugs + 1

AttachDisk ==
  /\ ~dev.in
  /\ Plug
  /\ \E s \in 0..Tests : dev' = Present(s)
  /\ host' = "powered"
  /\ NoCommand
  /\ UNCHANGED <<active, pipe, setup, loopCount, entry, resetAsked, faults>>

(* USB_Host_DeEnumerate closes the pipes; the event handler clears State   *)
(* and the entry and asks for a restart.                                   *)
UnattachDisk ==
  /\ dev.in
  /\ Plug
  /\ dev' = Absent
  /\ pipe' = BothPipes(Closed)
  /\ active' = FALSE /\ tag' = 0
  /\ entry' = "none"
  /\ resetAsked' = TRUE
  /\ host' = "unattached"
  /\ UNCHANGED <<selected, x, result, setup, loopCount, faults>>

PowerCycle ==
  /\ resetAsked
  /\ Boot
  /\ IF dev.in THEN \E s \in 0..Tests : dev' = Present(s) /\ host' = "powered"
     ELSE dev' = dev /\ host' = "unattached"
  /\ UNCHANGED <<plugs, faults>>

Exchange(t) == StartStage(t) \/ StartAstray(t) \/ Refused(t) \/ StageEnds(t)

Disk ==
  \/ TakeCommand \/ GiveData \/ StallData \/ EndDataEarly \/ TakeData \/ GiveStatus
  \/ RefuseOut \/ StatusForData \/ DataForStatus

SetUp ==
  \/ Enumerated \/ Claim \/ ClaimFails \/ GetMaxLUN \/ GetMaxLUNFails
  \/ Issue \/ Succeeded \/ NotReady \/ GivenUp \/ FindLocation \/ FillEntry

Next ==
  \/ \E t \in Tasks : Exchange(t)
  \/ Disk
  \/ SetUp
  \/ ReadOrWrite
  \/ AttachDisk \/ UnattachDisk \/ PowerCycle

Spec == Init /\ [][Next]_vars

(* Both tasks get the processor, and a disk that is waited for answers.    *)
FairSpec ==
  /\ Spec
  /\ WF_vars(SetUp) /\ WF_vars(Disk)
  /\ \A t \in Tasks : WF_vars(Exchange(t))

-----------------------------------------------------------------------------
Tags  == 0..TagLimit - 1
Ops   == Commands \cup {"read", "write"}
Disks == [in : BOOLEAN, phase : {"idle", "in", "out", "status", "held"}, op : Ops,
          tag : Tags, good : BOOLEAN, spin : 0..Tests]
Sent  == [pc : {"idle", "cbw", "data", "csw"}, on : BOOLEAN, op : Ops, tag : Tags,
          buf : Tags, csw : [tag : Tags, good : BOOLEAN]]
Pipes == [st : {"closed", "ok", "queued", "stall"}, by : Tasks]

TypeOK ==
  /\ dev \in Disks
  /\ host \in {"unattached", "powered", "addressed", "configured"}
  /\ active \in BOOLEAN /\ resetAsked \in BOOLEAN
  /\ tag \in Tags
  /\ selected \in {"in", "out"}
  /\ pipe \in [{"in", "out"} -> Pipes]
  /\ x \in [Tasks -> Sent]
  /\ result \in [Tasks -> {"none", "ok", "failed", "error"}]
  /\ setup \in {"wait", "claim", "lun", "find", "fill"} \cup Commands
  /\ loopCount \in 0..Tests - 1
  /\ entry \in {"none", "marked", "filled"}
  /\ plugs \in 0..MaxPlugs /\ faults \in 0..MaxFaults

(* A command that is reported done was done: the status is the one of this *)
(* command, which passed, and if it reads, the data in the buffer are its  *)
(* own. Neither compares tags nor locks a pipe; it fails once the disk has *)
(* been pulled out and lasts until the restart that is asked for then.     *)
OkIsOwn ==
  \A t \in Tasks :
    (result[t] = "ok" /\ ~resetAsked) =>
      /\ x[t].csw = [tag |-> x[t].tag, good |-> TRUE]
      /\ DataWay(x[t].op) = "in" => x[t].buf = x[t].tag

(* A disk that fails nothing, is not pulled out and gets ready within the  *)
(* tests is entered in the table, and what the phone then reads or writes  *)
(* succeeds: no wait without a timeout is one for ever.                    *)
HealthyDiskIsServed ==
  LET Ill == faults > 0 \/ resetAsked IN
  /\ (host = "powered" /\ dev.spin < Tests) ~> (entry = "filled" \/ Ill)
  /\ (x["phone"].pc # "idle") ~> (result["phone"] = "ok" \/ Ill)
=============================================================================
