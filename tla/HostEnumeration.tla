--------------------------- MODULE HostEnumeration ---------------------------
(***************************************************************************)
(* USB_Host_ProcessNextHostState enumerates the device of a port. The      *)
(* phone task drives it for one port and the disk task for the other; the  *)
(* wait counter, the state to go to after the wait and the control request *)
(* are single variables both of them use. The port interrupt sets the      *)
(* state behind the task's back when a device comes or goes.               *)
(*                                                                         *)
(* A step is one pass of the switch; the passes that take long (port       *)
(* reset, control transfers, the dialog of the event handler) are split so *)
(* that the interrupt and the other task fit in.                           *)
(***************************************************************************)
EXTENDS Integers

CONSTANTS
  Ports,       \* ports enumerated concurrently
  Settle,      \* HOST_DEVICE_SETTLE_DELAY_MS
  Wait,        \* the 100 and 200 ms between two steps
  Wrap,        \* 2^16: WaitMSRemaining is a uint16_t
  MaxPlugs,    \* devices plugged or unplugged, at most
  MaxFaults    \* control transfers a device refuses, at most

ASSUME WaitsFit == /\ Settle \in 1..(Wrap - 1)
                   /\ Wait \in 1..(Wrap - 1)
                   /\ Wrap \in Nat
ASSUME BoundsAreNat == MaxPlugs \in Nat /\ MaxFaults \in Nat

VARIABLES
  plugged,         \* a device is in the port
  irq,             \* its port change interrupt is pending
  USB_HostState,
  WaitMSRemaining, PostWaitState,      \* the shared statics
  USB_ControlRequest,                  \* the shared request
  busy,            \* the long call the task of the port is in, or "no"
  reset, sized, addressed,  \* history: what the device under enumeration has had
  owed,            \* history: what is left of the wait the port asked for
  plugs, faults

shared  == <<WaitMSRemaining, PostWaitState, USB_ControlRequest>>
history == <<reset, sized, addressed>>
vars == <<plugged, irq, USB_HostState, shared, busy, history, owed, plugs, faults>>

States == {"WaitForDevice", "Unattached", "Powered", "WaitForDeviceSettle",
           "WaitForConnect", "DoReset", "ConfigPipe", "Default", "PostReset",
           "PostAddressSet", "Addressed", "Configured"}

Init ==
  /\ plugged = [p \in Ports |-> FALSE]
  /\ irq = [p \in Ports |-> FALSE]
  /\ USB_HostState = [p \in Ports |-> "Unattached"]
  /\ WaitMSRemaining = 0 /\ PostWaitState = "WaitForDevice"
  /\ USB_ControlRequest = "none"
  /\ busy = [p \in Ports |-> "no"]
  /\ reset = [p \in Ports |-> FALSE]
  /\ sized = [p \in Ports |-> FALSE]
  /\ addressed = [p \in Ports |-> FALSE]
  /\ owed = [p \in Ports |-> 0]
  /\ plugs = 0 /\ faults = 0

At(p, s) == busy[p] = "no" /\ USB_HostState[p] = s
GoTo(p, s) == USB_HostState' = [USB_HostState EXCEPT ![p] = s]
Enter(p, call) == busy' = [busy EXCEPT ![p] = call]
Return(p) == Enter(p, "no")

(* Variant: the counter is left at zero, where WaitForDevice stays put. *)
HOST_TASK_NO_WAIT(p, next) ==
  /\ GoTo(p, "WaitForDevice")
  /\ WaitMSRemaining' = 0
  /\ PostWaitState' = next
  /\ owed' = [owed EXCEPT ![p] = 0]

HOST_TASK_NONBLOCK_WAIT(p, next) ==
  /\ GoTo(p, "WaitForDevice")
  /\ WaitMSRemaining' = Wait
  /\ PostWaitState' = next
  /\ owed' = [owed EXCEPT ![p] = Wait]

Paid(p) == owed' = [owed EXCEPT ![p] = IF @ = 0 THEN 0 ELSE @ - 1]

-----------------------------------------------------------------------------
(* Variant: the wait ends one tick early. *)
WaitForDeviceShort(p) ==
  /\ At(p, "WaitForDevice")
  /\ WaitMSRemaining # 0
  /\ WaitMSRemaining' = WaitMSRemaining - 1
  /\ IF WaitMSRemaining' <= 1 THEN GoTo(p, PostWaitState) ELSE UNCHANGED USB_HostState
  /\ Paid(p)
  /\ UNCHANGED <<plugged, irq, PostWaitState, USB_ControlRequest, busy, history,
                 plugs, faults>>

(* WaitMSRemaining at zero: the state is left as it is. *)
WaitForDevice(p) ==
  /\ At(p, "WaitForDevice")
  /\ WaitMSRemaining # 0
  /\ WaitMSRemaining' = WaitMSRemaining - 1
  /\ IF WaitMSRemaining' = 0 THEN GoTo(p, PostWaitState) ELSE UNCHANGED USB_HostState
  /\ Paid(p)
  /\ UNCHANGED <<plugged, irq, PostWaitState, USB_ControlRequest, busy, history,
                 plugs, faults>>

Powered(p) ==
  /\ At(p, "Powered")
  /\ WaitMSRemaining' = Settle
  /\ GoTo(p, "WaitForDeviceSettle")
  /\ owed' = [owed EXCEPT ![p] = Settle]
  /\ reset' = [reset EXCEPT ![p] = FALSE]
  /\ sized' = [sized EXCEPT ![p] = FALSE]
  /\ addressed' = [addressed EXCEPT ![p] = FALSE]
  /\ UNCHANGED <<plugged, irq, PostWaitState, USB_ControlRequest, busy, plugs, faults>>

(* Variant: a counter that goes below zero. *)
SettleUnwrapped(p) ==
  /\ At(p, "WaitForDeviceSettle")
  /\ WaitMSRemaining' = WaitMSRemaining - 1
  /\ IF WaitMSRemaining # 0 THEN UNCHANGED USB_HostState ELSE GoTo(p, "WaitForConnect")
  /\ Paid(p)
  /\ UNCHANGED <<plugged, irq, PostWaitState, USB_ControlRequest, busy, history,
                 plugs, faults>>

(* `if (WaitMSRemaining--)`: the decrement happens at zero too. *)
WaitForDeviceSettle(p) ==
  /\ At(p, "WaitForDeviceSettle")
  /\ WaitMSRemaining' = (WaitMSRemaining + Wrap - 1) % Wrap
  /\ IF WaitMSRemaining # 0 THEN UNCHANGED USB_HostState ELSE GoTo(p, "WaitForConnect")
  /\ Paid(p)
  /\ UNCHANGED <<plugged, irq, PostWaitState, USB_ControlRequest, busy, history,
                 plugs, faults>>

(* Variant: the port reset is skipped. *)
WaitForConnectNoReset(p) ==
  /\ At(p, "WaitForConnect")
  /\ HOST_TASK_NONBLOCK_WAIT(p, "ConfigPipe")
  /\ UNCHANGED <<plugged, irq, USB_ControlRequest, busy, history, plugs, faults>>

WaitForConnect(p) ==
  /\ At(p, "WaitForConnect")
  /\ HOST_TASK_NONBLOCK_WAIT(p, "DoReset")
  /\ UNCHANGED <<plugged, irq, USB_ControlRequest, busy, history, plugs, faults>>

DoReset(p) ==
  /\ At(p, "DoReset")
  /\ Enter(p, "reset")
  /\ UNCHANGED <<plugged, irq, USB_HostState, shared, history, owed, plugs, faults>>

DoResetDone(p) ==
  /\ busy[p] = "reset"
  /\ Return(p)
  /\ reset' = [reset EXCEPT ![p] = TRUE]
  /\ HOST_TASK_NONBLOCK_WAIT(p, "ConfigPipe")
  /\ UNCHANGED <<plugged, irq, USB_ControlRequest, sized, addressed, plugs, faults>>

ConfigPipe(p) ==
  /\ At(p, "ConfigPipe")
  /\ GoTo(p, "Default")
  /\ UNCHANGED <<plugged, irq, shared, busy, history, owed, plugs, faults>>

(* The request is filled in, then sent: GetDescriptor for the pipe size.   *)
Default(p) ==
  /\ At(p, "Default")
  /\ USB_ControlRequest' = "GetDescriptor"
  /\ Enter(p, "describe")
  /\ UNCHANGED <<plugged, irq, USB_HostState, WaitMSRemaining, PostWaitState, history,
                 owed, plugs, faults>>

(* The pipe is configured with that size; then SetAddress. *)
PostReset(p) ==
  /\ At(p, "PostReset")
  /\ USB_ControlRequest' = "SetAddress"
  /\ Enter(p, "address")
  /\ UNCHANGED <<plugged, irq, USB_HostState, WaitMSRemaining, PostWaitState, history,
                 owed, plugs, faults>>

(* What the device has answered is whatever request was sent. *)
Transferred(p) ==
  /\ plugged[p]
  /\ sized' = [sized EXCEPT ![p] = @ \/ USB_ControlRequest = "GetDescriptor"]
  /\ addressed' = [addressed EXCEPT ![p] = @ \/ USB_ControlRequest = "SetAddress"]

DefaultDone(p) ==
  /\ busy[p] = "describe"
  /\ Transferred(p)
  /\ Return(p)
  /\ HOST_TASK_NONBLOCK_WAIT(p, "PostReset")
  /\ UNCHANGED <<plugged, irq, USB_ControlRequest, reset, plugs, faults>>

PostResetDone(p) ==
  /\ busy[p] = "address"
  /\ Transferred(p)
  /\ Return(p)
  /\ HOST_TASK_NONBLOCK_WAIT(p, "PostAddressSet")
  /\ UNCHANGED <<plugged, irq, USB_ControlRequest, reset, plugs, faults>>

(* A transfer fails because the device is gone or refuses, or there is no  *)
(* pipe left. Unless the interrupt has seen the device go, the events of a *)
(* failed enumeration follow and the interface is reset, which reports a   *)
(* device still there anew.                                                *)
EnumerationFails(p) ==
  /\ \/ /\ busy[p] \in {"describe", "address"}
        /\ ~plugged[p]
        /\ UNCHANGED faults
     \/ /\ busy[p] \in {"describe", "address"} \/ At(p, "ConfigPipe") \/ At(p, "PostReset")
        /\ faults < MaxFaults
        /\ faults' = faults + 1
  /\ Return(p)
  /\ IF USB_HostState[p] # "Unattached"
     THEN /\ GoTo(p, "Unattached")
          /\ irq' = [irq EXCEPT ![p] = plugged[p]]
     ELSE UNCHANGED <<USB_HostState, irq>>
  /\ UNCHANGED <<plugged, shared, history, owed, plugs>>

(* EnumerationComplete: the handler talks to the device at its address. *)
PostAddressSet(p) ==
  /\ At(p, "PostAddressSet")
  /\ GoTo(p, "Addressed")
  /\ Enter(p, "dialog")
  /\ UNCHANGED <<plugged, irq, shared, history, owed, plugs, faults>>

DialogDone(p) ==
  /\ busy[p] = "dialog"
  /\ Return(p)
  /\ \/ plugged[p] /\ addressed[p] /\ USB_HostState[p] = "Addressed"
        /\ GoTo(p, "Configured") /\ UNCHANGED faults
     \/ plugged[p] /\ addressed[p] /\ USB_HostState[p] = "Addressed"
        /\ faults < MaxFaults /\ faults' = faults + 1 /\ UNCHANGED USB_HostState
     \/ ~(plugged[p] /\ addressed[p] /\ USB_HostState[p] = "Addressed")
        /\ UNCHANGED <<USB_HostState, faults>>
  /\ UNCHANGED <<plugged, irq, shared, history, owed, plugs>>

Task(p) ==
  \/ WaitForDevice(p) \/ Powered(p) \/ WaitForDeviceSettle(p) \/ WaitForConnect(p)
  \/ DoReset(p) \/ DoResetDone(p) \/ ConfigPipe(p)
  \/ Default(p) \/ DefaultDone(p) \/ PostReset(p) \/ PostResetDone(p)
  \/ EnumerationFails(p) \/ PostAddressSet(p) \/ DialogDone(p)

-----------------------------------------------------------------------------
(* A device comes or goes; the controller raises its interrupt.            *)
Plug(p) ==
  /\ plugs < MaxPlugs
  /\ plugs' = plugs + 1
  /\ plugged' = [plugged EXCEPT ![p] = ~@]
  /\ irq' = [irq EXCEPT ![p] = TRUE]
  /\ UNCHANGED <<USB_HostState, shared, busy, history, owed, faults>>

(* PortStatusChangeIsr: USB_Host_Enumerate or USB_Host_DeEnumerate. *)
PortStatusChangeIsr(p) ==
  /\ irq[p]
  /\ irq' = [irq EXCEPT ![p] = FALSE]
  /\ GoTo(p, IF plugged[p] THEN "Powered" ELSE "Unattached")
  /\ UNCHANGED <<plugged, shared, busy, history, owed, plugs, faults>>

Next == \E p \in Ports : Task(p) \/ Plug(p) \/ PortStatusChangeIsr(p)

Spec == Init /\ [][Next]_vars

(* Both tasks poll without end, and interrupts are served. *)
FairSpec == Spec /\ \A p \in Ports : WF_vars(Task(p)) /\ WF_vars(PortStatusChangeIsr(p))

-----------------------------------------------------------------------------
TypeOK ==
  /\ plugged \in [Ports -> BOOLEAN] /\ irq \in [Ports -> BOOLEAN]
  /\ USB_HostState \in [Ports -> States]
  /\ WaitMSRemaining \in 0..(Wrap - 1)
  /\ PostWaitState \in States
  /\ USB_ControlRequest \in {"none", "GetDescriptor", "SetAddress"}
  /\ busy \in [Ports -> {"no", "reset", "describe", "address", "dialog"}]
  /\ reset \in [Ports -> BOOLEAN] /\ sized \in [Ports -> BOOLEAN]
  /\ addressed \in [Ports -> BOOLEAN]
  /\ owed \in [Ports -> 0..(Wrap - 1)]
  /\ plugs \in 0..MaxPlugs /\ faults \in 0..MaxFaults

(* "the device's address has now been set": a port that the task brings to *)
(* Addressed has gone through every earlier step since the task last found *)
(* it Powered.                                                             *)
AddressedInOrder ==
  \A p \in Ports :
    USB_HostState[p] \in {"PostAddressSet", "Addressed", "Configured"} =>
      reset[p] /\ sized[p] /\ addressed[p]

(* A wait lasts as long as its step asked for: no port leaves it early.    *)
WaitsAreWhole ==
  \A p \in Ports :
    USB_HostState[p] \in {"WaitForConnect", "DoReset", "ConfigPipe", "Default",
                          "PostReset", "PostAddressSet", "Addressed", "Configured"}
      => owed[p] = 0

(* A device that stays is enumerated, or refuses: no wait is forgotten.    *)
DeviceIsServed ==
  \A p \in Ports :
    plugged[p] ~> \/ ~plugged[p]
                  \/ USB_HostState[p] = "Configured"
                  \/ At(p, "Addressed")
=============================================================================
