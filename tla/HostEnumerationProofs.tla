----------------------- MODULE HostEnumerationProofs -----------------------
(***************************************************************************)
(* One port enumerated at a time goes through the steps in order, whatever *)
(* the interrupt does in between and however long the waits are. The       *)
(* invariant says what two ports would need to be safe together: that the  *)
(* shared statics hold what the port itself left in them.                  *)
(***************************************************************************)
EXTENDS HostEnumeration, TLAPS

(* The steps the device must have had before a state is entered. *)
HasHad(p, s) ==
  /\ s \in {"ConfigPipe", "Default", "PostReset", "PostAddressSet", "Addressed",
            "Configured"} => reset[p]
  /\ s \in {"PostReset", "PostAddressSet", "Addressed", "Configured"} => sized[p]
  /\ s \in {"PostAddressSet", "Addressed", "Configured"} => addressed[p]

(* The states that follow a wait. *)
WaitTargets == {"DoReset", "ConfigPipe", "PostReset", "PostAddressSet"}

(* The statics are the port's own. *)
OwnStatics(p) ==
  /\ USB_HostState[p] = "WaitForDevice" =>
       PostWaitState \in WaitTargets /\ HasHad(p, PostWaitState)
  /\ busy[p] = "describe" => reset[p] /\ USB_ControlRequest = "GetDescriptor"
  /\ busy[p] = "address" => reset[p] /\ sized[p] /\ USB_ControlRequest = "SetAddress"

OwnWait(p) ==
  /\ USB_HostState[p] \in {"WaitForDevice", "WaitForDeviceSettle"} =>
       owed[p] = WaitMSRemaining
  /\ USB_HostState[p] \notin {"WaitForDevice", "WaitForDeviceSettle", "Unattached",
                              "Powered"} => owed[p] = 0

InOrder(p) == HasHad(p, USB_HostState[p]) /\ OwnStatics(p)

OneInv == TypeOK /\ \A p \in Ports : InOrder(p) /\ OwnWait(p)

OnePort == \A p, q \in Ports : p = q

-----------------------------------------------------------------------------
(* The decrement of WaitMSRemaining wraps only at zero. *)
LEMMA Decrement ==
  ASSUME NEW w \in 0..(Wrap - 1)
  PROVE  /\ ((w + Wrap - 1) % Wrap) \in 0..(Wrap - 1)
         /\ w # 0 => ((w + Wrap - 1) % Wrap) = w - 1
BY WaitsFit

(* The type invariant needs nothing but itself, for any number of ports.   *)
LEMMA TypeNext == TypeOK /\ [Next]_vars => TypeOK'
<1> SUFFICES ASSUME TypeOK, [Next]_vars PROVE TypeOK'
  OBVIOUS
<1> USE WaitsFit, BoundsAreNat DEF TypeOK, States
<1>1. ASSUME NEW p \in Ports, Task(p) PROVE TypeOK'
  <2>1. CASE WaitForDevice(p)
    BY <2>1 DEF WaitForDevice, GoTo, Paid, history
  <2>2. CASE Powered(p)
    BY <2>2 DEF Powered, GoTo
  <2>3. CASE WaitForDeviceSettle(p)
    <3>1. WaitMSRemaining' \in 0..(Wrap - 1)
      BY <2>3, Decrement DEF WaitForDeviceSettle
    <3> QED  BY <2>3, <3>1 DEF WaitForDeviceSettle, GoTo, Paid, history
  <2>4. CASE WaitForConnect(p)
    BY <2>4 DEF WaitForConnect, GoTo, HOST_TASK_NONBLOCK_WAIT, history
  <2>5. CASE DoReset(p)
    BY <2>5 DEF DoReset, Enter, shared, history
  <2>6. CASE DoResetDone(p)
    BY <2>6 DEF DoResetDone, Return, Enter, GoTo, HOST_TASK_NONBLOCK_WAIT
  <2>7. CASE ConfigPipe(p)
    BY <2>7 DEF ConfigPipe, GoTo, shared, history
  <2>8. CASE Default(p)
    BY <2>8 DEF Default, Enter, history
  <2>9. CASE DefaultDone(p)
    BY <2>9 DEF DefaultDone, Transferred, Return, Enter, GoTo, HOST_TASK_NONBLOCK_WAIT
  <2>10. CASE PostReset(p)
    BY <2>10 DEF PostReset, Enter, history
  <2>11. CASE PostResetDone(p)
    BY <2>11 DEF PostResetDone, Transferred, Return, Enter, GoTo, HOST_TASK_NONBLOCK_WAIT
  <2>12. CASE EnumerationFails(p)
    BY <2>12 DEF EnumerationFails, Return, Enter, GoTo, shared, history
  <2>13. CASE PostAddressSet(p)
    BY <2>13 DEF PostAddressSet, Enter, GoTo, shared, history
  <2>14. CASE DialogDone(p)
    BY <2>14 DEF DialogDone, Return, Enter, GoTo, shared, history
  <2> QED  BY <1>1, <2>1, <2>2, <2>3, <2>4, <2>5, <2>6, <2>7, <2>8, <2>9, <2>10, <2>11,
              <2>12, <2>13, <2>14 DEF Task
<1>2. ASSUME NEW p \in Ports, Plug(p) PROVE TypeOK'
  BY <1>2 DEF Plug, shared, history
<1>3. ASSUME NEW p \in Ports, PortStatusChangeIsr(p) PROVE TypeOK'
  BY <1>3 DEF PortStatusChangeIsr, GoTo, shared, history
<1>4. CASE UNCHANGED vars
  BY <1>4 DEF vars, shared, history
<1> QED  BY <1>1, <1>2, <1>3, <1>4 DEF Next

(* Every variable of the enumeration keeps its type, with both ports under *)
(* way: the counter wraps, but never leaves its sixteen bits.              *)
THEOREM TypeCorrect == Spec => []TypeOK
<1>1. Init => TypeOK
  BY WaitsFit, BoundsAreNat DEF Init, TypeOK, States
<1> QED  BY <1>1, TypeNext, PTL DEF Spec

-----------------------------------------------------------------------------
(* With one port the statics are its own: every step of the task or the    *)
(* interrupt keeps the order of the enumeration and the length of waits.   *)
LEMMA OneInvNext ==
  ASSUME OnePort, OneInv, [Next]_vars
  PROVE  OneInv'
<1>0. TypeOK /\ TypeOK'
  BY TypeNext DEF OneInv
<1>1. ASSUME NEW p \in Ports, Task(p) PROVE InOrder(p)' /\ OwnWait(p)'
  <2> USE <1>0 DEF OneInv, TypeOK, InOrder, OwnStatics, OwnWait, HasHad, WaitTargets
  <2>0. InOrder(p) /\ OwnWait(p)
    OBVIOUS
  <2>1. CASE WaitForDevice(p)
    BY <2>0, <2>1, WaitsFit DEF WaitForDevice, At, GoTo, Paid, history
  <2>2. CASE Powered(p)
    BY <2>0, <2>2 DEF Powered, At, GoTo
  <2>3. CASE WaitForDeviceSettle(p)
    BY <2>0, <2>3, WaitsFit, Decrement DEF WaitForDeviceSettle, At, GoTo, Paid, history
  <2>4. CASE WaitForConnect(p)
    BY <2>0, <2>4 DEF WaitForConnect, At, GoTo, HOST_TASK_NONBLOCK_WAIT, history
  <2>5. CASE DoReset(p)
    BY <2>0, <2>5 DEF DoReset, At, Enter, shared, history
  <2>6. CASE DoResetDone(p)
    BY <2>0, <2>6 DEF DoResetDone, Return, Enter, GoTo, HOST_TASK_NONBLOCK_WAIT
  <2>7. CASE ConfigPipe(p)
    BY <2>0, <2>7 DEF ConfigPipe, At, GoTo, shared, history
  <2>8. CASE Default(p)
    BY <2>0, <2>8 DEF Default, At, Enter, history
  <2>9. CASE DefaultDone(p)
    BY <2>0, <2>9
    DEF DefaultDone, Transferred, Return, Enter, GoTo, HOST_TASK_NONBLOCK_WAIT
  <2>10. CASE PostReset(p)
    BY <2>0, <2>10 DEF PostReset, At, Enter, history
  <2>11. CASE PostResetDone(p)
    BY <2>0, <2>11
    DEF PostResetDone, Transferred, Return, Enter, GoTo, HOST_TASK_NONBLOCK_WAIT
  <2>12. CASE EnumerationFails(p)
    BY <2>0, <2>12 DEF EnumerationFails, Return, Enter, GoTo, shared, history
  <2>13. CASE PostAddressSet(p)
    BY <2>0, <2>13 DEF PostAddressSet, At, Enter, GoTo, shared, history
  <2>14. CASE DialogDone(p)
    BY <2>0, <2>14 DEF DialogDone, Return, Enter, GoTo, shared, history
  <2> QED  BY <1>1, <2>1, <2>2, <2>3, <2>4, <2>5, <2>6, <2>7, <2>8, <2>9, <2>10, <2>11,
              <2>12, <2>13, <2>14 DEF Task
<1>2. ASSUME NEW p \in Ports, Plug(p) PROVE InOrder(p)' /\ OwnWait(p)'
  BY <1>0, <1>2
  DEF OneInv, TypeOK, Plug, shared, history, InOrder, OwnStatics, OwnWait, HasHad
<1>3. ASSUME NEW p \in Ports, PortStatusChangeIsr(p) PROVE InOrder(p)' /\ OwnWait(p)'
  BY <1>0, <1>3
  DEF OneInv, TypeOK, PortStatusChangeIsr, GoTo, shared, history, InOrder, OwnStatics,
      OwnWait, HasHad
<1>4. CASE UNCHANGED vars
  BY <1>0, <1>4
  DEF OneInv, vars, shared, history, InOrder, OwnStatics, OwnWait, HasHad
<1>5. CASE \E p \in Ports : Task(p) \/ Plug(p) \/ PortStatusChangeIsr(p)
  <2>1. PICK p \in Ports : Task(p) \/ Plug(p) \/ PortStatusChangeIsr(p)
    BY <1>5
  <2>2. InOrder(p)' /\ OwnWait(p)'
    BY <1>1, <1>2, <1>3, <2>1
  <2>3. Ports = {p}
    BY DEF OnePort
  <2> QED  BY <1>0, <2>2, <2>3 DEF OneInv
<1> QED  BY <1>4, <1>5 DEF Next

LEMMA OneInvAlways == OnePort => (Spec => []OneInv)
<1> SUFFICES ASSUME OnePort PROVE Spec => []OneInv
  OBVIOUS
<1>1. Init => OneInv
  BY WaitsFit, BoundsAreNat
  DEF Init, OneInv, TypeOK, States, InOrder, OwnStatics, OwnWait, HasHad
<1>2. OneInv /\ [Next]_vars => OneInv'
  BY OneInvNext
<1> QED  BY <1>1, <1>2, PTL DEF Spec

(* A port that is enumerated alone is brought to Addressed only through    *)
(* the reset, the size of the control pipe and the address request,        *)
(* whatever is plugged and unplugged in between                            *)
(* (USB_Host_ProcessNextHostState).                                        *)
THEOREM OnePortInOrder == OnePort => (Spec => []AddressedInOrder)
<1> SUFFICES ASSUME OnePort PROVE Spec => []AddressedInOrder
  OBVIOUS
<1>1. OneInv => AddressedInOrder
  BY DEF OneInv, InOrder, HasHad, AddressedInOrder
<1> QED  BY <1>1, OneInvAlways, PTL

(* No wait of a port that is enumerated alone is cut short: the shared     *)
(* counter WaitMSRemaining is at zero only when all of it has passed.      *)
THEOREM OnePortWaitsWhole == OnePort => (Spec => []WaitsAreWhole)
<1> SUFFICES ASSUME OnePort PROVE Spec => []WaitsAreWhole
  OBVIOUS
<1>1. OneInv => WaitsAreWhole
  BY DEF OneInv, OwnWait, WaitsAreWhole
<1> QED  BY <1>1, OneInvAlways, PTL
=============================================================================
