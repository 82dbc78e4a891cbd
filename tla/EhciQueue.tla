----------------------------- MODULE EhciQueue -----------------------------
(***************************************************************************)
(* The transfers of one USB host: HcdControlTransfer, HcdDataTransfer and  *)
(* Pipe_Streaming2 put transfer descriptors (qTDs) from a pool of          *)
(* HCD_MAX_QTD behind queue heads, the controller works them off, and the  *)
(* interrupt frees them and reports the transfer to the task that polls    *)
(* its status. A transfer of more pieces than there are descriptors leaves *)
(* its rest in PipeStreaming, of which each host has one; the interrupt    *)
(* queues it when the last descriptor is done.                             *)
(*                                                                         *)
(* A piece stands for 512 bytes. The device takes or gives whole pieces:   *)
(* short packets are left out. The model is of port 1, where the task that *)
(* reads and writes the disk is not the one that enumerates.               *)
(***************************************************************************)
EXTENDS Integers, Sequences, FiniteSets, SequencesExt

CONSTANTS
  MaxQtd,      \* HCD_MAX_QTD: 8 in the build
  Split,       \* the literal 8 in Pipe_Streaming2
  MaxPieces,   \* longest call of Pipe_Streaming2
  MaxFaults,   \* halted transfers and slow control requests, at most
  MaxPlugs     \* times the device is pulled out, at most

ASSUME SizesArePos ==
  /\ MaxQtd \in Nat \ {0} /\ Split \in Nat \ {0} /\ MaxPieces \in Nat \ {0}
  /\ MaxFaults \in Nat /\ MaxPlugs \in Nat

Qtds  == 0..MaxQtd-1
End   == MaxQtd           \* LINK_TERMINATE
Bulk  == {"in", "out"}
Pipes == {"ctl"} \cup Bulk

VARIABLES
  qtd,     \* the pool: qTDs[]
  head,    \* qHDs[] of the three pipes; `chain` is the list from FirstQtd, `next`
           \* and `halted` are the overlay the controller works with
  rest,    \* PipeStreaming: `left` is RemainBytes, in pieces; `load` the piece at
           \* BufferAddress
  irq,     \* pending bits of USBSTS
  host,    \* USB_HostState: "unattached", "powered", "configured"
  io,      \* the call of Pipe_Streaming2: where it stands, its pipe and length
  count,   \* ByteTransfered of the pipe in use, in pieces
  result,  \* what that call returned
  ctl,     \* "idle", or "wait" in WaitForTransferComplete
  moved,   \* history: pieces of this call moved, by which queue
  sound,   \* history: this call found the queues and the pool clean
  holed,   \* history: the first part of this call failed
  torn,    \* history: the device was pulled out during this call
  lossy,   \* history: since the plug a control request was given up, or refused,
           \* or an error was served together with a completion
  faults, plugs

tasks == <<io, result, ctl>>
hist  == <<moved, sound, holed, torn, lossy>>
vars  == <<qtd, head, rest, irq, host, count, tasks, hist, faults, plugs>>

FreeQtd   == [inUse |-> FALSE, active |-> FALSE, halted |-> FALSE, ioc |-> FALSE,
              next |-> End, load |-> <<"ctl", 0>>]
ClosedQhd == [open |-> FALSE, status |-> "ok", chain |-> <<>>, next |-> End, halted |-> FALSE]
OpenQhd   == [ClosedQhd EXCEPT !.open = TRUE]

(* AllocQTD looks for the first descriptor that is not in use. *)
Avail(q) == SelectSeq([j \in 1..MaxQtd |-> j - 1], LAMBDA i : ~q[i].inUse)

(* Descriptors ids, hooked to one another, carry the given loads; the last *)
(* one interrupts if ioc.                                                  *)
Hooked(q, ids, loads, ioc) ==
  [i \in Qtds |->
     IF i \in ToSet(ids)
     THEN LET j == CHOOSE j \in DOMAIN ids : ids[j] = i IN
          [inUse |-> TRUE, active |-> TRUE, halted |-> FALSE,
           ioc |-> ioc /\ j = Len(ids),
           next |-> IF j < Len(ids) THEN ids[j + 1] ELSE End,
           load |-> loads[j]]
     ELSE q[i]]

(* Variant: what has got a descriptor is not taken off. *)
LeftOverAll(n, k) == IF k = n THEN 0 ELSE n

(* The rest that QueueQTDs leaves when k of n pieces got a descriptor. If  *)
(* only the last one did not, xferLen has become 0 all the same and the    *)
(* rest is wiped.                                                          *)
LeftOver(n, k) == IF n - k = 1 THEN 0 ELSE n - k

NoRest == [left |-> 0, load |-> <<"ctl", 0>>]

(* The piece k places behind. *)
Ahead(load, k) == <<load[1], load[2] + k>>

(* QueueQTDs: n pieces from `load` on. When the pool runs out, the pool's  *)
(* last descriptor is made to interrupt, whoever has it.                   *)
QueueQTDs(q, load, n) ==
  LET avail == Avail(q)
      k     == IF Len(avail) < n THEN Len(avail) ELSE n
      ids   == SubSeq(avail, 1, k)
      new   == Hooked(q, ids, [j \in 1..k |-> Ahead(load, j - 1)], k = n)
      left  == LeftOver(n, k)
  IN [ids  |-> ids,
      qtd  |-> IF k < n THEN [new EXCEPT ![MaxQtd - 1].ioc = TRUE] ELSE new,
      rest |-> IF left = 0 THEN NoRest ELSE [left |-> left, load |-> Ahead(load, k)]]

(* FirstQtd and the overlay point to the first descriptor. *)
Behind(h, ids) == [h EXCEPT !.chain = ids, !.next = ids[1]]

-----------------------------------------------------------------------------
(* What the interrupt does to one queue head; s holds qtd, head, rest,     *)
(* count and the pipe that is counted.                                     *)

(* How many descriptors at the front of a chain are done. *)
DoneCount(q, chain) ==
  CHOOSE k \in 0..Len(chain) :
    /\ \A j \in 1..k : ~q[chain[j]].active
    /\ k < Len(chain) => q[chain[k + 1]].active

Freed(q, chain) == [i \in Qtds |-> IF i \in ToSet(chain) THEN FreeQtd ELSE q[i]]

(* The front of the chain is freed and what a halted one did not move is   *)
(* taken from the count. `ended` is the status of a chain with an          *)
(* interrupting descriptor.                                                *)
Retired(s, p, ended) ==
  LET h    == s.head[p]
      k    == DoneCount(s.qtd, h.chain)
      done == SubSeq(h.chain, 1, k)
      bad  == {i \in ToSet(done) : s.qtd[i].halted}
      st   == IF bad # {} THEN "stall"
              ELSE IF \E i \in ToSet(done) : s.qtd[i].ioc THEN ended ELSE h.status
  IN [s EXCEPT !.qtd = Freed(s.qtd, done),
               !.count = IF p = s.pipe THEN @ - Cardinality(bad) ELSE @,
               !.head[p] = [h EXCEPT !.status = st,
                                     !.chain = SubSeq(h.chain, k + 1, Len(h.chain))]]

Interrupts(s, p) ==
  LET chain == s.head[p].chain IN
  \E j \in 1..DoneCount(s.qtd, chain) : s.qtd[chain[j]].ioc

(* A descriptor that interrupts ends the transfer, or, if PipeStreaming    *)
(* holds a rest, has that queued on this pipe.                             *)
RemoveCompletedQTD(s, p) ==
  LET more == Interrupts(s, p) /\ s.rest.left > 0
      t    == Retired(s, p, IF s.rest.left > 0 THEN s.head[p].status ELSE "ok")
      r    == QueueQTDs(t.qtd, s.rest.load, s.rest.left)
  IN IF more
     THEN [t EXCEPT !.qtd = r.qtd, !.rest = r.rest, !.head[p] = Behind(@, r.ids)]
     ELSE t

(* Variant: the descriptors behind the halted one are forgotten. *)
RemoveErrorKeepsRest(s, p) ==
  LET h == s.head[p]
      k == DoneCount(s.qtd, h.chain)
  IN IF \E j \in 1..k : s.qtd[h.chain[j]].halted
     THEN [s EXCEPT !.qtd = Freed(s.qtd, SubSeq(h.chain, 1, k)),
                    !.head[p] = [h EXCEPT !.status = "stall", !.chain = <<>>, !.halted = FALSE]]
     ELSE s

(* A halted descriptor among those done: the whole chain is freed. The     *)
(* overlay goes on pointing behind the halted one.                         *)
RemoveErrorQTD(s, p) ==
  LET h == s.head[p] IN
  IF \E j \in 1..DoneCount(s.qtd, h.chain) : s.qtd[h.chain[j]].halted
  THEN [s EXCEPT !.qtd = Freed(s.qtd, h.chain),
                 !.head[p] = [h EXCEPT !.status = "stall", !.chain = <<>>, !.halted = FALSE]]
  ELSE s

(* The asynchronous list, newest queue head first. *)
AsyncScheduleIsr(s) ==
  LET out == RemoveCompletedQTD(s, "out")
      in  == RemoveCompletedQTD(out, "in")
  IN RemoveCompletedQTD(in, "ctl")

(* Variant: errors do not interrupt. *)
UsbErrorIsrOff(s) == s

UsbErrorIsr(s) ==
  LET out == RemoveErrorQTD(s, "out")
      in  == RemoveErrorQTD(out, "in")
  IN RemoveErrorQTD(in, "ctl")

(* HcdIrqHandler: completions before errors. *)
HcdIrqHandler ==
  LET s0 == [qtd |-> qtd, head |-> head, rest |-> rest, count |-> count, pipe |-> io.pipe]
      s1 == IF "async" \in irq THEN AsyncScheduleIsr(s0) ELSE s0
      s2 == IF "error" \in irq THEN UsbErrorIsr(s1) ELSE s1
  IN /\ irq # {}
     /\ irq' = {}
     /\ qtd' = s2.qtd /\ head' = s2.head /\ rest' = s2.rest /\ count' = s2.count
     /\ lossy' = (lossy \/ irq = {"async", "error"})
     /\ UNCHANGED <<host, tasks, moved, sound, holed, torn, faults, plugs>>

-----------------------------------------------------------------------------
(* The controller. It takes the descriptor the overlay points to as soon   *)
(* as that is active.                                                      *)
CanRun(p) ==
  /\ head[p].open /\ ~head[p].halted /\ head[p].next # End
  /\ qtd[head[p].next].active

Fault == faults < MaxFaults /\ faults' = faults + 1

Complete(p) ==
  LET i == head[p].next IN
  /\ CanRun(p)
  /\ qtd' = [qtd EXCEPT ![i].active = FALSE]
  /\ head' = [head EXCEPT ![p].next = qtd[i].next]
  /\ irq' = IF qtd[i].ioc THEN irq \cup {"async"} ELSE irq
  /\ moved' = IF qtd[i].load[1] = "ctl" THEN moved
              ELSE Append(moved, [by |-> p, load |-> qtd[i].load])
  /\ UNCHANGED <<rest, host, count, tasks, sound, holed, torn, lossy, faults, plugs>>

(* The device answers with STALL, or not at all three times. *)
Halt(p) ==
  LET i == head[p].next IN
  /\ CanRun(p)
  /\ Fault
  /\ qtd' = [qtd EXCEPT ![i].active = FALSE, ![i].halted = TRUE]
  /\ head' = [head EXCEPT ![p].next = qtd[i].next, ![p].halted = TRUE]
  /\ irq' = irq \cup {"error"} \cup (IF qtd[i].ioc THEN {"async"} ELSE {})
  /\ UNCHANGED <<rest, host, count, tasks, hist, plugs>>

-----------------------------------------------------------------------------
(* HcdDataTransfer of n pieces from `load` on. The status is set first; if *)
(* the pool is empty the transfer stays queued with nothing behind it. A   *)
(* handle of a pipe closed meanwhile is refused, and so is a length of 0.  *)
HcdDataTransfer(p, load, n) ==
  LET r == QueueQTDs(qtd, load, n)
      h == [head[p] EXCEPT !.status = "queued"]
  IN IF ~head[p].open \/ n = 0
     THEN UNCHANGED <<qtd, head, rest, count>>
     ELSE IF r.ids = <<>>
     THEN head' = [head EXCEPT ![p] = h] /\ UNCHANGED <<qtd, rest, count>>
     ELSE /\ qtd' = r.qtd
          /\ head' = [head EXCEPT ![p] = Behind(h, r.ids)]
          /\ rest' = r.rest
          /\ count' = n

(* No transfer is left over: every descriptor is free, there is no rest,   *)
(* no queue head points at a descriptor and none is halted.                *)
Clean ==
  /\ \A i \in Qtds : ~qtd[i].inUse
  /\ rest.left = 0
  /\ \A p \in Pipes : head[p].next = End /\ ~head[p].halted

(* Variant: all at once. *)
AtOnce(n) == n

(* Pipe_Streaming2 sends the last piece on its own where QueueQTDs would   *)
(* lose it.                                                                *)
FirstPart(n) == IF n > 1 /\ n % Split = 1 THEN n - 1 ELSE n

(* Pipe_Streaming2 begins, if the last transfer on this pipe was fine.     *)
Streaming(p, n) ==
  /\ io.pc = "idle" /\ ctl = "idle"
  /\ host = "configured"
  /\ torn' = FALSE /\ holed' = FALSE
  /\ sound' = Clean
  /\ moved' = <<>>
  /\ IF head[p].status = "ok"
     THEN /\ HcdDataTransfer(p, <<p, 1>>, FirstPart(n))
          /\ io' = [pc |-> IF FirstPart(n) < n THEN "first" ELSE "last", pipe |-> p, n |-> n]
          /\ result' = "none"
     ELSE /\ io' = [io EXCEPT !.pipe = p, !.n = n]
          /\ result' = "incomplete"
          /\ UNCHANGED <<qtd, head, rest, count>>
  /\ UNCHANGED <<irq, host, ctl, lossy, faults, plugs>>

(* Pipe_WaitUntilOK. The handle of a closed pipe is 0: the first queue     *)
(* head of the other port, which may well be fine.                         *)
WaitedUntilOK(r) ==
  LET h == head[io.pipe] IN
  \/ r = "ok" /\ (h.open => h.status = "ok")
  \/ r = "stall" /\ h.open /\ h.status = "stall"
  \/ r = "gone" /\ ~h.open /\ host = "unattached"

(* The length left after a first part, which wraps if the count is that of *)
(* an older and longer call; a wrapped length is cut to MaxPieces.         *)
LengthLeft(n, c) == IF c <= n THEN n - c ELSE MaxPieces

(* What became of the first part is not looked at. *)
FirstPartDone ==
  /\ io.pc = "first"
  /\ \E r \in {"ok", "stall", "gone"} : WaitedUntilOK(r) /\ holed' = (r # "ok")
  /\ HcdDataTransfer(io.pipe, <<io.pipe, count + 1>>, LengthLeft(io.n, count))
  /\ io' = [io EXCEPT !.pc = "last"]
  /\ UNCHANGED <<irq, host, result, ctl, moved, sound, torn, lossy, faults, plugs>>

LastPartDone ==
  /\ io.pc = "last"
  /\ \E r \in {"ok", "stall", "gone"} : WaitedUntilOK(r) /\ result' = r
  /\ io' = [io EXCEPT !.pc = "idle"]
  /\ UNCHANGED <<qtd, head, rest, irq, host, count, ctl, hist, faults, plugs>>

(* HcdControlTransfer: setup, data if there are any, status. It overwrites *)
(* what is behind the queue head, and keeps the descriptors it has if      *)
(* there are too few.                                                      *)
ControlTransfer(k) ==
  LET avail  == Avail(qtd)
      ids    == SubSeq(avail, 1, k)
      stages == [j \in 1..k |-> <<"ctl", 0>>]
  IN /\ ctl = "idle"
     /\ host = "configured"
     /\ io.pc = "idle" \/ torn
     /\ IF Len(avail) >= k
        THEN /\ qtd' = Hooked(qtd, ids, stages, TRUE)
             /\ head' = [head EXCEPT !["ctl"] = Behind([@ EXCEPT !.status = "queued"], ids)]
             /\ ctl' = "wait"
             /\ UNCHANGED lossy
        ELSE /\ qtd' = [i \in Qtds |-> IF qtd[i].inUse THEN qtd[i]
                                       ELSE [FreeQtd EXCEPT !.inUse = TRUE, !.active = TRUE]]
             /\ lossy' = TRUE
             /\ UNCHANGED <<head, ctl>>
     /\ UNCHANGED <<rest, irq, host, count, io, result, moved, sound, holed, torn, faults, plugs>>

(* The status changes, or the device has gone and the memory is zero.      *)
ControlDone ==
  /\ ctl = "wait"
  /\ head["ctl"].status # "queued"
  /\ ctl' = "idle"
  /\ UNCHANGED <<qtd, head, rest, irq, host, count, io, result, hist, faults, plugs>>

(* After HCD_TIMEOUT the request is given up; its descriptors stay where   *)
(* they are.                                                               *)
ControlTimeout ==
  /\ ctl = "wait"
  /\ head["ctl"].status = "queued"
  /\ IF CanRun("ctl") \/ irq # {} THEN Fault ELSE UNCHANGED faults
  /\ ctl' = "idle"
  /\ lossy' = TRUE
  /\ UNCHANGED <<qtd, head, rest, irq, host, count, io, result, moved, sound, holed, torn, plugs>>

-----------------------------------------------------------------------------
(* The interrupt finds the port empty: all pipes are closed, and usSys_init *)
(* clears ehci_data, but not PipeStreaming.                                *)
Unattach ==
  /\ host # "unattached"
  /\ plugs < MaxPlugs /\ plugs' = plugs + 1
  /\ host' = "unattached"
  /\ qtd' = [i \in Qtds |-> FreeQtd]
  /\ head' = [p \in Pipes |-> ClosedQhd]
  /\ irq' = {}
  /\ torn' = TRUE
  /\ lossy' = FALSE
  /\ UNCHANGED <<rest, count, tasks, moved, sound, holed, faults>>

Attach ==
  /\ host = "unattached"
  /\ host' = "powered"
  /\ UNCHANGED <<qtd, head, rest, irq, count, tasks, hist, faults, plugs>>

(* Pipe_ConfigurePipe for the control pipe and the two bulk pipes. *)
OpenPipes ==
  /\ host = "powered"
  /\ ctl = "idle"
  /\ host' = "configured"
  /\ head' = [p \in Pipes |-> OpenQhd]
  /\ count' = 0
  /\ UNCHANGED <<qtd, rest, irq, tasks, hist, faults, plugs>>

Init ==
  /\ qtd = [i \in Qtds |-> FreeQtd]
  /\ head = [p \in Pipes |-> ClosedQhd]
  /\ rest = NoRest
  /\ irq = {}
  /\ host = "unattached"
  /\ io = [pc |-> "idle", pipe |-> "in", n |-> 0]
  /\ count = 0
  /\ result = "none"
  /\ ctl = "idle"
  /\ moved = <<>>
  /\ sound = FALSE /\ holed = FALSE /\ torn = FALSE /\ lossy = FALSE
  /\ faults = 0 /\ plugs = 0

Next ==
  \/ \E p \in Pipes : Complete(p)
  \/ \E p \in Pipes : Halt(p)
  \/ HcdIrqHandler
  \/ \E p \in Bulk, n \in 1..MaxPieces : Streaming(p, n)
  \/ FirstPartDone
  \/ LastPartDone
  \/ \E k \in {2, 3} : ControlTransfer(k)
  \/ ControlDone
  \/ ControlTimeout
  \/ Unattach
  \/ Attach
  \/ OpenPipes

Spec == Init /\ [][Next]_vars

-----------------------------------------------------------------------------
Loads == Pipes \X (0..2 * MaxPieces)

TypeOK ==
  /\ qtd \in [Qtds -> [inUse : BOOLEAN, active : BOOLEAN, halted : BOOLEAN, ioc : BOOLEAN,
                       next : Qtds \cup {End}, load : Loads]]
  /\ head \in [Pipes -> [open : BOOLEAN, status : {"ok", "queued", "stall"}, halted : BOOLEAN,
                         chain : Seq(Qtds), next : Qtds \cup {End}]]
  /\ rest \in [left : 0..MaxPieces, load : Loads]
  /\ irq \subseteq {"async", "error"}
  /\ host \in {"unattached", "powered", "configured"}
  /\ io \in [pc : {"idle", "first", "last"}, pipe : Bulk, n : 0..MaxPieces]
  /\ count \in 0..MaxPieces
  /\ result \in {"none", "ok", "stall", "gone", "incomplete"}
  /\ ctl \in {"idle", "wait"}
  /\ moved \in Seq([by : Pipes, load : Loads])
  /\ {sound, holed, torn, lossy} \subseteq BOOLEAN
  /\ faults \in 0..MaxFaults /\ plugs \in 0..MaxPlugs

Whole == moved = [k \in 1..io.n |-> [by |-> io.pipe, load |-> <<io.pipe, k>>]]

(* A call of Pipe_Streaming2 that returns OK has moved every piece, once,  *)
(* in order and on its own pipe, if it found the queues clean, its first   *)
(* part did not fail and the device stayed.                                *)
OkIsWhole ==
  (result = "ok" /\ sound /\ ~holed /\ ~torn) => Whole

(* Every descriptor in use is in the chain of exactly one queue head and   *)
(* every other in none: nothing is lost from the pool and nothing is freed *)
(* twice. It fails once a control request is given up or refused, and once *)
(* an error is served together with a completion: the completion frees the *)
(* halted descriptor before the error is looked for.                       *)
EachInOneChain ==
  lossy \/ \A i \in Qtds :
    LET owners == {p \in Pipes : i \in ToSet(head[p].chain)} IN
    IF qtd[i].inUse THEN Cardinality(owners) = 1 ELSE owners = {}

(* A call that found the queues clean never polls in vain, as long as the  *)
(* device stays: while its transfer is queued, the controller can run a    *)
(* descriptor of this pipe or an interrupt is pending. Pipe_WaitUntilOK has *)
(* no timeout, so that a lost interrupt or rest would stop the task.       *)
NobodyWaitsInVain ==
  (io.pc # "idle" /\ sound /\ ~holed /\ ~torn /\ head[io.pipe].status = "queued")
    => irq # {} \/ CanRun(io.pipe)
=============================================================================
