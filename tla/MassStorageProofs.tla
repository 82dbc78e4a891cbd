------------------------- MODULE MassStorageProofs -------------------------
(***************************************************************************)
(* A command to the USB disk that is reported done was done, for every     *)
(* number of tests and every range of the tag. Nothing compares the tag of *)
(* a status block: what makes it the right one is that host and disk stay  *)
(* in step, stage by stage, and that the two tasks never have a command    *)
(* under way at the same time, because the disk is entered in the table    *)
(* when its set-up is over.                                                *)
(***************************************************************************)
EXTENDS MassStorage, TLAPS

Busy(t)   == x[t].pc # "idle"
Queued(p) == pipe[p].st = "queued"

(* The set-up and the entry keep the two tasks apart. *)
Order ==
  /\ active => dev.in
  /\ ~active => entry = "none"
  /\ \A t \in Tasks : Busy(t) => active /\ result[t] = "none"
  /\ host = "powered" => ~active
  /\ setup = "claim" => ~active
  /\ setup \in Commands \cup {"lun", "find"} => active /\ entry = "none"
  /\ setup = "fill" => active /\ entry = "marked"
  /\ Busy("disk") => setup \in Commands
  /\ Busy("phone") => entry = "filled"

(* Where no command is under way, or the disk has not taken it yet: the    *)
(* disk waits for one, or it holds a status back behind a stalled pipe.    *)
AtRest ==
  \/ dev.phase = "idle" /\ pipe["in"].st = "ok"
  \/ dev.phase = "held" /\ pipe["in"].st = "stall"

(* The disk is at the command of task t, in the given phase. *)
At(t, phase) == dev.tag = x[t].tag /\ dev.phase = phase

(* If the command reads and goes well, the data have come. *)
DataCame(t, good) == DataWay(x[t].op) = "in" /\ good => x[t].buf = x[t].tag

CbwInStep(t) ==
  IF x[t].on /\ pipe["out"].st = "ok"
  THEN /\ At(t, IF DataWay(x[t].op) = "none" THEN "status" ELSE DataWay(x[t].op))
       /\ pipe["in"].st = "ok"
  ELSE AtRest

DataInStep(t) ==
  LET way == DataWay(x[t].op) IN
  /\ way # "none"
  /\ ~x[t].on => At(t, way) /\ pipe["in"].st = "ok" /\ pipe["out"].st = "ok"
  /\ x[t].on /\ way = "in" =>
       \/ Queued("in") /\ (At(t, "in") \/ dev.phase = "idle")
       \/ pipe["in"].st = "ok" /\ At(t, "status") /\ DataCame(t, dev.good)
       \/ pipe["in"].st = "stall" /\ dev.phase = "held"
  /\ x[t].on /\ way = "out" =>
       /\ pipe["in"].st = "ok"
       /\ At(t, IF Queued("out") THEN "out" ELSE "status")

CswInStep(t) ==
  \/ ~x[t].on /\ pipe["in"].st = "ok" /\ At(t, "status") /\ DataCame(t, dev.good)
  \/ x[t].on /\ Queued("in") /\ At(t, "status") /\ DataCame(t, dev.good)
  \/ ~x[t].on /\ pipe["in"].st = "stall" /\ dev.phase = "held"
  \/ /\ x[t].on /\ pipe["in"].st = "ok" /\ dev.phase = "idle"
     /\ x[t].csw.tag = x[t].tag /\ DataCame(t, x[t].csw.good)

InStep(t) ==
  /\ x[t].tag # Old
  /\ x[t].on => selected = PipeOf(x[t])
  /\ \A p \in {"in", "out"} :
       Queued(p) => pipe[p].by = t /\ x[t].on /\ p = PipeOf(x[t])
  /\ x[t].pc = "cbw" => CbwInStep(t)
  /\ x[t].pc = "data" => DataInStep(t)
  /\ x[t].pc = "csw" => CswInStep(t)

Sync ==
  /\ ~active => dev.phase = "idle" /\ pipe["in"].st \in {"ok", "closed"}
                /\ ~Queued("out")
  /\ active => \A p \in {"in", "out"} : pipe[p].st # "closed"
  /\ active /\ (\A t \in Tasks : ~Busy(t)) => AtRest /\ ~Queued("out")
  /\ \A t \in Tasks : Busy(t) => InStep(t)

(* Nothing is said of the time between a disk that is pulled out and the   *)
(* restart that is asked for then.                                         *)
StepInv ==
  /\ ~dev.in => dev.phase = "idle"
  /\ ~resetAsked => Order /\ Sync /\ OkIsOwn

-----------------------------------------------------------------------------
LEMMA Ways ==
  ASSUME NEW op \in Ops
  PROVE  /\ DataWay(op) \in {"in", "out", "none"}
         /\ DataWay(op) = "none" <=> op = "tur"
BY DEF Ops, Commands, DataWay

(* A command without data has no data stage, and no command no transfer. *)
Stages(y) == \A t \in Tasks : /\ y[t].pc = "data" => y[t].op # "tur"
                              /\ y[t].on => y[t].pc # "idle"

TypeInv == TypeOK /\ Stages(x)

Flags == active \in BOOLEAN /\ resetAsked \in BOOLEAN

LEMMA PipeOfStage ==
  ASSUME TypeInv, NEW t \in Tasks, x[t].pc # "idle"
  PROVE  PipeOf(x[t]) \in {"in", "out"}
BY Ways DEF TypeInv, TypeOK, Stages, PipeOf, Sent

LEMMA FreshTypes ==
  /\ Idle \in Sent /\ Idle.pc = "idle" /\ ~Idle.on
  /\ \A s \in 0..Tests : Present(s) \in Disks
  /\ Absent \in Disks
  /\ BothPipes(Closed) \in [{"in", "out"} -> Pipes]
<1> USE SizesArePos DEF Ops, Commands, Tags, Tasks, Old
<1>1. Idle \in Sent /\ Idle.pc = "idle" /\ ~Idle.on
  BY DEF Idle, Sent
<1>2. ASSUME NEW s \in 0..Tests PROVE Present(s) \in Disks
  BY DEF Present, Disks
<1>3. Absent \in Disks
  <2> DEFINE d == Present(0)
  <2>1. d \in Disks
    BY <1>2
  <2>2. Absent = [d EXCEPT !.in = FALSE]
    BY DEF Absent
  <2> HIDE DEF d
  <2> QED  BY <2>1, <2>2 DEF Disks
<1>4. BothPipes(Closed) \in [{"in", "out"} -> Pipes]
  BY DEF BothPipes, Closed, Pipes
<1> QED  BY <1>1, <1>2, <1>3, <1>4

LEMMA NextTagType == tag \in Tags => NextTag \in Tags \ {Old}
BY SizesArePos DEF NextTag, Tags, Old

LEMMA SendCommandType ==
  ASSUME TypeInv, NEW t \in Tasks, NEW op \in Ops, SendCommand(t, op)
  PROVE  /\ tag' \in Tags
         /\ x' \in [Tasks -> Sent] /\ Stages(x')
         /\ result' \in [Tasks -> {"none", "ok", "failed", "error"}]
<1> USE DEF TypeInv, TypeOK, Stages
<1> DEFINE c == [Idle EXCEPT !.pc = "cbw", !.op = op, !.tag = NextTag]
<1>1. c \in Sent /\ c.pc = "cbw" /\ ~c.on
  BY FreshTypes, NextTagType DEF Sent
<1>2. CASE host = "configured" /\ active
  <2>1. x' = [x EXCEPT ![t] = c] /\ tag' = NextTag
    BY <1>2 DEF SendCommand
  <2> HIDE DEF c
  <2> QED  BY <1>1, <1>2, <2>1, NextTagType DEF SendCommand
<1>3. CASE ~(host = "configured" /\ active)
  BY <1>3 DEF SendCommand
<1> QED  BY <1>2, <1>3

LEMMA GoOnType ==
  ASSUME TypeInv, NEW t \in Tasks, NEW pc \in {"data", "csw"}, GoOn(t, pc),
         pc = "data" => x[t].op # "tur"
  PROVE  /\ x' \in [Tasks -> Sent] /\ Stages(x')
         /\ result' \in [Tasks -> {"none", "ok", "failed", "error"}]
<1> USE DEF TypeInv, TypeOK, Stages
<1> DEFINE c == [x[t] EXCEPT !.pc = pc, !.on = FALSE]
<1>1. c \in Sent /\ c.pc = pc /\ ~c.on /\ c.op = x[t].op
  BY DEF Sent
<1>2. x' = [x EXCEPT ![t] = c] /\ result' = result
  BY DEF GoOn
<1> HIDE DEF c
<1> QED  BY <1>1, <1>2

LEMMA EndsType ==
  ASSUME TypeInv, NEW t \in Tasks, NEW r \in {"ok", "failed", "error"}, Ends(t, r)
  PROVE  /\ x' \in [Tasks -> Sent] /\ Stages(x')
         /\ result' \in [Tasks -> {"none", "ok", "failed", "error"}]
<1> USE DEF TypeInv, TypeOK, Stages
<1> DEFINE c == [x[t] EXCEPT !.pc = "idle", !.on = FALSE]
<1>1. c \in Sent /\ c.pc = "idle" /\ ~c.on
  BY DEF Sent
<1>2. x' = [x EXCEPT ![t] = c] /\ result' = [result EXCEPT ![t] = r]
  BY DEF Ends
<1> HIDE DEF c
<1> QED  BY <1>1, <1>2

LEMMA StartsType ==
  ASSUME TypeInv, NEW t \in Tasks, x[t].pc # "idle", x' = [x EXCEPT ![t].on = TRUE]
  PROVE  x' \in [Tasks -> Sent] /\ Stages(x')
<1> USE DEF TypeInv, TypeOK, Stages
<1> DEFINE c == [x[t] EXCEPT !.on = TRUE]
<1>1. c \in Sent /\ c.pc = x[t].pc /\ c.op = x[t].op
  BY DEF Sent
<1>2. x' = [x EXCEPT ![t] = c]
  OBVIOUS
<1> HIDE DEF c
<1> QED  BY <1>1, <1>2

LEMMA StageType ==
  ASSUME TypeInv, NEW t \in Tasks, x[t].pc # "idle", StageOk(t) \/ StageFails(t)
  PROVE  /\ x' \in [Tasks -> Sent] /\ Stages(x')
         /\ result' \in [Tasks -> {"none", "ok", "failed", "error"}]
<1>1. x[t].op \in Ops /\ x[t].pc \in {"cbw", "data", "csw"}
  BY DEF TypeInv, TypeOK, Sent
<1>2. \/ \E pc \in {"data", "csw"} : GoOn(t, pc) /\ (pc = "data" => x[t].op # "tur")
      \/ \E r \in {"ok", "failed", "error"} : Ends(t, r)
  BY <1>1, Ways DEF StageOk, StageFails
<1> QED  BY <1>2, GoOnType, EndsType

LEMMA TypeNext == TypeInv /\ [Next]_vars => TypeInv'
<1> SUFFICES ASSUME TypeInv, [Next]_vars PROVE TypeInv'
  OBVIOUS
<1> USE SizesArePos, BoundsAreNat DEF TypeInv, TypeOK, Stages, Tasks
<1>1. ASSUME NEW t \in Tasks, Exchange(t) PROVE TypeInv'
  <2>1. CASE StartStage(t)
    <3>1. pipe' \in [{"in", "out"} -> Pipes] /\ selected' \in {"in", "out"}
      BY <2>1, PipeOfStage DEF StartStage, Streaming2, Pipes
    <3> QED  BY <2>1, <3>1, StartsType DEF StartStage, Streaming2, table
  <2>2. CASE StartAstray(t)
    BY <2>2, PipeOfStage, StartsType DEF StartAstray, Streaming2, table
  <2>3. CASE Refused(t)
    BY <2>3, PipeOfStage, StageType DEF Refused, Streaming2, table
  <2>4. CASE StageEnds(t)
    <3>1. x[t].pc # "idle"
      BY <2>4 DEF StageEnds
    <3>2. StageOk(t) \/ StageFails(t)
      BY <2>4 DEF StageEnds
    <3> QED  BY <2>4, <3>1, <3>2, StageType DEF StageEnds, table
  <2> QED  BY <1>1, <2>1, <2>2, <2>3, <2>4 DEF Exchange
<1>2. ASSUME Disk PROVE TypeInv'
  <2>1. CASE TakeCommand
    <3> DEFINE c == x[pipe["out"].by]
    <3>1. c.op \in Ops /\ c.tag \in Tags
      BY DEF Pipes, Sent
    <3>2. dev' \in Disks
      <4> DEFINE phase == IF DataWay(c.op) = "none" THEN "status" ELSE DataWay(c.op)
                 spin == IF c.op = "tur" /\ dev.spin > 0 THEN dev.spin - 1 ELSE dev.spin
      <4>1. phase \in {"status", "in", "out"}
        BY <3>1, Ways
      <4>2. spin \in 0..Tests
        BY DEF Disks
      <4>3. PICK good \in BOOLEAN :
              dev' = [dev EXCEPT !.op = c.op, !.tag = c.tag, !.good = good,
                                 !.phase = phase, !.spin = spin]
        BY <2>1, Zenon DEF TakeCommand
      <4> HIDE DEF c, phase, spin
      <4> QED  BY <3>1, <4>1, <4>2, <4>3 DEF Disks
    <3>3. pipe' \in [{"in", "out"} -> Pipes]
      BY <2>1 DEF TakeCommand, Served, Pipes
    <3>4. faults' \in 0..MaxFaults
      BY <2>1 DEF TakeCommand, Fault, NoFault
    <3> QED  BY <2>1, <3>2, <3>3, <3>4 DEF TakeCommand, table
  <2>2. CASE GiveData
    BY <2>2 DEF GiveData, Serving, Served, table,
       Disks, Sent, Pipes, Ops, Tags, Old, Commands
  <2>3. CASE StallData
    BY <2>3 DEF StallData, Serving, Served, table,
       Disks, Sent, Pipes, Ops, Tags, Old, Commands
  <2>4. CASE EndDataEarly
    BY <2>4 DEF EndDataEarly, Serving, Served, table, Present,
       Disks, Sent, Pipes, Ops, Tags, Old, Commands
  <2>5. CASE TakeData
    BY <2>5 DEF TakeData, Serving, Served, table,
       Disks, Sent, Pipes, Ops, Tags, Old, Commands
  <2>6. CASE GiveStatus
    BY <2>6 DEF GiveStatus, Serving, Served, table, Present,
       Disks, Sent, Pipes, Ops, Tags, Old, Commands
  <2>7. CASE RefuseOut
    BY <2>7 DEF RefuseOut, Serving, Served, table,
       Disks, Sent, Pipes, Ops, Tags, Old, Commands
  <2>8. CASE StatusForData
    BY <2>8 DEF StatusForData, Serving, Served, table, Present,
       Disks, Sent, Pipes, Ops, Tags, Old, Commands
  <2>9. CASE DataForStatus
    BY <2>9 DEF DataForStatus, Serving, Served, table,
       Disks, Sent, Pipes, Ops, Tags, Old, Commands
  <2> QED  BY <1>2, <2>1, <2>2, <2>3, <2>4, <2>5, <2>6, <2>7, <2>8, <2>9 DEF Disk
<1>3. ASSUME SetUp PROVE TypeInv'
  <2>1. CASE Enumerated
    BY <2>1 DEF Enumerated, NoCommand, Commands, Tags, Pipes
  <2>2. CASE Claim
    BY <2>2 DEF Claim, Configured, BothPipes, Open, Commands, Tags, Pipes
  <2>3. CASE ClaimFails
    BY <2>3 DEF ClaimFails, NoCommand, BothPipes, Open, Fault, NoFault, Commands, Tags, Pipes
  <2>4. CASE GetMaxLUN
    BY <2>4 DEF GetMaxLUN, NoCommand, Reachable, Commands, Tags, Pipes
  <2>5. CASE GetMaxLUNFails
    BY <2>5 DEF GetMaxLUNFails, NoCommand, Reachable, Unconfigure, Fault, NoFault, Commands, Tags, Pipes
  <2>6. CASE Issue
    BY <2>6, SendCommandType DEF Issue, table, Ops
  <2>7. CASE Succeeded
    BY <2>7, FreshTypes DEF Succeeded, Answer, Following, Commands
  <2>8. CASE NotReady
    BY <2>8, FreshTypes DEF NotReady, Answer, Commands
  <2>9. CASE GivenUp
    <3>1. Answer("error") \/ Answer("failed")
      BY <2>9 DEF GivenUp
    <3>2. x' \in [Tasks -> Sent] /\ Stages(x')
      BY <3>1, FreshTypes DEF Answer
    <3> QED  BY <2>9, <3>1, <3>2 DEF GivenUp, Answer, Unconfigure, Commands
  <2>10. CASE FindLocation
    BY <2>10 DEF FindLocation, NoCommand
  <2>11. CASE FillEntry
    BY <2>11 DEF FillEntry, NoCommand
  <2> QED  BY <1>3, <2>1, <2>2, <2>3, <2>4, <2>5, <2>6, <2>7, <2>8, <2>9, <2>10,
                <2>11 DEF SetUp
<1>4. CASE ReadOrWrite
  BY <1>4, SendCommandType DEF ReadOrWrite, table, Ops
<1>5. CASE AttachDisk
  BY <1>5, FreshTypes DEF AttachDisk, Plug, NoCommand
<1>6. CASE UnattachDisk
  <2>1. Flags'
    <3>1. active' = FALSE /\ resetAsked' = TRUE
      BY <1>6, Zenon DEF UnattachDisk
    <3> QED  BY <3>1, Zenon DEF Flags
  <2> QED  BY <1>6, <2>1, FreshTypes DEF Flags, UnattachDisk, Plug, Tags
<1>7. CASE PowerCycle
  <2>1. Flags'
    <3>1. active' = FALSE /\ resetAsked' = FALSE
      BY <1>7, Zenon DEF PowerCycle, Boot
    <3> QED  BY <3>1, Zenon DEF Flags
  <2> QED  BY <1>7, <2>1, FreshTypes DEF Flags, PowerCycle, Boot, Tags
<1>8. CASE UNCHANGED vars
  BY <1>8 DEF vars
<1> QED  BY <1>1, <1>2, <1>3, <1>4, <1>5, <1>6, <1>7, <1>8 DEF Next

LEMMA TypeInit == Init => TypeInv
<1> SUFFICES ASSUME Init PROVE TypeInv
  OBVIOUS
<1>1. Flags
  BY Zenon DEF Init, Flags
<1> QED  BY <1>1, SizesArePos, BoundsAreNat, FreshTypes
         DEF Flags, Init, TypeInv, TypeOK, Stages, Tags, Tasks

(* Every variable keeps its type: the tag in particular never becomes the  *)
(* value MS_Host_SendCommand leaves out.                                   *)
THEOREM TypeCorrect == Spec => []TypeOK
<1>1. Init => TypeInv
  BY TypeInit
<1>2. TypeInv => TypeOK
  BY DEF TypeInv
<1> QED  BY <1>1, <1>2, TypeNext, PTL DEF Spec

-----------------------------------------------------------------------------
LEMMA Alone ==
  ASSUME TypeInv, Order, NEW t \in Tasks, Busy(t), NEW u \in Tasks, Busy(u)
  PROVE  u = t
BY DEF Order, Tasks, Commands

(* A step of a command that goes on: it has to keep its own task in step.  *)
LEMMA Running ==
  ASSUME TypeInv, Order, Sync, OkIsOwn, NEW t \in Tasks, Busy(t), Busy(t)',
         \A u \in Tasks : u # t => x'[u] = x[u],
         UNCHANGED <<host, active, result, setup, entry, resetAsked>>, dev'.in = dev.in,
         \A p \in {"in", "out"} : pipe'[p].st # "closed",
         InStep(t)'
  PROVE  Order' /\ Sync' /\ OkIsOwn'
<1>1. active /\ result[t] = "none"
  BY DEF Order
<1>2. \A u \in Tasks : u # t => ~Busy(u) /\ ~Busy(u)'
  BY Alone DEF Busy
<1>3. Order'
  BY <1>1, <1>2 DEF Order, Tasks, Busy
<1>4. Sync'
  BY <1>1, <1>2 DEF Sync
<1>5. OkIsOwn'
  BY <1>1 DEF OkIsOwn
<1> QED  BY <1>3, <1>4, <1>5

(* A step that ends the command of a task.                                 *)
LEMMA Ending ==
  ASSUME TypeInv, Order, Sync, OkIsOwn, NEW t \in Tasks, Busy(t), ~Busy(t)',
         \A u \in Tasks : u # t => x'[u] = x[u] /\ result'[u] = result[u],
         UNCHANGED <<dev, host, active, pipe, setup, entry, resetAsked>>,
         AtRest, ~Queued("out"),
         result'[t] = "ok" => /\ x'[t].csw = [tag |-> x'[t].tag, good |-> TRUE]
                              /\ DataWay(x'[t].op) = "in" => x'[t].buf = x'[t].tag
  PROVE  Order' /\ Sync' /\ OkIsOwn'
<1>1. active
  BY DEF Order
<1>2. \A u \in Tasks : ~Busy(u)'
  BY Alone DEF Busy
<1>3. Order'
  BY <1>1, <1>2 DEF Order, Tasks, Busy
<1>4. Sync'
  BY <1>1, <1>2 DEF Sync, AtRest, Queued
<1>5. OkIsOwn'
  BY DEF OkIsOwn
<1> QED  BY <1>3, <1>4, <1>5

LEMMA ExchangeKeeps ==
  ASSUME TypeInv, Order, Sync, OkIsOwn, ~resetAsked, NEW t \in Tasks, Exchange(t)
  PROVE  Order' /\ Sync' /\ OkIsOwn'
<1> DEFINE c == x[t]
<1>1. Busy(t)
  BY DEF Exchange, StartStage, StartAstray, Refused, Streaming2, StageEnds, Busy, TypeInv, Stages
<1>2. active /\ InStep(t) /\ (\A p \in {"in", "out"} : pipe[p].st # "closed")
  BY <1>1 DEF Order, Sync
<1>3. /\ c.pc \in {"cbw", "data", "csw"} /\ PipeOf(c) \in {"in", "out"}
      /\ DataWay(c.op) \in {"in", "out", "none"}
      /\ c.pc = "data" => DataWay(c.op) \in {"in", "out"}
      /\ \A p \in {"in", "out"} : pipe[p].st \in {"ok", "queued", "stall"}
  BY <1>1, <1>2, PipeOfStage, Ways
     DEF Busy, TypeInv, TypeOK, Sent, Pipes, InStep, DataInStep
<1>4. CASE StartStage(t)
  <2>1. /\ ~c.on /\ selected' = PipeOf(c) /\ pipe[PipeOf(c)].st = "ok"
        /\ pipe' = [pipe EXCEPT ![PipeOf(c)] = [st |-> "queued", by |-> t]]
        /\ x' = [x EXCEPT ![t].on = TRUE]
        /\ UNCHANGED <<dev, host, active, result, setup, entry, resetAsked>>
    BY <1>4 DEF StartStage, Streaming2, table
  <2>2. x'[t] = [c EXCEPT !.on = TRUE] /\ \A u \in Tasks : u # t => x'[u] = x[u]
    BY <2>1 DEF TypeInv, TypeOK
  <2>3. /\ x'[t].on /\ x'[t].pc = c.pc /\ x'[t].op = c.op /\ x'[t].tag = c.tag
        /\ x'[t].buf = c.buf /\ x'[t].csw = c.csw
    BY <2>2 DEF TypeInv, TypeOK, Sent
  <2>4. /\ pipe'[PipeOf(c)] = [st |-> "queued", by |-> t]
        /\ \A p \in {"in", "out"} : p # PipeOf(c) => pipe'[p] = pipe[p]
    BY <2>1, <1>3 DEF TypeInv, TypeOK
  <2>5. InStep(t)'
    BY <1>2, <1>3, <2>1, <2>3, <2>4
    DEF InStep, CbwInStep, DataInStep, CswInStep, AtRest, At, DataCame, Queued, PipeOf
  <2> QED  BY <1>1, <1>2, <2>1, <2>2, <2>3, <2>4, <2>5, Running DEF Busy
<1>5. CASE StartAstray(t)
  BY <1>2, <1>3, <1>5 DEF StartAstray, Streaming2
<1>6. CASE Refused(t)
  <2>1. /\ ~c.on /\ pipe[PipeOf(c)].st # "ok" /\ StageFails(t)
        /\ UNCHANGED <<dev, host, active, pipe, setup, entry, resetAsked>>
    BY <1>6 DEF Refused, Streaming2, table
  <2>2. c.pc # "data" /\ AtRest /\ ~Queued("out")
    BY <1>2, <1>3, <2>1
    DEF InStep, CbwInStep, DataInStep, CswInStep, AtRest, Queued, PipeOf
  <2>3. Ends(t, "error")
    BY <2>1, <2>2 DEF StageFails
  <2> QED  BY <1>1, <2>1, <2>2, <2>3, Ending DEF Ends, Busy, TypeInv, TypeOK, Sent
<1>7. CASE StageEnds(t)
  <2> DEFINE st == pipe[PipeOf(c)].st
  <2>1. /\ c.on
        /\ \/ st = "ok" /\ StageOk(t)
           \/ st = "stall" /\ StageFails(t)
        /\ UNCHANGED <<dev, host, active, pipe, setup, entry, resetAsked>>
    <3>1. c.on /\ selected = PipeOf(c) /\ st # "closed"
      BY <1>2, <1>3, <1>7 DEF StageEnds, InStep
    <3>2. /\ \/ st \in {"ok", "closed"} /\ StageOk(t)
             \/ st = "stall" /\ StageFails(t)
             \/ st = "closed" /\ host = "unattached" /\ StageFails(t)
          /\ UNCHANGED <<dev, host, active, pipe, setup, entry, resetAsked>>
      BY <1>7, <3>1 DEF StageEnds, table
    <3> QED  BY <3>1, <3>2
  <2>2. CASE c.pc = "csw"
    <3>1. /\ st = "ok" /\ dev.phase = "idle" /\ ~Queued("out")
          /\ c.csw.tag = c.tag /\ c.tag # Old /\ DataCame(t, c.csw.good)
      BY <1>2, <1>3, <2>1, <2>2 DEF InStep, CswInStep, Queued, PipeOf
    <3>2. AtRest
      BY <2>2, <3>1 DEF AtRest, PipeOf
    <3>3. Ends(t, IF c.csw.good THEN "ok" ELSE "failed")
      BY <2>1, <2>2, <3>1 DEF StageOk
    <3>4. /\ \A u \in Tasks : u # t => x'[u] = x[u] /\ result'[u] = result[u]
          /\ x'[t] = [c EXCEPT !.pc = "idle", !.on = FALSE]
          /\ result'[t] = IF c.csw.good THEN "ok" ELSE "failed"
      BY <3>3 DEF Ends, TypeInv, TypeOK
    <3>5. /\ x'[t].pc = "idle" /\ x'[t].csw = c.csw /\ x'[t].tag = c.tag
          /\ x'[t].op = c.op /\ x'[t].buf = c.buf
      BY <3>4 DEF TypeInv, TypeOK, Sent
    <3>6. c.csw \in [tag : Tags, good : BOOLEAN]
      BY DEF TypeInv, TypeOK, Sent
    <3>7. ASSUME result'[t] = "ok"
          PROVE  c.csw = [tag |-> c.tag, good |-> TRUE] /\ (DataWay(c.op) = "in" => c.buf = c.tag)
      BY <3>1, <3>4, <3>6, <3>7 DEF DataCame
    <3> QED  BY <1>1, <2>1, <3>1, <3>2, <3>4, <3>5, <3>7, Ending DEF Busy
  <2>3. CASE c.pc = "cbw" /\ st = "stall"
    <3>1. AtRest /\ ~Queued("out")
      BY <1>2, <2>1, <2>3 DEF InStep, CbwInStep, Queued, PipeOf
    <3>2. Ends(t, "error")
      BY <2>1, <2>3 DEF StageFails
    <3> QED  BY <1>1, <2>1, <3>1, <3>2, Ending DEF Ends, Busy, TypeInv, TypeOK, Sent
  <2>4. ASSUME NEW pc \in {"data", "csw"}, GoOn(t, pc),
               \/ c.pc = "cbw" /\ st = "ok"
                  /\ pc = IF DataWay(c.op) = "none" THEN "csw" ELSE "data"
               \/ c.pc = "data" /\ pc = "csw"
        PROVE  Order' /\ Sync' /\ OkIsOwn'
    <3>1. /\ x'[t] = [c EXCEPT !.pc = pc, !.on = FALSE] /\ result' = result
          /\ \A u \in Tasks : u # t => x'[u] = x[u]
      BY <2>4 DEF GoOn, TypeInv, TypeOK
    <3>2. /\ ~x'[t].on /\ x'[t].pc = pc /\ x'[t].op = c.op /\ x'[t].tag = c.tag
          /\ x'[t].buf = c.buf
      BY <3>1 DEF TypeInv, TypeOK, Sent
    <3>3. \A p \in {"in", "out"} : ~Queued(p)
      BY <1>2, <1>3, <2>1, <2>4
      DEF InStep, CbwInStep, DataInStep, Queued, PipeOf
    <3>4. InStep(t)'
      BY <1>2, <1>3, <2>1, <2>4, <3>2, <3>3
      DEF InStep, CbwInStep, DataInStep, CswInStep, At, DataCame, Queued, PipeOf
    <3> QED  BY <1>1, <1>2, <2>1, <3>1, <3>2, <3>4, Running DEF Busy
  <2>5. CASE c.pc = "cbw" /\ st = "ok"
    BY <2>1, <2>4, <2>5 DEF StageOk
  <2>6. CASE c.pc = "data"
    BY <2>1, <2>4, <2>6 DEF StageOk, StageFails
  <2> QED  BY <1>3, <2>1, <2>2, <2>3, <2>5, <2>6
<1> QED  BY <1>4, <1>5, <1>6, <1>7 DEF Exchange

(* Who is served, and what the other pipe is at. *)
LEMMA WhoIsServed ==
  ASSUME TypeInv, Order, Sync, NEW p \in {"in", "out"}, NEW pc \in {"cbw", "data", "csw"},
         NEW phase, Serving(p, pc, phase), NEW t, t = pipe[p].by
  PROVE  /\ t \in Tasks /\ Busy(t) /\ x[t].pc = pc /\ x[t].on /\ InStep(t)
         /\ PipeOf(x[t]) = p /\ dev.phase = phase /\ dev.in /\ active
         /\ DataWay(x[t].op) \in {"in", "out", "none"}
         /\ pipe[p].st = "queued"
         /\ \A q \in {"in", "out"} : pipe[q].st # "closed" /\ (Queued(q) => q = p)
<1>1. t \in Tasks /\ Busy(t) /\ x[t].pc = pc /\ Queued(p) /\ dev.phase = phase /\ dev.in
  BY DEF Serving, Busy, Queued, TypeInv, TypeOK, Pipes
<1>2. active /\ InStep(t) /\ (\A q \in {"in", "out"} : pipe[q].st # "closed")
  BY <1>1 DEF Order, Sync
<1>3. DataWay(x[t].op) \in {"in", "out", "none"}
  BY <1>1, Ways DEF TypeInv, TypeOK, Sent
<1> QED  BY <1>1, <1>2, <1>3 DEF InStep, Queued

LEMMA ServedPipes ==
  ASSUME TypeInv, NEW p \in {"in", "out"}, NEW st, Served(p, st)
  PROVE  /\ pipe'[p].st = st /\ pipe'[p].by = pipe[p].by
         /\ \A q \in {"in", "out"} : q # p => pipe'[q] = pipe[q]
BY DEF TypeInv, TypeOK, Pipes, Served

LEMMA DiskKeeps ==
  ASSUME TypeInv, Order, Sync, OkIsOwn, ~resetAsked, Disk
  PROVE  Order' /\ Sync' /\ OkIsOwn'
<1> USE DEF InStep, CbwInStep, DataInStep, CswInStep, AtRest, At, DataCame, Queued, PipeOf
<1>1. CASE TakeCommand
  <2> PICK t \in Tasks : t = pipe["out"].by
    BY DEF TypeInv, TypeOK, Pipes
  <2> DEFINE c == x[t]
  <2>1. Serving("out", "cbw", "idle")
    BY <1>1 DEF TakeCommand
  <2>2. /\ t \in Tasks /\ Busy(t) /\ c.pc = "cbw" /\ c.on /\ InStep(t) /\ PipeOf(c) = "out"
        /\ dev.phase = "idle" /\ dev.in /\ pipe["in"].st = "ok" /\ c.op \in Ops
        /\ DataWay(c.op) \in {"in", "out", "none"}
    BY <2>1, WhoIsServed DEF TypeInv, TypeOK, Sent
  <2>3. /\ pipe'["out"].st = "ok" /\ pipe'["in"] = pipe["in"]
    BY <1>1, ServedPipes DEF TakeCommand
  <2>4. /\ dev'.in = dev.in /\ dev'.tag = c.tag
        /\ dev'.phase = IF DataWay(c.op) = "none" THEN "status" ELSE DataWay(c.op)
    BY <1>1 DEF TakeCommand, TypeInv, TypeOK, Disks
  <2>5. UNCHANGED <<host, active, selected, x, result, setup, entry, resetAsked>>
    BY <1>1 DEF TakeCommand, table
  <2>6. InStep(t)'
    BY <2>2, <2>3, <2>4, <2>5
  <2> QED  BY <2>2, <2>3, <2>4, <2>5, <2>6, Running DEF Busy
<1>2. CASE GiveData
  <2> PICK t \in Tasks : t = pipe["in"].by
    BY DEF TypeInv, TypeOK, Pipes
  <2> DEFINE c == x[t]
  <2>1. Serving("in", "data", "in")
    BY <1>2 DEF GiveData
  <2>2. /\ t \in Tasks /\ Busy(t) /\ c.pc = "data" /\ c.on /\ InStep(t)
        /\ DataWay(c.op) = "in" /\ dev.in /\ dev.tag = c.tag
        /\ pipe["out"].st \notin {"closed", "queued"}
    BY <2>1, WhoIsServed
  <2>3. pipe'["in"].st = "ok" /\ pipe'["out"] = pipe["out"]
    BY <1>2, ServedPipes DEF GiveData
  <2>4. /\ dev'.in = dev.in /\ dev'.tag = dev.tag /\ dev'.phase = "status"
        /\ dev'.good = dev.good
    BY <1>2 DEF GiveData, TypeInv, TypeOK, Disks
  <2>5. /\ \A u \in Tasks : u # t => x'[u] = x[u]
        /\ x'[t] = IF dev.good THEN [c EXCEPT !.buf = dev.tag] ELSE c
    BY <1>2, <2>2 DEF GiveData, TypeInv, TypeOK
  <2>6. /\ x'[t].pc = c.pc /\ x'[t].on = c.on /\ x'[t].op = c.op /\ x'[t].tag = c.tag
        /\ dev.good => x'[t].buf = c.tag
    <3>1. c \in Sent
      BY DEF TypeInv, TypeOK
    <3>2. c.tag = dev.tag
      BY <2>2
    <3>3. CASE dev.good
      BY <2>5, <3>1, <3>2, <3>3 DEF Sent
    <3>4. CASE ~dev.good
      BY <2>5, <3>4
    <3> HIDE DEF c
    <3> QED  BY <3>3, <3>4
  <2>7. UNCHANGED <<host, active, selected, result, setup, entry, resetAsked>>
    BY <1>2 DEF GiveData, table
  <2>8. InStep(t)'
    BY <2>2, <2>3, <2>4, <2>6, <2>7
  <2> HIDE DEF InStep
  <2> QED  BY <2>2, <2>3, <2>4, <2>5, <2>6, <2>7, <2>8, Running DEF Busy
<1>3. CASE StallData
  <2> PICK t \in Tasks : t = pipe["in"].by
    BY DEF TypeInv, TypeOK, Pipes
  <2> DEFINE c == x[t]
  <2>1. Serving("in", "data", "in")
    BY <1>3 DEF StallData
  <2>2. /\ t \in Tasks /\ Busy(t) /\ c.pc = "data" /\ c.on /\ InStep(t) /\ PipeOf(c) = "in"
        /\ dev.in /\ DataWay(c.op) = "in"
        /\ pipe["out"].st \notin {"closed", "queued"}
    BY <2>1, WhoIsServed
  <2>3. pipe'["in"].st = "stall" /\ pipe'["out"] = pipe["out"]
    BY <1>3, ServedPipes DEF StallData
  <2>4. dev'.in = dev.in /\ dev'.phase = "held"
    BY <1>3, <2>2 DEF StallData, Present, TypeInv, TypeOK, Disks
  <2>5. UNCHANGED <<host, active, selected, x, result, setup, entry, resetAsked>>
    BY <1>3 DEF StallData, table
  <2>6. InStep(t)'
    BY <2>2, <2>3, <2>4, <2>5
  <2> HIDE DEF InStep
  <2> QED  BY <2>2, <2>3, <2>4, <2>5, <2>6, Running DEF Busy
<1>4. CASE EndDataEarly
  <2> PICK t \in Tasks : t = pipe["in"].by
    BY DEF TypeInv, TypeOK, Pipes
  <2> DEFINE c == x[t]
  <2>1. Serving("in", "data", "in")
    BY <1>4 DEF EndDataEarly
  <2>2. /\ t \in Tasks /\ Busy(t) /\ c.pc = "data" /\ c.on /\ InStep(t) /\ PipeOf(c) = "in"
        /\ dev.in /\ DataWay(c.op) = "in" /\ Queued("in")
        /\ pipe["out"].st \notin {"closed", "queued"}
    BY <2>1, WhoIsServed
  <2>3. UNCHANGED pipe
    BY <1>4 DEF EndDataEarly
  <2>4. dev'.in = dev.in /\ dev'.phase = "idle"
    BY <1>4, <2>2 DEF EndDataEarly, Present, TypeInv, TypeOK, Disks
  <2>5. UNCHANGED <<host, active, selected, x, result, setup, entry, resetAsked>>
    BY <1>4 DEF EndDataEarly, table
  <2>6. InStep(t)'
    BY <2>2, <2>3, <2>4, <2>5
  <2> HIDE DEF InStep
  <2> QED  BY <2>2, <2>3, <2>4, <2>5, <2>6, Running DEF Busy
<1>5. CASE TakeData
  <2> PICK t \in Tasks : t = pipe["out"].by
    BY DEF TypeInv, TypeOK, Pipes
  <2> DEFINE c == x[t]
  <2>1. Serving("out", "data", "out")
    BY <1>5 DEF TakeData
  <2>2. /\ t \in Tasks /\ Busy(t) /\ c.pc = "data" /\ c.on /\ InStep(t) /\ PipeOf(c) = "out"
        /\ dev.in /\ DataWay(c.op) = "out" /\ dev.tag = c.tag
        /\ pipe["in"].st \notin {"closed", "queued"}
    BY <2>1, WhoIsServed
  <2>3. pipe'["out"].st \in {"ok", "stall"} /\ pipe'["in"] = pipe["in"]
    BY <1>5, ServedPipes DEF TakeData
  <2>4. dev'.in = dev.in /\ dev'.tag = dev.tag /\ dev'.phase = "status" /\ dev'.good = dev.good
    BY <1>5, <2>2 DEF TakeData, Present, TypeInv, TypeOK, Disks
  <2>5. UNCHANGED <<host, active, selected, x, result, setup, entry, resetAsked>>
    BY <1>5 DEF TakeData, table
  <2>6. InStep(t)'
    BY <2>2, <2>3, <2>4, <2>5
  <2> HIDE DEF InStep
  <2> QED  BY <2>2, <2>3, <2>4, <2>5, <2>6, Running DEF Busy
<1>6. CASE GiveStatus
  <2> PICK t \in Tasks : t = pipe["in"].by
    BY DEF TypeInv, TypeOK, Pipes
  <2> DEFINE c == x[t]
  <2>1. Serving("in", "csw", "status")
    BY <1>6 DEF GiveStatus
  <2>2. /\ t \in Tasks /\ Busy(t) /\ c.pc = "csw" /\ c.on /\ InStep(t)
        /\ dev.in /\ dev.tag = c.tag /\ DataCame(t, dev.good)
        /\ pipe["out"].st \notin {"closed", "queued"}
    BY <2>1, WhoIsServed
  <2>3. pipe'["in"].st = "ok" /\ pipe'["out"] = pipe["out"]
    BY <1>6, ServedPipes DEF GiveStatus
  <2>4. dev'.in = dev.in /\ dev'.phase = "idle"
    BY <1>6, <2>2 DEF GiveStatus, Present
  <2>5. \A u \in Tasks : u # t => x'[u] = x[u]
    BY <1>6 DEF GiveStatus, TypeInv, TypeOK
  <2>6. /\ x'[t].pc = c.pc /\ x'[t].on = c.on /\ x'[t].op = c.op /\ x'[t].tag = c.tag
        /\ x'[t].buf = c.buf /\ x'[t].csw.tag = dev.tag /\ x'[t].csw.good = dev.good
    BY <1>6 DEF GiveStatus, TypeInv, TypeOK, Sent
  <2>7. UNCHANGED <<host, active, selected, result, setup, entry, resetAsked>>
    BY <1>6 DEF GiveStatus, table
  <2>8. InStep(t)'
    BY <2>2, <2>3, <2>4, <2>6, <2>7
  <2> HIDE DEF InStep
  <2> QED  BY <2>2, <2>3, <2>4, <2>5, <2>6, <2>7, <2>8, Running DEF Busy
<1>7. CASE RefuseOut
  <2> PICK t \in Tasks : t = pipe["out"].by
    BY DEF TypeInv, TypeOK, Pipes
  <2> DEFINE c == x[t]
  <2>1. PICK pc \in {"cbw", "data"}, phase \in {"idle", "in", "status", "held"} :
          /\ Serving("out", pc, phase)
          /\ pc = "cbw" => phase # "idle"
    <3>1. CASE \E ph \in {"in", "out", "status", "held"} : Serving("out", "cbw", ph)
      <4>1. PICK ph \in {"in", "out", "status", "held"} : Serving("out", "cbw", ph)
        BY <3>1
      <4>2. ph # "out"
        BY <4>1, WhoIsServed
      <4> QED  BY <4>1, <4>2
    <3>2. CASE \E ph \in {"idle", "in", "status", "held"} : Serving("out", "data", ph)
      BY <3>2
    <3> QED  BY <1>7, <3>1, <3>2 DEF RefuseOut
  <2>2. /\ t \in Tasks /\ Busy(t) /\ c.pc = pc /\ c.on /\ InStep(t) /\ PipeOf(c) = "out"
        /\ dev.in /\ dev.phase = phase /\ Queued("out")
        /\ pipe["in"].st \notin {"closed", "queued"}
    BY <2>1, WhoIsServed
  <2>3. pc = "cbw" /\ phase = "held"
    BY <2>1, <2>2
  <2>4. pipe'["out"].st = "stall" /\ pipe'["in"] = pipe["in"]
    BY <1>7, ServedPipes DEF RefuseOut
  <2>5. UNCHANGED <<dev, host, active, selected, x, result, setup, entry, resetAsked>>
    BY <1>7 DEF RefuseOut, table
  <2>6. InStep(t)'
    BY <2>2, <2>3, <2>4, <2>5
  <2> HIDE DEF InStep
  <2> QED  BY <2>2, <2>4, <2>5, <2>6, Running DEF Busy
<1>8. CASE StatusForData
  BY <1>8, WhoIsServed DEF StatusForData
<1>9. CASE DataForStatus
  BY <1>9, WhoIsServed DEF DataForStatus
<1> QED  BY <1>1, <1>2, <1>3, <1>4, <1>5, <1>6, <1>7, <1>8, <1>9 DEF Disk

LEMMA DiskStays ==
  ASSUME TypeInv, Disk
  PROVE  dev'.in /\ UNCHANGED resetAsked
<1>1. dev.in /\ UNCHANGED resetAsked
  BY DEF Disk, TakeCommand, GiveData, StallData, EndDataEarly, TakeData, GiveStatus,
         RefuseOut, StatusForData, DataForStatus, Serving, table
<1>2. CASE TakeCommand
  BY <1>1, <1>2 DEF TakeCommand, TypeInv, TypeOK, Disks
<1>3. CASE GiveData \/ StallData \/ TakeData \/ DataForStatus
  BY <1>1, <1>3 DEF GiveData, StallData, TakeData, DataForStatus, TypeInv, TypeOK, Disks
<1>4. CASE EndDataEarly \/ GiveStatus \/ StatusForData \/ RefuseOut
  BY <1>1, <1>4 DEF EndDataEarly, GiveStatus, StatusForData, RefuseOut, Present
<1> QED  BY <1>1, <1>2, <1>3, <1>4 DEF Disk

LEMMA Quiet ==
  ASSUME Sync, OkIsOwn, UNCHANGED <<dev, active, pipe, selected, x, result, resetAsked>>
  PROVE  Sync' /\ OkIsOwn'
<1>1. Sync'
  BY DEF Sync, AtRest, Busy, Queued, InStep, CbwInStep, DataInStep, CswInStep, At, DataCame
<1>2. OkIsOwn'
  BY DEF OkIsOwn
<1> QED  BY <1>1, <1>2

LEMMA SendCommandKeeps ==
  ASSUME TypeInv, Order, Sync, OkIsOwn, ~resetAsked,
         NEW t \in Tasks, NEW op \in Ops, SendCommand(t, op),
         \A u \in Tasks : ~Busy(u),
         t = "disk" => setup \in Commands /\ active,
         t = "phone" => entry = "filled",
         UNCHANGED <<dev, host, active, pipe, selected, setup, entry, resetAsked>>
  PROVE  Order' /\ Sync' /\ OkIsOwn'
<1>1. active
  BY DEF Order, Tasks
<1>2. CASE host = "configured" /\ active
  <2>1. /\ x'[t].pc = "cbw" /\ ~x'[t].on /\ x'[t].tag = NextTag
        /\ \A u \in Tasks : u # t => x'[u] = x[u] /\ result'[u] = result[u]
        /\ result'[t] = "none"
    <3> DEFINE c == [Idle EXCEPT !.pc = "cbw", !.op = op, !.tag = NextTag]
    <3>1. c.pc = "cbw" /\ ~c.on /\ c.tag = NextTag
      BY FreshTypes DEF Sent
    <3>2. x' = [x EXCEPT ![t] = c] /\ result' = [result EXCEPT ![t] = "none"]
      BY <1>2 DEF SendCommand
    <3> HIDE DEF c
    <3> QED  BY <3>1, <3>2 DEF TypeInv, TypeOK
  <2>2. NextTag # Old
    BY NextTagType DEF TypeInv, TypeOK
  <2>3. AtRest /\ ~Queued("out")
    BY <1>1 DEF Sync
  <2>4. InStep(t)'
    BY <2>1, <2>2, <2>3 DEF InStep, CbwInStep, AtRest, Queued
  <2>5. Order'
    BY <1>1, <2>1 DEF Order, Busy, Tasks
  <2>6. Sync'
    BY <1>1, <2>1, <2>4 DEF Sync, Busy
  <2>7. OkIsOwn'
    BY <2>1 DEF OkIsOwn
  <2> QED  BY <2>5, <2>6, <2>7
<1>3. CASE ~(host = "configured" /\ active)
  <2>1. UNCHANGED x /\ result' = [result EXCEPT ![t] = "error"]
    BY <1>3 DEF SendCommand
  <2>2. Order'
    BY <1>1, <2>1 DEF Order, Busy, Tasks
  <2>3. Sync'
    BY <1>1, <2>1 DEF Sync, Busy, AtRest, Queued
  <2>4. OkIsOwn'
    BY <2>1 DEF OkIsOwn, TypeInv, TypeOK
  <2> QED  BY <2>2, <2>3, <2>4
<1> QED  BY <1>2, <1>3

LEMMA AnswerKeeps ==
  ASSUME TypeInv, Order, Sync, OkIsOwn, NEW r \in {"ok", "failed", "error"}, Answer(r),
         setup' \in {"wait", "inquiry", "tur", "capacity", "find"},
         host' # "powered"
  PROVE  Order' /\ Sync' /\ OkIsOwn'
<1>1. /\ x'["disk"].pc = "idle" /\ x'["phone"] = x["phone"]
      /\ result'["disk"] = "none" /\ result'["phone"] = result["phone"]
      /\ UNCHANGED <<dev, active, pipe, selected, entry, resetAsked>>
  BY FreshTypes DEF Answer, TypeInv, TypeOK, Tasks
<1>2. /\ setup \in Commands /\ active /\ entry = "none" /\ result["disk"] # "none"
      /\ ~Busy("disk") /\ ~Busy("phone")
  BY DEF Answer, Order, Tasks
<1>3. \A u \in Tasks : ~Busy(u) /\ ~Busy(u)'
  BY <1>1, <1>2 DEF Tasks, Busy
<1>4. Order'
  BY <1>1, <1>2, <1>3 DEF Order, Tasks, Commands
<1>5. Sync'
  BY <1>1, <1>2, <1>3 DEF Sync, AtRest, Queued
<1>6. OkIsOwn'
  BY <1>1 DEF OkIsOwn, Tasks
<1> QED  BY <1>4, <1>5, <1>6

LEMMA SetUpKeeps ==
  ASSUME TypeInv, Order, Sync, OkIsOwn, ~resetAsked, SetUp
  PROVE  Order' /\ Sync' /\ OkIsOwn'
<1>1. CASE Enumerated
  <2>1. Order'
    BY <1>1 DEF Enumerated, NoCommand, Order, Busy, Commands
  <2> QED  BY <1>1, <2>1, Quiet DEF Enumerated, NoCommand
<1>2. CASE Claim
  <2>1. /\ dev.in /\ ~active /\ active' /\ setup' = "lun" /\ pipe' = BothPipes(Open)
        /\ host' = "configured"
        /\ UNCHANGED <<dev, selected, x, result, entry, resetAsked>>
    BY <1>2 DEF Claim, Configured, Order
  <2>2. entry = "none" /\ (\A t \in Tasks : ~Busy(t) /\ ~Busy(t)')
    BY <2>1 DEF Order, Busy
  <2>3. dev.phase = "idle" /\ (\A p \in {"in", "out"} : pipe'[p].st = "ok")
    BY <2>1 DEF Sync, BothPipes, Open
  <2>4. Order'
    BY <2>1, <2>2 DEF Order, Commands, Tasks
  <2>5. Sync'
    BY <2>1, <2>2, <2>3 DEF Sync, AtRest, Queued
  <2>6. OkIsOwn'
    BY <2>1 DEF OkIsOwn
  <2> QED  BY <2>4, <2>5, <2>6
<1>3. CASE ClaimFails
  <2>1. /\ ~active /\ ~active' /\ setup' = "wait"
        /\ pipe' = pipe \/ pipe' = BothPipes(Open)
        /\ UNCHANGED <<dev, host, selected, x, result, entry, resetAsked>>
    BY <1>3 DEF ClaimFails, NoCommand, Order
  <2>2. Order'
    BY <2>1 DEF Order, Busy, Commands, Tasks
  <2>3. \A t \in Tasks : ~Busy(t)'
    BY <2>1 DEF Order, Busy
  <2>4. Sync'
    BY <2>1, <2>3 DEF Sync, BothPipes, Open, Queued
  <2>5. OkIsOwn'
    BY <2>1 DEF OkIsOwn
  <2> QED  BY <2>2, <2>4, <2>5
<1>4. CASE GetMaxLUN
  <2>1. Order'
    BY <1>4 DEF GetMaxLUN, NoCommand, Order, Busy, Commands
  <2> QED  BY <1>4, <2>1, Quiet DEF GetMaxLUN, NoCommand
<1>5. CASE GetMaxLUNFails
  <2>1. Order'
    BY <1>5 DEF GetMaxLUNFails, Unconfigure, NoCommand, Order, Busy, Commands
  <2> QED  BY <1>5, <2>1, Quiet DEF GetMaxLUNFails, NoCommand
<1>6. CASE Issue
  <2>1. setup \in Ops /\ active /\ (\A u \in Tasks : ~Busy(u))
    BY <1>6 DEF Issue, Order, Busy, Ops, Tasks
  <2> QED  BY <1>6, <2>1, SendCommandKeeps DEF Issue, table, Tasks
<1>7. CASE Succeeded
  BY <1>7, AnswerKeeps DEF Succeeded, Answer, Following, Commands, Order
<1>8. CASE NotReady
  BY <1>8, AnswerKeeps DEF NotReady, Answer, Order, Commands
<1>9. CASE GivenUp
  BY <1>9, AnswerKeeps DEF GivenUp, Answer, Unconfigure, Order
<1>10. CASE FindLocation
  <2>1. Order'
    BY <1>10 DEF FindLocation, NoCommand, Order, Busy, Commands
  <2> QED  BY <1>10, <2>1, Quiet DEF FindLocation, NoCommand
<1>11. CASE FillEntry
  <2>1. Order'
    BY <1>11 DEF FillEntry, NoCommand, Order, Busy, Commands
  <2> QED  BY <1>11, <2>1, Quiet DEF FillEntry, NoCommand
<1> QED  BY <1>1, <1>2, <1>3, <1>4, <1>5, <1>6, <1>7, <1>8, <1>9, <1>10, <1>11 DEF SetUp

LEMMA StepNext == TypeInv /\ StepInv /\ [Next]_vars => StepInv'
<1> SUFFICES ASSUME TypeInv, StepInv, [Next]_vars PROVE StepInv'
  OBVIOUS
<1>1. ASSUME NEW t \in Tasks, Exchange(t) PROVE StepInv'
  <2>1. UNCHANGED <<dev, resetAsked>>
    BY <1>1 DEF Exchange, StartStage, StartAstray, Refused, StageEnds, Streaming2, table
  <2> QED  BY <1>1, <2>1, ExchangeKeeps DEF StepInv
<1>2. CASE Disk
  BY <1>2, DiskStays, DiskKeeps DEF StepInv
<1>3. CASE SetUp
  <2>1. UNCHANGED <<dev, resetAsked>>
    BY <1>3 DEF SetUp, Enumerated, Claim, Configured, ClaimFails, GetMaxLUN, GetMaxLUNFails, Issue,
         Succeeded, NotReady, GivenUp, Answer, FindLocation, FillEntry, table
  <2> QED  BY <1>3, <2>1, SetUpKeeps DEF StepInv
<1>4. CASE ReadOrWrite
  <2>1. UNCHANGED <<dev, host, active, pipe, selected, setup, entry, resetAsked>>
    BY <1>4 DEF ReadOrWrite, table
  <2>2. ASSUME ~resetAsked PROVE Order' /\ Sync' /\ OkIsOwn'
    <3>1. Order /\ Sync /\ OkIsOwn
      BY <2>2 DEF StepInv
    <3>2. entry = "filled" /\ (\A u \in Tasks : ~Busy(u))
      BY <1>4, <3>1 DEF ReadOrWrite, Order, Busy, Tasks
    <3>3. PICK op \in {"read", "write"} : SendCommand("phone", op)
      BY <1>4 DEF ReadOrWrite
    <3> QED  BY <2>1, <2>2, <3>1, <3>2, <3>3, SendCommandKeeps DEF Ops, Tasks
  <2> QED  BY <2>1, <2>2 DEF StepInv
<1>5. CASE AttachDisk
  <2>1. /\ ~dev.in /\ dev'.in /\ dev'.phase = "idle" /\ host' = "powered"
        /\ UNCHANGED <<active, pipe, selected, x, result, setup, entry, resetAsked>>
    BY <1>5 DEF AttachDisk, Present, NoCommand
  <2>2. ASSUME ~resetAsked PROVE Order' /\ Sync' /\ OkIsOwn'
    <3>1. Order /\ Sync /\ OkIsOwn /\ ~active
      BY <2>1, <2>2 DEF StepInv, Order
    <3>2. Order'
      BY <2>1, <3>1 DEF Order, Busy, Tasks
    <3>3. Sync'
      BY <2>1, <3>1, <3>2 DEF Order, Sync, Busy, Queued
    <3>4. OkIsOwn'
      BY <2>1, <3>1 DEF OkIsOwn
    <3> QED  BY <3>2, <3>3, <3>4
  <2> QED  BY <2>1, <2>2 DEF StepInv
<1>6. CASE UnattachDisk
  BY <1>6 DEF UnattachDisk, Absent, Present, StepInv
<1>7. CASE PowerCycle
  <2>1. /\ dev'.phase = "idle" /\ host' \in {"powered", "unattached"} /\ ~active'
        /\ pipe' = BothPipes(Closed) /\ setup' = "wait" /\ entry' = "none"
        /\ x' = [t \in Tasks |-> Idle] /\ result' = [t \in Tasks |-> "none"]
    BY <1>7 DEF PowerCycle, Boot, Present, StepInv
  <2>2. \A t \in Tasks : ~Busy(t)' /\ result'[t] = "none"
    BY <2>1, FreshTypes DEF Busy
  <2>3. Order'
    BY <2>1, <2>2 DEF Order, Commands, Tasks
  <2>4. Sync'
    BY <2>1, <2>2 DEF Sync, BothPipes, Closed, Queued
  <2>5. OkIsOwn'
    BY <2>2 DEF OkIsOwn
  <2> QED  BY <2>1, <2>3, <2>4, <2>5 DEF StepInv
<1>8. CASE UNCHANGED vars
  <2>1. Order' <=> Order
    BY <1>8 DEF vars, Order, Busy
  <2>2. (Sync /\ OkIsOwn) => (Sync' /\ OkIsOwn')
    BY <1>8, Quiet DEF vars
  <2> QED  BY <1>8, <2>1, <2>2 DEF vars, StepInv
<1> QED  BY <1>1, <1>2, <1>3, <1>4, <1>5, <1>6, <1>7, <1>8 DEF Next

(* A command that is reported done was done: the status the task looked at *)
(* is the one of this command, and so are the data, although               *)
(* MS_Host_SendCommand compares no tag and the two tasks share the pipes.  *)
THEOREM OkIsOwnAlways == Spec => []OkIsOwn
<1>1. Init => TypeInv
  BY TypeInit
<1>2. Init => StepInv
  <2> SUFFICES ASSUME Init PROVE StepInv
    OBVIOUS
  <2>1. \A t \in Tasks : ~Busy(t) /\ result[t] = "none"
    BY FreshTypes DEF Init, Busy
  <2>2. dev.phase = "idle" /\ (\A p \in {"in", "out"} : pipe[p].st = "closed")
    BY DEF Init, Absent, Present, BothPipes, Closed
  <2>3. Order
    BY <2>1 DEF Init, Order, Commands, Tasks
  <2>4. Sync
    BY <2>1, <2>2 DEF Init, Sync, Queued
  <2>5. OkIsOwn
    BY <2>1 DEF OkIsOwn
  <2> QED  BY <2>2, <2>3, <2>4, <2>5 DEF StepInv
<1>3. StepInv => OkIsOwn
  BY DEF StepInv, OkIsOwn
<1> QED  BY <1>1, <1>2, <1>3, TypeNext, StepNext, PTL DEF Spec
=============================================================================
