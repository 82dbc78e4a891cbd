# U-Storage on NXP LPC18xx: models, checks and proofs

The repository is the firmware of a small box that joins a phone (USB port 0),
a USB disk (USB port 1) and an SD card. The phone sends requests (read, write,
inquiry, firmware update, ...) over usbmux/TCP (iOS) or an accessory pipe
(Android); the box serves them from the disks and tells the phone when disks
come and go. This directory holds TLA+ models of that program, what TLC checks
of them, and proofs for the parts that can be proved.

## 1. Inventory

| Component | Code | State it keeps | Operations | What is hard about it |
|---|---|---|---|---|
| Phone task | `usStorage.c` `vs_main`, `usStorage_Handle` | none of its own | wait for the phone, connect, serve one request, notify | runs between interrupts and the disk task |
| Write request | `usStorage_diskWRITE` | counters, the carry buffer | first piece, next pieces, carried sector, answer | payload cut anywhere; two counters for one thing |
| Read request | `usStorage_diskREAD`, `diskSIGREAD`, `diskMULREAD` | counters | header, packages, errors | data and headers share the transport's buffer |
| iOS transport | `usProtocol.c` | `uSinfo`: sequence numbers, windows, `protlen`/`prohlen`, `ib_buf` | connect, send, receive, ACK, reset | flow control; a packet is handed out in parts |
| Android transport | `usProtocol.c` | the same structure | switch to accessory mode, send, receive | a packet is handed out in parts |
| Firmware update | `usFirmware.c`, `driver/upgrade.c` | SPI flash; statics `flag`, `flash_addr`, `init_flag` | data, end, info | power cuts; statics that outlive a request |
| Disk table | `usDisk.c` | `uDinfo[2]` | detect, disconnect, find, read, write | filled by a task, cleared by an interrupt |
| Disk task | `vs_main_disk`, `wait_sdcard`, `wait_usbdisk` | `sd_plugin` | card in, card out, enumerate | two duties, one loop |
| Notification | `NXP_setDiskNotifyTag` and its kin | `notifyPhone` | raise, look, clear | read-modify-write in three contexts |
| Host enumeration | `nxp_driver/Core/Host.c` | `USB_HostState[]`, static wait counter and next state, `USB_ControlRequest` | one pass of the switch, attach and detach in the interrupt | statics shared by two tasks |
| EHCI driver, pipes | `nxp_driver/Core/EHCI.c`, `Pipe*.c` | queue heads, the pool of transfer descriptors, `PipeStreaming` | open, transfer, complete, error, close | interrupt and task share the pool and the lists; long transfers go in two parts |
| Mass storage class | `MassStorageClassHost.c`, `usUsb.c`, `usDisk.c` | tag counter, `pipeselected` | set-up of a disk; command, data, status | nobody compares tags; two tasks on one pair of pipes; stalls |
| Power controller | `driver/i2c.c` | none | restart, status, battery | the restart is asked for, not waited for |
| Linux build | `usStorage.c` from line 1202, Linux parts of `usUsb.c`, `usDisk.c`, `usProtocol.c` | `usbLinux`, `usb_phone`, the list of disks | netlink events, second thread | two threads share flags and handles without a lock |
| Console, other USB classes, device mode | `driver/*.c`, `Class/Host/*`, `Core/Device*.c`, `Core/Endpoint*.c` | - | - | not used by the service |

How they meet: the phone task calls the transport, the disk table and the
firmware writer; the disk task calls the host enumeration, which calls back into
`usDisk_DeviceDetect`; the port interrupt calls
`EVENT_USB_Host_DeviceUnattached`, which clears the table, raises the tag and
asks the power controller for a restart. The two tasks share `uDinfo`,
`notifyPhone` and the statics of the host library, without locks.

What makes each part correct:

* write: the bytes of a request reach the disk in order, each once, and "ok"
  means all of them are there;
* read: the phone gets the header and the sectors asked for, or an error;
* transport: nothing beyond the phone's window, no byte sent twice or lost;
* firmware: the boot record never selects an incomplete image, whenever the
  power goes; an acknowledged transfer is in its place;
* hot plug: the table follows what is plugged, and every change is told;
* enumeration: every port goes through its own steps and waits, and a device
  that stays is served;
* EHCI: a transfer that is reported OK is whole, no descriptor is lost, nobody
  polls a pipe on which nothing is going on;
* mass storage: a command reported done got its own status and data, and a disk
  that fails nothing is taken in and served;
* Linux: flag and handles belong to the phone that is plugged, every disk event
  is told.

`PROJECT.json` lists the hazards by line with the properties that cover them.

## 2. Modules

| Module | Models | State and how it maps to the code |
|---|---|---|
| `WriteService` | what the phone may rely on (abstract) | sectors wanted, sectors stored, answer |
| `WriteRequest` | `usStorage_diskWRITE` | `len`, `curSize`, `secSize`, `sector`, `addr` are the function's; `pos` and `pay` say where the payload stands; a byte is its offset in the request, so a misplaced byte shows |
| `WriteRequestProofs` | theorems about it | |
| `RequestService` | what the phone may rely on when it sends one request after the other (abstract) | the newest request, its units, how many of them were taken to be written, answer |
| `CommandStream` | `usProtocol_ConnectPhone`, both `RecvPackage` functions, `resetReceive`, `usStorage_Handle`, the loop of `usStorage_diskWRITE`, and the phone | `pc` says which of these functions the phone task is in; `sport`, `tx_seq`, `tx_ack`, `protlen`, `prohlen`, `hSize` are the code's; `taken` is what a write has taken of its request, `twice` what `curSize` is ahead of that; `pipe` holds the USB packets the box has not read; `conn` to `ackDue` are the phone's TCP |
| `CommandStreamProofs` | theorems about it | |
| `ReadService` | what the phone may rely on when it reads (abstract) | cells wanted, what was sent of the answer, how it ended |
| `ReadRequest` | `usStorage_diskREAD` with `usProtocol_iosSendPackage`, `send_tcp`, `receive_ack`, and the phone's TCP | `rsize`, `addr`, `size`, `curSize`, `win` are the functions'; `buf` is `ib_buf`; `sent` is what the phone got; `held`, `due`, `acks` are the phone |
| `ReadRequestProofs` | theorems about it | |
| `Firmware` | `usStorage_firmwareUP`, `wirteToFlash`, `fw_upgrade`, `spi_write`, `set_flage` | the flash as cells (a cell is a page), the statics, the request's counters |
| `FirmwareProofs` | theorems about it | |
| `DiskNotify` | `vs_main`, `vs_main_disk`, the USB events, `uDinfo`, `notifyPhone` | one program counter per task; `++` is a load and a store; the interrupt is one step |
| `DiskNotifyProofs` | theorems about it | |
| `HostEnumeration` | `USB_Host_ProcessNextHostState` and the port interrupt | a state and a `busy` mark per port; the statics once for all ports |
| `HostEnumerationProofs` | theorems about it | |
| `EhciQueue` | `HcdDataTransfer`, `HcdControlTransfer`, `Pipe_Streaming2`, the completion and the error interrupt, opening and closing of pipes | `qtd` is the pool, `head` the queue heads with the overlay the controller works with, `rest` is `PipeStreaming`, `irq` the pending bits of USBSTS; controller, device and tasks are actions of their own |
| `MassStorage` | `usDisk_DeviceDetectHDD` with all it calls in `usUsb.c`, and `MS_Host_SendCommand` with command, data and status | per task the command under way (`x`); `pipe`, `selected` (`pipeselected`), `tag`, `entry` are shared as in the code; the disk obeys the bulk-only protocol |
| `MassStorageProofs` | theorems about it | |
| `LinuxService` | `main` and `vs_main_disk` of the Linux build | `flag`, `action`, `count` are `usbLinux`; `osPriv`, `dev` are the two copies of the handle; a phone is the number of its plugging, a handle that of its opening |
| `LinuxServiceProofs` | theorems about it | |

How they fit together: `WriteRequest` and `ReadRequest` are the bodies of two
requests that `CommandStream` dispatches; `EhciQueue` is what a transfer of
`MassStorage` does, and `MassStorage` what "the dialog with the disk" of
`DiskNotify` does; `HostEnumeration` is how a port becomes "configured" in
these. `LinuxService` replaces `DiskNotify` in the Linux build.

Actions carry the names of the functions or of the cases they stand for. Where
a function calls something slow (disk, USB, flash), the step ends before the
call if other contexts can run meanwhile. Operators introduced by a comment
"Variant:" are wrong versions of the operator that follows them; nothing uses
them in a behaviour, they serve to see that a property notices the mistake.

`WriteRequest` leaves out what `RecvPackage` does inside: it returns any piece
the transport can return. The variable `segmented` says whether the phone puts
this request into several packets: within one packet
`usProtocol_iosRecvPackage` and `usProtocol_aoaRecvPackage` hand out multiples
of a sector except at the end.

`CommandStream` is the other half of that: it receives, and takes little
interest in what is written. Payload counts in USB packets, a write consists of
those packets, and a request of one packet stands for the commands without
payload. `taken` are the packets that went to the disk or into the carried sector.
How many bytes a packet has is left open, and with it what `curSize` counts
twice: any piece with which a packet ends and that is at most two USB packets
long may be one that does not fill the carried sector (`CountedTwice`). What is
missing of a request whose bytes are counted correctly are whole sectors, so one
such piece cannot make up for it; from the second one on the loop may end
(`Ends`) or go on. `early` is a history variable: a request was ended like that
before all of it was received. So `CommandStream` has every early end of the
code, and some more; `WriteRequest` has the bytes.
Payload never looks like a header. `slipped` is a history variable, too: a
handshake went wrong without the code noticing it, either because its last ACK
was not sent after `tx_ack` had been advanced, or because the answer it accepted
belonged to an earlier SYN (`Stale`), as ports are never compared; the next reset
ends it. The phone's TCP ends a
connection on a second SYN for the same port, and it forgets its connections on
a version request.

`ReadRequest` counts in cells; a cell stands for the bytes of a header, a sector
is two cells, the window comes in units of two cells because `th_win << 8` is
always more than a header. It is the build for this chip: a receive has no
timeout (`usUsb_BlukPacketReceiveTmout` drops it), and a piece of 0 bytes turns
into a piece of -512, which `send_small_packet` refuses. The overlapping
`memcpy` of `send_big_packet` is taken to copy upwards, as the C library of the
chip does.

`Firmware` compares images cell by cell where the code compares MD5 sums. Power
may go between any two pages. `badWrite` and `ignored` are history variables:
they remember that a page failed to be programmed, or that a failure went
unnoticed by the code (ignored results of erase calls, `flag` set before
`init_spi_info` fails).

`EhciQueue` counts in pieces of 512 bytes and the device takes or gives whole
pieces. It has port 1, where the task that reads and writes is not the one that
enumerates; the port interrupt of an unplug may come anywhere. The history
variables `sound`, `holed`, `torn` and `lossy` name the circumstances under
which the code is known not to keep a promise (see the observations below);
each property that uses one says so.

`MassStorage` takes a transfer as one step of the disk and one of the task that
polls. The disk may fail any command and stall a data stage; it has one command
under way and answers a second one by a stall, as the protocol asks.

`LinuxService` has one disk; the polls of the plug thread in
`storage_handle_diskplug` are counted (ten in the build), the 50 ms between them
are not. A request of the
phone and an iPhone's set-up dialog are one step each. `crossed`, `unseen` and
`slow` are history variables of the same kind.

## 3. Runs

| Run | Configuration | Question | Outcome |
|---|---|---|---|
| `write_whole` | sectors of 4 bytes, requests up to 3, in one packet or several | layout on the disk, nothing lost, ends, implements `WriteService` ("ok" means stored for a request in one packet) | holds |
| `write_ack` | the same | is every acknowledged request stored? | violated |
| `read_whole` | sectors of 2 cells, requests up to 4, buffer of 2 sectors, window of 4 cells, 1 fault | stream in order, implements `ReadService`, ends | holds |
| `firmware` | 2 images of 3 cells, sub-blocks and writes of 2, requests of 2 and 3, 2 faults | good image selected, no page programmed twice, acknowledged image in place and writer closed | holds |
| `disk_notify` | 4 plug events, tag limit 2, 1 fault | table follows what is plugged, a pending tag is told, a card is taken in | holds |
| `notify_lost` | the same | is every change told? | violated |
| `command_stream` | buffer of 2 USB packets, segments of up to 3, window of 4, requests of 1 and 6, 2 requests, 3 ports, sequence numbers modulo 8, 2 faults | taken requests unmixed, implements `RequestService`, acknowledgements not ahead, requests served, connection comes back | holds |
| `host_one_port` | 1 port, 5 plug events, 2 faults, waits of 2, counter of 5 values | order of steps, whole waits, devices served | holds |
| `host_two_ports` | 2 ports, no faults | order of steps | violated |
| `ehci_queue` | 3 descriptors, split after 3 pieces, calls of up to 5, 1 fault, 1 unplug | OK means whole, no descriptor lost or freed twice, nobody polls in vain | holds |
| `linux_service` | 3 plug events, patience of 1 round, counter of 3 values | flag, handles and table follow what is plugged, events told, phone served | holds |
| `mass_storage` | 2 tests of the unit, tags of 3 values, 3 plug events, 1 fault | a command reported done was done, a healthy disk is served | holds |

The violated ones are disagreements between the program and what its comments
or messages say of it; `PROJECT.json` quotes both under "findings":

* `write_ack`: bytes of a sector that is filled by several short pieces are
  counted twice in `curSize`. The loop ends early, and a request is
  acknowledged with its tail missing.
* `notify_lost`: the tag is cleared after the table has been read and sent.
* `host_two_ports`: two ports share one wait counter and one next state.

### Observations

Things seen while the models were written. They contradict no text of the
repository, with one exception: `GetMaxLUN` under "Mass storage", for which there
is no run, as the stages of a control transfer are not modelled. Where a property
depends on an observation, its comment says so.

Transport and requests

* The phone's window is not respected: every package starts from the last window
  that was read, `receive_ack` takes the oldest acknowledgement in the pipe, and
  neither subtracts what is in flight (`usProtocol.c:556`).
* A request longer than the image that comes with its first buffer in one leaves
  the writer open after success (`usFirmware.c:424`); if such a request is
  followed by a page that fails, an END and a restart that is missed, even
  `SelectedImageIsComplete` is lost. `Lengths` leaves these requests out, and the
  theorems say `RequestsFit`.
* After a request that `write_ack` shows to be ended early, the rest of it is
  still in the pipe. In mid-packet it is handed to `usStorage_Handle`, whose
  receive takes it for a header and resets the connection, with whatever the
  phone has asked meanwhile; or it is skipped and `tx_ack` stays behind by
  what was skipped. No fault is needed for that; `HealthyRequestIsServed` excepts
  it by `early`.
* `resetReceive` waits without a timeout for a phone that may have nothing left
  to say; `CommandStream` does not claim that it ends.
* A disk that refuses to be set up keeps the disk task in `wait_usbdisk`, and a
  card waits for good: the exception in `CardIsTakenInUnlessRefused`.

EHCI

* `PipeStreaming`, the rest of a long transfer, is one for all pipes of a host,
  and neither a stall nor an unplug clears it (`EHCI.c:576`).
* A control request that times out or is refused leaves its descriptors in the
  chain (`EHCI.c:807`); they are never freed.
* Completion and error in one interrupt: the halted descriptor is freed before
  the error is looked for, the queue head stays halted, and the second part of a
  long transfer hangs (`EHCI.c:945`).
* `while ((isValidLink(TdLink), pQtd = ...) && ...)` (`EHCI.c:972`, `1012`): the
  comma discards the test, so the end of a chain is read as a descriptor at
  address 0.
* After an unplug the pipe handle is 0, which is also a valid index: its status
  is reported as OK (`Pipe.c:88`). The status of the first part of a long
  transfer is ignored (`PipeStream.c:245`).

Mass storage

* `MassStorageClassHost.h:158` says that GetMaxLUN returns no error if the device
  stalls the request; `NXP_GetMaxLUN` refuses the disk then, as
  `USB_Host_SendControlRequest` never returns `SetupStalled`.
* A stalled data stage is returned as 1, which is `PipeStalled`, so that the
  status is read all the same; `HcdClearEndpointHalt` is empty, so after one
  stalled read the disk answers only errors until it is plugged anew.
* Tag, signature and residue of a status block are not looked at. That a status
  is the right one follows from the order of things only, see section 4.
* A unit that is given up after its tests leaves the port configured and is
  never tried again; a request to an entry that is only marked works on a null
  `os_priv`.

Linux

* Main learns late that its phone is gone; its reset of the flag and its close
  then hit the phone that was plugged meanwhile, and the handle is closed twice
  (`usStorage.c:1724`, `usProtocol.c:1578`). The thread of the events in turn
  closes handles main is using. `crossed` marks these runs.
* An event that the plug thread sets between main's send and main's reset is lost
  (`usStorage.c:1731`); it only hurts if the plug thread has given up waiting.
* When the second open of a new disk fails, its record is freed and its entry
  stays (`usDisk.c:459`), in the first scan as well as on an event. A disk switched between the first scan and the bind of
  the socket is not seen.
* The plug thread may send a notification between two parts of an answer
  (`usStorage.c:1472`); sends of libusb have no timeout here.

### Bounds

Three sectors of four bytes let a carried sector be opened, filled by two short
pieces and closed with another sector behind it. Four sectors through a buffer of
two give the single read, a multiple read and one that ends in a part of a
buffer; a window of four cells is exhausted within a package, and it makes a small
piece be followed by a larger one, so that the moves in the buffer overlap. In
`firmware` an image needs two writes and two sub-blocks, a write can start in the
middle of a sub-block, and after two faults everything can be repeated. Four plug
events let a disk go while the task takes it in and a phone stay or leave
meanwhile; the tag reaches its limit. Five plug events on one port let devices
come and go in the middle of an enumeration. In `command_stream` the longest
request of six units takes at least two packets, the longest of which does not fit
the buffer, leaves room for two pieces that are counted twice in front of one that
is then cut off, and overflows sequence numbers and window; two faults let the recovery from a failure fail
itself, and the second request meets what is left of the first. In `ehci_queue` a
transfer of five pieces is split, and its second part meets a pool that control
transfers and the halted transfer have thinned out. Three events in
`linux_service` exchange a phone while main is still at the old one, or take a
disk away while its addition is being told. Three plug events in `mass_storage`
replace a disk during its set-up; two faults instead of one, and tags up to 4,
were run once and show nothing else. `MaxPlugs`, `MaxEvents`, `MaxFaults`,
`MaxAcks`, `MaxAsks`, `MaxPieces` and `Cells` are the bounds that are not in the
code, each in a guard.

Deadlock is checked in the runs of `WriteRequest`, `ReadRequest` and `Firmware`.
The other systems come to rest once the allowed plug events or requests are used
up.

### Fairness

`WriteRequest`: a receive returns a piece as long as the phone owes one, and the
task runs. `ReadRequest`: the task runs and the phone's TCP acknowledges what it
is sent; the phone's program need not read. `CommandStream`: the task goes on by
steps that are not errors, and the phone's TCP sends what it has and
acknowledges; its program need not ask. `DiskNotify`: both tasks are scheduled
(they have FreeRTOS priorities and delays) and the power controller serves a
request. A receive has no timeout, so fairness of the phone task includes that a
connected phone keeps sending requests; without that nothing is ever told, which
is listed as a hazard. `HostEnumeration`: each task keeps polling its port and
interrupts are served. `MassStorage`: both tasks run and the disk answers.
`LinuxService`: both threads are scheduled (weak fairness of their steps), but no
step that waits for the phone has to end; the open of a phone that is plugged and
the dialog with it succeed if they are tried again and again (strong fairness, as
each may fail any number of times). `Firmware` and `EhciQueue` claim safety only.

## 4. Proofs

`tlapm` checks all of the eight modules; nothing is assumed but the named
assumptions on constants (sizes are positive, waits fit the counter, the region
holds an image).

`WriteRequestProofs` is about every sector size, request length and cut of the
payload. `DiskHoldsPrefix` and `NoByteLost` are not inductive: that a piece goes
to the right place depends on where the payload stands. The invariant proved by
`LayoutInvariant` adds the relation between `pos`, `addr` and `secSize`, and what
the carry buffer holds; each action either moves whole sectors from the payload
to the disk or bytes into the buffer, and both keep that relation. `TypeCorrect`,
`DiskHoldsPrefixAlways` and `NoByteLostAlways` follow. `WholeAckedIsStoredAlways`
says that an acknowledged request is stored unless it was `segmented`: `curSize`
then never counts a byte twice; `write_ack` shows that the exception is needed.
`ServiceImplemented` shows that every step of the handler is a step of
`WriteService` or leaves it unchanged.

`ReadRequestProofs` proves `TypeCorrect`, `StreamInOrderAlways` and
`EndFitsAnswerAlways` for every size of sector, buffer, packet and window, any
number of failures, and whatever the phone acknowledges. That a request is whole
sectors, and what a package may be, is `Shape`; the type invariant needs it, since
`addr` counts sectors and `rsize` cells. `Stream` is the argument of an in-place
copy: what a package has not sent yet lies where it was read to, because a piece
that moves to the front ends before the rest begins, and what was sent is what
comes before it. While SIGREAD's header goes out the data already lie in the
buffer, and only a header on the stack of its own leaves them alone.
`ServiceImplemented` shows that every step is a step of `ReadService` or leaves it
unchanged. It needs one more invariant, `MoreToSend`: `piece` is entered only with
something left to send, so a header that `GiveUp` drops has not gone out. A read
whose header SIGREAD has lost counts as broken from there on; what it still sends
is no part of an answer, and the service promises nothing about it.
`EndFitsAnswer`, what was sent fits how the read ended, is part of the inductive
invariant; the run does not list it, since the service says it step by step.

`HostEnumerationProofs` proves `TypeCorrect` for any set of ports, and
`OnePortInOrder` and `OnePortWaitsWhole` for a single port with waits of any
length: whatever state the port waits for is one whose earlier steps are done,
the shared next state is its own, and what is left of the wait is what the shared
counter says. With two ports the order fails, as `host_two_ports` shows.
The marks `reset`, `sized` and `addressed` are cleared when the task finds the
port powered; an attach that the interrupt reports during a long step is
overwritten by the end of the step, so the marks tell about the enumeration the
task believes to be in.

`DiskNotifyProofs` proves `TypeCorrect` and `TableFollowsPlugsAlways` for any
number of plug events and failures. The tag may pass its limit between the store
and the clamp, once for each plug event the interrupt reports meanwhile
(`TagBound`). The table needs to know how an entry comes about: the disk task is
at work on one only after it saw the port powered, and a disk that goes from then
on makes the interrupt ask for the restart (`HddInv`); for the card, `sd_plugin`
and the entry change in the same task (`CardInv`).

`FirmwareProofs` proves, for all sizes of image, sub-block and write (also where
they do not divide each other), all cuts, and any number of failures and power
cuts, the type invariant, `NoPageProgrammedTwiceAlways`,
`SelectedImageIsCompleteAlways` and `AckedImageInPlaceAlways`. The argument is
about the frontier, the cell after the last programmed one: unless something has
failed, it and the rest of its sub-block are erased (`Frontier`), so a write that
starts in the middle of a sub-block needs no erase there. `Behind` says that what
lies before the frontier is the image. `OpenIsWrong` is the heart of the third
theorem: while the writer is open, the MD5 check cannot pass. Between requests
there is either an erased cell within the image or, after a broken transfer, the
first cell of an image at a place where another belongs. As the record is erased
when the writer opens (`RecordErased`), it is never there with an incomplete
image. The last two theorems are of the form `RequestsFit => ...`: no request is
longer than the image. Without that they are false, see the observations.

`MassStorageProofs` proves `TypeCorrect` and `OkIsOwnAlways`: although nobody
compares tags and no lock keeps the tasks apart, a command reported done got its
own status and data. `Order` says that the two tasks never have a command under
way at once, since the entry is filled only when the set-up is over and a request
needs a filled entry. `Sync` says that host and disk are in step, stage by stage:
with no command under way the disk waits for one, or holds a status back behind a
stalled pipe, which then answers nothing. Both hold until a disk is pulled out,
which asks for a restart.

`CommandStreamProofs` proves `TypeCorrect`, `WriteIsOneRequestAlways`,
`OkIsWholeAlways`, `ServiceImplemented` and `AckNotAheadAlways` for every size of
buffer, packet, window and request, both kinds of phones, and any number of
broken requests and failed resets. Neither of the properties of writes is
inductive: that the next piece belongs to the request in hand depends on what
lies in the pipe, that of older requests included. `StreamInv` says what can lie
there: the last unit the box holds, followed by the pipe, is in order of
requests and of units; a packet of iOS is whole; payload that follows no header
goes on from the unit before it unless a mark of an aborted connection lies
between; over AOA a request has no gaps at all. `HeldInv` says that the piece and what
was taken are neighbours in one request and that the rest of the packet, by
`protlen` and `prohlen`, is what the pipe begins with. `OkInv` adds what may be
left in the pipe of a request that was answered: nothing, or, when its pieces
were counted twice, the rest without its first unit, which no dispatch starts a
request with. A step either takes packets
from the front, appends at the end, or cuts what is there, so the proof rests on
lemmas about such streams (`Suffix`, `AddBare`, `SkipBare`, `AddSegment`). All
keep the model's assumption that payload never looks like a header.

`ServiceImplemented` shows that every step of the receive path is a step of
`RequestService` or leaves it unchanged. The rest of a broken request may be read
long after, and a whole one that the phone has given up may be served late; the
service says that neither touches what was taken of the newest request. This needs
`NewerInv`: what is in the pipe, and the piece about to be dispatched, comes after
the unit that was taken last. A dispatch therefore starts a later request than
the one before, and is the first to take anything of it; only `Store` goes
on with a request, and it adds to it. A request that the phone was told has failed
may still be taken afterwards, which the service allows and the code does. An
"ok" of the box is the service's `Acknowledge` when all of the request was taken,
and its `Miscount` when pieces were counted twice: then the service only says that
the request was begun and that nothing more of it is taken. `OkIsWhole` says the
same of one state; it is a part of the service, so the run does not list it a
second time.

How far the phone's next number is ahead of `tx_ack` is the payload in hand and
in the pipe that belongs to this connection: a sum over the pipe, which would take
a recursive definition. `Announced` says the same without one: some running total
of what the headers announce ends at the given number or below it. `NumberInv`
states that the numbers lie in one window, in the order acknowledged by the
phone's TCP, `tx_ack`, next to be sent, and that the packet in hand
and the headers in the pipe fit between the last two; `Gap` and `Plus` wrap at any
`SeqWrap` of at least two windows. `PortInv` ties the port of the box to that of
the phone's connection, so that a port that has come round counts as new, and
`AnswerInv` says that behind the last answer to a SYN there is no payload: a
handshake that takes that answer, and not a stale one, starts with nothing of an
old connection to be read.

`LinuxServiceProofs` proves the type invariant and all four safety properties of
the two threads, for any number of events, any patience and any width of
`usbSendCount`. What holds when every event is handled needs to know what is true
before: the last event of the socket about a disk, or a phone, says whether it is
there (`DiskInv`, `PhoneInv`), since events are taken in order. `HandleInv` ties
the two copies of the handle to the state of the phone, and to the place in the
program of each thread, as long as neither closes what the other uses.
`EventInv` follows one event through `usbDiskAction` and both threads: the
phone is owed the action that is set, and nobody clears it without having told it.
The exceptions `crossed`, `unseen` and `slow` stand in the properties; each is
reached in the code, see the observations.

Only model-checked:

* all liveness, which is out of the prover's reach;
* everything of `EhciQueue`: which descriptors a transfer gets is a `SelectSeq`
  over the pool, and how many at the front of a chain are done is a `CHOOSE` of
  a longest prefix. That such a selection has no double, or that such a prefix
  exists, is shown by induction over the sequence, which the provers here cannot
  do.

## 5. Not modelled, and what is left

Left out for good: register set-up, the SD controller and SPIFI libraries (not
in the repository), the periodic schedules of the EHCI driver, which no pipe of
this program uses, the console and factory commands, USB classes and the device
mode the program does not use, and the wording of messages. These are most of
the repository's lines: `nxp_driver` is a vendor's library with a second copy of
the EHCI driver, long headers and eight classes, of which the program uses one.

Left out so far: the heap of `USBMemory.c`, which pipes of both ports and the
interrupt share without a lock; the stages of a control transfer; the switch of
an Android phone to accessory mode; the bus protocol of `i2c.c`.

What would come next:

1. `CommandStream`: the phone pulled out while a request is received
   (`usProtocol_DeviceDisConnect` in the interrupt), the notification the task
   sends between two requests; and that its receive functions implement the
   `Piece` of `WriteRequest`.
2. `UsbHeap`: the list of free chunks under interrupts.

## 6. Running

    tlc -workers 2 -config MCWriteRequest.cfg WriteRequest
    tlapm WriteRequestProofs.tla
