--------------------------- MODULE CommandStream ---------------------------
(***************************************************************************)
(* The phone's requests on their way to the handlers: usProtocol.c's       *)
(* connection (version, SYN, resetReceive) and receive functions for both  *)
(* kinds of phones, usStorage_Handle, and the loop of usStorage_diskWRITE  *)
(* that asks for the rest of a request. What is left of a request that     *)
(* failed stays in the pipe and is read as the next one.                   *)
(*                                                                         *)
(* The pipe is a queue of USB packets; payload counts in USB packets, and  *)
(* so do sequence numbers. A request is as many units as it has USB        *)
(* packets; a request of one unit stands for every short command. Payload  *)
(* never looks like a header of the request or of the mux protocol, nor    *)
(* like a short mux packet.                                                *)
(*                                                                         *)
(* A USB packet may be full or not, so what the loop of diskWRITE counts   *)
(* in bytes is left open here as far as it depends on that: curSize is     *)
(* exact, or ahead by what was counted twice (WriteRequest has the bytes). *)
(***************************************************************************)
EXTENDS Integers, Sequences

CONSTANTS
  BufUnits,  \* USB packets that ib_buf takes
  Segment,   \* USB packets of the longest packet the phone's TCP sends
  TxWin,     \* IOS_WIN_SIZE; for Android, what the pipe holds
  Lens,      \* lengths of the requests
  MaxAsks,   \* requests, at most
  LastPort,  \* 0xFFFF of find_sport
  SeqWrap,   \* 2^32 of the sequence numbers
  MaxFaults  \* USB and disk errors and control messages, at most

ASSUME SizesArePos ==
  /\ ({BufUnits, Segment, MaxAsks} \union Lens) \subseteq Nat \ {0}
  /\ TxWin \in Nat /\ BufUnits <= TxWin
  /\ LastPort \in Nat /\ LastPort > 1
  /\ MaxFaults \in Nat
(* Acknowledgements run one packet behind: no packet fills the window.     *)
ASSUME SegmentLeavesRoom == Segment < TxWin
ASSUME WrapHoldsWindow == SeqWrap \in Nat /\ 2 * TxWin <= SeqWrap

NoConn == 0
NoUnit == [id |-> 0, at |-> 0, len |-> 0]

VARIABLES
  usType,    \* "ios" or "android"
  pc,        \* "connect", "version", "synack": usProtocol_ConnectPhone; "drain":
             \* resetReceive; "handle", "more": RecvPackage of usStorage_Handle and
             \* of diskWRITE; "dispatch", "store": what they do with a piece;
             \* "ok", "error": the header is sent back
  ver_ok, sport, tx_seq, tx_ack,
  protlen, prohlen,   \* 0 = 0 between two packets
  hSize,     \* diskWRITE: what has been received
  piece,     \* units RecvPackage has returned
  hdr,       \* the request being served
  taken,     \* its units that went to the disk or to the carried sector
  twice,     \* pieces that curSize counts twice, 2 = two or more
  early,     \* history: because of that, a request was ended early
  pipe,      \* USB packets from the phone
  conn, opened, nxt, una, rcvd, ackDue,   \* the phone's TCP
  req,       \* the phone's request
  slipped,   \* history: on this port, a handshake whose last ACK could not be sent,
             \* or that took the answer to an earlier SYN for its own
  faults

link  == <<ver_ok, sport, slipped>>
peer  == <<conn, opened, nxt, rcvd, ackDue>>
parse == <<protlen, prohlen>>
vars  == <<usType, pc, link, tx_seq, tx_ack, parse, hSize, piece, hdr, taken, twice, early,
           pipe, peer, una, req, faults>>

Least(a, b) == IF a < b THEN a ELSE b
Plus(a, n)  == (a + n) % SeqWrap
Gap(a, b)   == (b - a) % SeqWrap    \* how far b is ahead of a

Fault == faults < MaxFaults /\ faults' = faults + 1

Drop(n) == SubSeq(pipe, n + 1, Len(pipe))
First   == pipe[1]

(* A packet without payload, and the USB packets of n units of the request. *)
Bare(kind, a) ==
  [k |-> kind, n |-> 0, ack |-> a, short |-> FALSE, unit |-> NoUnit]
Packets(n, short) ==
  [i \in 1..n |->
     LET u == [id |-> req.id, at |-> req.sent + i - 1, len |-> req.len] IN
     IF i = 1 /\ usType = "ios"
     THEN [Bare("ack", rcvd) EXCEPT !.n = n, !.unit = u]
     ELSE [Bare("data", 0) EXCEPT !.short = (short /\ i = n), !.unit = u]]

Gone == [req EXCEPT !.sent = req.len, !.open = FALSE, !.result = "none"]

(* The phone's TCP takes an acknowledgement of what it has sent.           *)
Acked(a) == IF conn = sport /\ Gap(una, a) <= Gap(una, nxt) THEN a ELSE una

Init ==
  /\ usType \in {"ios", "android"}
  /\ pc = "connect"
  /\ ver_ok = FALSE /\ sport = 1 /\ slipped = FALSE
  /\ tx_seq = 0 /\ tx_ack = 0
  /\ protlen = 0 /\ prohlen = 0 /\ hSize = 0
  /\ piece = <<>> /\ hdr = NoUnit /\ taken = <<>> /\ twice = 0 /\ early = FALSE
  /\ pipe = <<>>
  /\ conn = NoConn /\ opened = FALSE /\ nxt = 0 /\ una = 0 /\ rcvd = 0 /\ ackDue = FALSE
  /\ req = [id |-> 0, len |-> 0, sent |-> 0, open |-> FALSE, result |-> "none"]
  /\ faults = 0

-----------------------------------------------------------------------------
(* usProtocol_ConnectPhone *)
handling == <<parse, hSize, piece, hdr, taken, twice, early>>

find_sport == IF sport = LastPort THEN 1 ELSE sport + 1

ConnectAndroid ==
  /\ pc = "connect" /\ usType = "android"
  /\ pc' = "handle"
  /\ UNCHANGED <<usType, link, tx_seq, tx_ack, handling, pipe, peer, una, req, faults>>

(* GetIOSVersion. The phone forgets its connections.                       *)
AskVersion ==
  /\ pc = "connect" /\ usType = "ios" /\ ~ver_ok
  /\ sport' = find_sport /\ tx_seq' = 0 /\ tx_ack' = 0 /\ slipped' = FALSE
  /\ \/ /\ pc' = "version"
        /\ pipe' = Append(pipe, Bare("ver", 0))
        /\ conn' = NoConn /\ opened' = FALSE /\ req' = Gone
        /\ UNCHANGED faults
     \/ Fault /\ UNCHANGED <<pc, pipe, conn, opened, req>>
  /\ UNCHANGED <<usType, ver_ok, handling, nxt, una, rcvd, ackDue>>

(* Its answer, followed by the SETUP packet. *)
GetVersion ==
  /\ pc = "version" /\ pipe # <<>>
  /\ pipe' = Drop(1)
  /\ pc' = "connect"
  /\ \/ ver_ok' = (First.k = "ver") /\ UNCHANGED faults
     \/ ver_ok' = FALSE /\ Fault
  /\ UNCHANGED <<usType, sport, slipped, tx_seq, tx_ack, handling, peer, una, req>>

(* Variant: the result of send_tcp is not looked at. *)
SynNotSentUnnoticed ==
  /\ Fault
  /\ pc' = "synack"
  /\ UNCHANGED <<pipe, conn, opened, nxt, una, rcvd, ackDue, req>>

SynNotSent ==
  /\ Fault
  /\ UNCHANGED <<pc, pipe, conn, opened, nxt, una, rcvd, ackDue, req>>

(* A SYN on a new port opens a connection, and the phone's program drops   *)
(* the old one; a second SYN on the same port ends the connection.         *)
SendSyn ==
  /\ pc = "connect" /\ usType = "ios" /\ ver_ok
  /\ \/ /\ conn # sport
        /\ conn' = sport /\ opened' = FALSE
        /\ nxt' = 1 /\ una' = 0 /\ rcvd' = Plus(tx_seq, 1) /\ ackDue' = FALSE
        /\ req' = Gone
        /\ pipe' = Append(pipe, Bare("synack", rcvd'))
        /\ pc' = "synack"
        /\ UNCHANGED faults
     \/ /\ conn = sport
        /\ conn' = NoConn /\ opened' = FALSE /\ req' = Gone
        /\ pipe' = Append(pipe, Bare("rst", rcvd))
        /\ pc' = "synack"
        /\ UNCHANGED <<nxt, una, rcvd, ackDue, faults>>
     \/ SynNotSent
  /\ UNCHANGED <<usType, link, tx_seq, tx_ack, handling>>

(* A later SYN has been answered, too. *)
Stale(k) == \E j \in (k + 1)..Len(pipe) : pipe[j].k \in {"synack", "rst"}

(* The answer to the SYN, behind a control message or not. Anything else   *)
(* ends the attempt, and vs_main makes another one.                        *)
GetSynAck ==
  LET k == IF pipe # <<>> /\ First.k = "ctl" THEN 2 ELSE 1 IN
  /\ pc = "synack" /\ Len(pipe) >= k
  /\ pipe' = Drop(k)
  /\ IF pipe[k].k = "synack"
     THEN /\ tx_seq' = Plus(tx_seq, 1) /\ tx_ack' = Plus(tx_ack, 1)
          /\ \/ /\ pc' = "handle"
                /\ una' = Acked(tx_ack')
                /\ opened' = (conn = sport)
                /\ slipped' = (slipped \/ Stale(k))
                /\ UNCHANGED faults
             \/ /\ pc' = "connect"
                /\ slipped' = TRUE
                /\ Fault
                /\ UNCHANGED <<una, opened>>
     ELSE /\ pc' = "connect"
          /\ UNCHANGED <<slipped, tx_seq, tx_ack, una, opened, faults>>
  /\ UNCHANGED <<usType, ver_ok, sport, handling, conn, nxt, rcvd, ackDue, req>>

ConnectFails ==
  /\ pc \in {"version", "synack"}
  /\ Fault
  /\ \E k \in 0..Least(1, Len(pipe)) : pipe' = Drop(k)
  /\ pc' = "connect"
  /\ UNCHANGED <<usType, link, tx_seq, tx_ack, handling, peer, una, req>>

-----------------------------------------------------------------------------
(* resetReceive *)

(* Variant: the acknowledgement number is kept. *)
ResetDoneKeepsAck ==
  /\ pc' = "connect"
  /\ sport' = find_sport /\ tx_seq' = 0 /\ slipped' = FALSE
  /\ UNCHANGED tx_ack

ResetDone ==
  /\ pc' = "connect"
  /\ sport' = find_sport /\ tx_seq' = 0 /\ tx_ack' = 0 /\ slipped' = FALSE

Tcp(p) == p.k \in {"ack", "synack", "rst"}

DrainOn == pc' = "drain" /\ UNCHANGED <<sport, slipped, tx_seq, tx_ack>>

(* while(rx_ack != tx_seq); a packet that is too small ends it too.        *)
Drain ==
  /\ pc = "drain" /\ pipe # <<>>
  /\ pipe' = Drop(1)
  /\ \/ /\ \/ Tcp(First) /\ First.ack = tx_seq
           \/ First.short \/ First.k \in {"ver", "ctl"}
        /\ ResetDone
     \/ /\ \/ Tcp(First) /\ First.ack # tx_seq
           \/ First.k = "data" /\ ~First.short
           \/ First.k = "ctl"
        /\ DrainOn
  /\ UNCHANGED <<usType, ver_ok, handling, peer, una, req, faults>>

DrainFails ==
  /\ pc = "drain"
  /\ Fault
  /\ ResetDone
  /\ UNCHANGED <<usType, ver_ok, handling, pipe, peer, una, req>>

-----------------------------------------------------------------------------
(* usProtocol_RecvPackage. It returns to usStorage_Handle, which gives up  *)
(* on an error, or to diskWRITE, which answers with an error.              *)
Got  == pc' = IF pc = "handle" THEN "dispatch" ELSE "store"
Lost == pc' = IF pc = "handle" THEN "handle" ELSE "error"

(* send_tcp_ack tells tx_ack as it was before this packet. Its result is   *)
(* not looked at.                                                          *)
send_tcp_ack ==
  \/ una' = Acked(tx_ack) /\ UNCHANGED faults
  \/ UNCHANGED una /\ Fault

Fresh == usType = "ios" /\ (pc = "handle" \/ (pc = "more" /\ protlen = 0 /\ prohlen = 0))

(* A packet that fits is read to its end, of a longer one as much as fits. *)
NewPacket ==
  LET n == First.n
      m == Least(n, BufUnits) IN
  /\ Fresh /\ pipe # <<>> /\ First.k = "ack"
  /\ Len(pipe) >= m
  /\ piece' = [i \in 1..m |-> pipe[i].unit]
  /\ pipe' = Drop(IF n = 0 THEN 1 ELSE m)
  /\ Got
  /\ \/ /\ n = 0
        /\ protlen' = 0 /\ prohlen' = 0
        /\ UNCHANGED <<tx_ack, una, faults>>
     \/ /\ n \in 1..BufUnits
        /\ protlen' = 0 /\ prohlen' = 0
        /\ send_tcp_ack
        /\ tx_ack' = Plus(tx_ack, n)
     \/ /\ n > BufUnits
        /\ protlen' = n /\ prohlen' = m
        /\ UNCHANGED <<tx_ack, una, faults>>
  /\ UNCHANGED <<usType, link, tx_seq, hSize, hdr, taken, twice, early, peer, req>>

(* Variant: a full buffer is asked for. *)
RecvsizeFull == BufUnits
(* sizeSend, Recvsize *)
Recvsize == Least(BufUnits, protlen - prohlen)

(* Variant: the packet is finished without a word. *)
PacketDoneUnacked ==
  /\ protlen' = 0 /\ prohlen' = 0
  /\ UNCHANGED <<tx_ack, una, faults>>

PacketDone ==
  /\ protlen' = 0 /\ prohlen' = 0
  /\ send_tcp_ack
  /\ tx_ack' = Plus(tx_ack, protlen)

RestOfPacket ==
  /\ usType = "ios" /\ pc = "more" /\ protlen # 0
  /\ Len(pipe) >= Recvsize
  /\ piece' = [i \in 1..Recvsize |-> pipe[i].unit]
  /\ pipe' = Drop(Recvsize)
  /\ Got
  /\ \/ /\ prohlen + Recvsize = protlen
        /\ PacketDone
     \/ /\ prohlen + Recvsize # protlen
        /\ prohlen' = prohlen + Recvsize
        /\ UNCHANGED <<protlen, tx_ack, una, faults>>
  /\ UNCHANGED <<usType, link, tx_seq, hSize, hdr, taken, twice, early, peer, req>>

(* A control message or a version, or what is too small for a TCP header.  *)
NotTcp ==
  /\ Fresh /\ pipe # <<>>
  /\ First.k \in {"ctl", "ver"} \/ First.short
  /\ pipe' = Drop(1)
  /\ Lost
  /\ UNCHANGED <<usType, link, tx_seq, tx_ack, handling, peer, una, req, faults>>

(* "Connection Reset": payload taken for a header, or other flags than ACK. *)
(* The answer diskWRITE would give is not sent on a lost connection.       *)
NotAck ==
  /\ Fresh /\ pipe # <<>>
  /\ First.k \in {"synack", "rst"} \/ (First.k = "data" /\ ~First.short)
  /\ pipe' = Drop(1)
  /\ IF Tcp(First) /\ First.ack = tx_seq THEN ResetDone ELSE DrainOn
  /\ UNCHANGED <<usType, ver_ok, handling, peer, una, req, faults>>

(* Android: only the request itself has a header. *)
AoaFirst ==
  LET m == Least(First.unit.len, BufUnits) IN
  /\ usType = "android" /\ pc = "handle" /\ pipe # <<>>
  /\ \/ /\ First.unit.at # 0
        /\ pipe' = Drop(1)
        /\ protlen' = 0 /\ prohlen' = 0
        /\ Lost
        /\ UNCHANGED piece
     \/ /\ First.unit.at = 0
        /\ Len(pipe) >= m
        /\ piece' = [i \in 1..m |-> pipe[i].unit]
        /\ pipe' = Drop(m)
        /\ protlen' = First.unit.len /\ prohlen' = m
        /\ Got
  /\ UNCHANGED <<usType, link, tx_seq, tx_ack, hSize, hdr, taken, twice, early,
                 peer, una, req, faults>>

(* What follows must be asked for by the size handed out so far, else      *)
(* "Mismatch Handle Size".                                                 *)
AoaMore ==
  /\ usType = "android" /\ pc = "more"
  /\ IF prohlen # hSize
     THEN Lost /\ UNCHANGED <<piece, pipe, prohlen>>
     ELSE /\ Len(pipe) >= Recvsize
          /\ piece' = [i \in 1..Recvsize |-> pipe[i].unit]
          /\ pipe' = Drop(Recvsize)
          /\ prohlen' = prohlen + Recvsize
          /\ Got
  /\ UNCHANGED <<usType, link, tx_seq, tx_ack, protlen, hSize, hdr, taken, twice, early,
                 peer, una, req, faults>>

(* A USB error, with or without what was read before it.                   *)
RecvFails ==
  /\ pc \in {"handle", "more"}
  /\ Fault
  /\ \E k \in 0..Least(BufUnits, Len(pipe)) : pipe' = Drop(k)
  /\ Lost
  /\ UNCHANGED <<usType, link, tx_seq, tx_ack, handling, peer, una, req>>

-----------------------------------------------------------------------------
(* Variant: the magic number is not checked. *)
IsRequestAny(p) == p # <<>>
(* size >= PRO_HDR, header.head == SCSI_PHONE_MAGIC *)
IsRequest(p) == p # <<>> /\ p[1].at = 0

(* Variant: one unit too early. *)
WholeEarly(s) == Len(s) + 1 >= hdr'.len
(* Every byte was received: they are whole sectors, and all of them count. *)
Whole(s) == Len(s) >= hdr'.len

(* A piece that does not fill the carried sector is added to curSize, and  *)
(* added again with the whole sector. Only the end of a packet can be so   *)
(* short, as the pieces before it are whole sectors: with its header, less *)
(* than a sector takes up to two USB packets. The last piece of a request  *)
(* fills its sector.                                                       *)
CountedTwice(s) ==
  /\ usType = "ios" /\ protlen = 0
  /\ Len(piece) \in 1..2 /\ ~Whole(s)

(* !(curSize < header->len). What is missing are whole sectors when curSize *)
(* is exact, so one piece, less than a sector, cannot make up for it.      *)
Ends(s) == Whole(s) \/ twice' = 2

(* The units are taken, or the write fails. *)
Write(s) ==
  \/ /\ taken' = s
     /\ \/ Ends(s) /\ pc' = "ok"
        \/ ~Whole(s) /\ pc' = "more"
     /\ early' = (early \/ (pc' = "ok" /\ ~Whole(s)))
     /\ UNCHANGED faults
  \/ /\ piece # <<>>
     /\ pc' = "error"
     /\ Fault
     /\ UNCHANGED <<taken, early>>

Dispatch ==
  /\ pc = "dispatch"
  /\ piece' = <<>>
  /\ \/ /\ ~IsRequest(piece)
        /\ pc' = "handle"
        /\ UNCHANGED <<hdr, hSize, taken, twice, early, faults>>
     \/ /\ IsRequest(piece)
        /\ hdr' = piece[1]
        /\ hSize' = Len(piece)
        /\ twice' = 0
        /\ Write(piece)
  /\ UNCHANGED <<usType, link, tx_seq, tx_ack, parse, pipe, peer, una, req>>

(* Variant: only the first piece counts. *)
HandledFirst == hSize
(* hSize += paySize *)
Handled == hSize + Len(piece)

Store ==
  /\ pc = "store"
  /\ piece' = <<>>
  /\ hSize' = Handled
  /\ UNCHANGED hdr
  /\ \/ UNCHANGED twice
     \/ CountedTwice(taken \o piece) /\ twice' = Least(twice + 1, 2)
  /\ Write(taken \o piece)
  /\ UNCHANGED <<usType, link, tx_seq, tx_ack, parse, pipe, peer, una, req>>

(* usStorage_sendHEAD; the answer bears the request's tag.                 *)
Reply ==
  /\ pc \in {"ok", "error"}
  /\ pc' = "handle"
  /\ \/ /\ IF usType = "ios"
           THEN /\ tx_seq' = Plus(tx_seq, 1)
                /\ una' = Acked(tx_ack)
                /\ rcvd' = IF conn = sport THEN tx_seq' ELSE rcvd
                /\ ackDue' = (ackDue \/ conn = sport)
           ELSE UNCHANGED <<tx_seq, una, rcvd, ackDue>>
        /\ req' = IF req.open /\ req.id = hdr.id /\ (usType = "android" \/ conn = sport)
                  THEN [req EXCEPT !.open = FALSE, !.result = pc]
                  ELSE req
        /\ UNCHANGED faults
     \/ Fault /\ UNCHANGED <<tx_seq, una, rcvd, ackDue, req>>
  /\ UNCHANGED <<usType, link, tx_ack, handling, pipe, conn, opened, nxt>>

-----------------------------------------------------------------------------
(* The phone. Its program sends one request at a time, to the end, and     *)
(* waits for the answer; it gives up when the answer was lost, that is,    *)
(* when the box in its turn waits for the phone.                           *)
phoneOnly == <<usType, pc, link, tx_seq, tx_ack, handling>>

Ask ==
  /\ req.sent = req.len
  /\ ~req.open \/ (pipe = <<>> /\ pc \in {"handle", "more", "drain"} /\ faults > 0)
  /\ usType = "android" \/ opened
  /\ req.id < MaxAsks
  /\ \E l \in Lens :
       req' = [id |-> req.id + 1, len |-> l, sent |-> 0, open |-> TRUE, result |-> "none"]
  /\ UNCHANGED <<phoneOnly, pipe, peer, una, faults>>

SendSegment ==
  /\ usType = "android" \/ opened
  /\ \E n \in 1..Segment, short \in BOOLEAN :
       /\ req.sent + n <= req.len
       /\ IF usType = "ios" THEN Gap(una, nxt) + n <= TxWin ELSE Len(pipe) + n <= TxWin
       /\ short => usType = "ios" /\ n > 1
       /\ pipe' = pipe \o Packets(n, short)
       /\ req' = [req EXCEPT !.sent = @ + n]
       /\ nxt' = IF usType = "ios" THEN Plus(nxt, n) ELSE nxt
  /\ ackDue' = FALSE
  /\ UNCHANGED <<phoneOnly, conn, opened, una, rcvd, faults>>

SendAck ==
  /\ ackDue /\ opened
  /\ pipe' = Append(pipe, Bare("ack", rcvd))
  /\ ackDue' = FALSE
  /\ UNCHANGED <<phoneOnly, conn, opened, nxt, rcvd, una, req, faults>>

SendControl ==
  /\ usType = "ios"
  /\ Fault
  /\ pipe' = Append(pipe, Bare("ctl", 0))
  /\ UNCHANGED <<phoneOnly, peer, una, req>>

Box == \/ ConnectAndroid \/ AskVersion \/ GetVersion \/ SendSyn \/ GetSynAck
       \/ ConnectFails \/ Drain \/ DrainFails
       \/ NewPacket \/ RestOfPacket \/ NotTcp \/ NotAck
       \/ AoaFirst \/ AoaMore \/ RecvFails
       \/ Dispatch \/ Store \/ Reply

Next == Box \/ Ask \/ SendSegment \/ SendAck \/ SendControl

Spec == Init /\ [][Next]_vars

(* The phone task runs, but no error has to happen; the phone's TCP sends  *)
(* what it may and acknowledges what it gets. Its program need not ask.    *)
FairSpec == Spec /\ WF_vars(Box /\ faults' = faults) /\ WF_vars(SendSegment) /\ WF_vars(SendAck)

-----------------------------------------------------------------------------
Sizes == {0} \union Lens
Units == {u \in [id : 0..MaxAsks, at : Nat, len : Sizes] : u.at <= u.len}

TypeOK ==
  /\ usType \in {"ios", "android"}
  /\ pc \in {"connect", "version", "synack", "drain", "handle", "more", "dispatch",
             "store", "ok", "error"}
  /\ ver_ok \in BOOLEAN /\ sport \in 1..LastPort /\ slipped \in BOOLEAN
  /\ tx_seq \in 0..(SeqWrap - 1) /\ tx_ack \in 0..(SeqWrap - 1)
  /\ protlen \in Nat /\ prohlen \in 0..protlen /\ hSize \in Nat
  /\ piece \in Seq(Units) /\ Len(piece) <= BufUnits
  /\ hdr \in Units /\ taken \in Seq(Units) /\ twice \in 0..2 /\ early \in BOOLEAN
  /\ pipe \in Seq([k : {"ver", "synack", "rst", "ack", "data", "ctl"}, n : 0..Segment,
                   ack : 0..(SeqWrap - 1), short : BOOLEAN, unit : Units])
  /\ conn \in 0..LastPort /\ opened \in BOOLEAN /\ ackDue \in BOOLEAN
  /\ {nxt, una, rcvd} \subseteq 0..(SeqWrap - 1)
  /\ req \in [id : 0..MaxAsks, len : Sizes, sent : Nat, open : BOOLEAN,
              result : {"none", "ok", "error"}]
  /\ req.sent <= req.len
  /\ faults \in 0..MaxFaults

(* What a write stores are the first units of one request of the phone,    *)
(* each once and in order: what a failed request left in the pipe is never *)
(* written as part of another one (usStorage_Handle, RecvPackage).         *)
WriteIsOneRequest ==
  \A i \in 1..Len(taken) :
    taken[i] = [id |-> taken[1].id, at |-> i - 1, len |-> taken[1].len]

(* A phone that is told "ok" is told of the request it sent last, and all  *)
(* of that has been taken, unless curSize has counted pieces twice, which  *)
(* only happens to a request an iPhone sends in several packets.           *)
OkIsWhole ==
  req.result = "ok" =>
    /\ taken[1].id = req.id
    /\ Len(taken) = req.len \/ (twice = 2 /\ usType = "ios")

(* The receive path and its handlers implement the service of requests.    *)
(* Rests of broken requests, and whole ones the phone has given up, may    *)
(* still come out of the pipe: none of them takes the place of a newer     *)
(* request, a request is not taken twice, and "ok" is the answer to the    *)
(* newest request and to all of it, unless its bytes were counted twice:   *)
(* then to some of it, and the rest is not taken any more.                 *)
Newest == IF taken # <<>> /\ taken[1].id = req.id THEN Len(taken) ELSE 0
Told   == IF req.open THEN "none"
          ELSE IF req.result # "ok" THEN "failed"
          ELSE IF twice = 2 THEN "unsure" ELSE "ok"
Service == INSTANCE RequestService WITH
  id <- req.id, want <- req.len, taken <- Newest, answer <- Told
ImplementsService == Service!SSpec

(* The box never acknowledges to the phone's TCP what that has not sent,   *)
(* on this connection, although packets of an earlier one may still be     *)
(* waiting in the pipe (tx_ack). There are two exceptions, which last      *)
(* until the next reset: a handshake whose last ACK could not be sent,     *)
(* since the next one counts the SYN again; and one that took the answer   *)
(* to an earlier SYN, whose ports nobody compares, since what is read next *)
(* may belong to a connection that is gone.                                *)
AckNotAhead ==
  (usType = "ios" /\ conn = sport /\ opened /\ ~slipped) => Gap(tx_ack, nxt) <= TxWin

(* As long as nothing fails, every request is served: acknowledgements     *)
(* that are one packet behind do not stop the phone for good. But once a   *)
(* request was ended early the rest of a packet may be read as a header:   *)
(* a reset then drops what the phone has asked meanwhile, or the numbers   *)
(* stay behind by that rest.                                               *)
HealthyRequestIsServed ==
  (req.open /\ faults = 0) ~> (req.result = "ok" \/ faults > 0 \/ early)

(* Once resetReceive is over the connection comes back, whatever answers   *)
(* to earlier attempts and rests of requests are still in the pipe.        *)
Reconnects == (pc \in {"connect", "version", "synack"}) ~> (pc = "handle")
=============================================================================
