------------------------- MODULE CommandStreamProofs -------------------------
(***************************************************************************)
(* The stream of requests, for any sizes, any number of requests and any   *)
(* number of faults: what is written belongs to one request, and a phone   *)
(* is told "ok" of its last request: of all of it, if nothing in it was    *)
(* counted twice.                                                          *)
(*                                                                         *)
(* The invariant is about the stream: the units the box has taken of the   *)
(* request it serves, followed by the pipe. Payload is in the order the    *)
(* phone sent it, and a request that was cut off is followed by a packet   *)
(* of the protocol before the next one starts.                             *)
(*                                                                         *)
(* And the box acknowledges nothing the phone has not sent: the numbers    *)
(* are in order, and what is announced in the pipe fits between them.      *)
(*                                                                         *)
(* At the end: the receive path implements the service of requests, since  *)
(* what it still has to read comes after what it took last.                *)
(***************************************************************************)
EXTENDS CommandStream, TLAPS

Kinds   == {"ver", "synack", "rst", "ack", "data", "ctl"}
Pay(p)  == p.k = "data" \/ p.n > 0             \* carries payload
Mark(p) == p.k \notin {"ack", "data"}          \* ends what was sent before

Later(u, n)  == [id |-> u.id, at |-> u.at + n, len |-> u.len]
Before(u, v) == u.id < v.id \/ (u.id = v.id /\ u.at < v.at)
Whole1(u)    == u.at + 1 = u.len               \* the last unit of its request

(* A unit the phone has sent; the unit after which it goes on sending.     *)
Sent(u, r)  == u.at < u.len /\ (u.id < r.id \/ (u.id = r.id /\ u.len = r.len /\ u.at < r.sent))
Leads(u, r) == IF r.sent \in {0, r.len} THEN Whole1(u)
               ELSE u.id = r.id /\ u.len = r.len /\ u.at + 1 = r.sent

-----------------------------------------------------------------------------
(* The stream f[a..b] of a phone of kind t that has sent r so far.         *)
Ordered(f, a, b, r) ==
  /\ \A i \in a..b : Pay(f[i]) => Sent(f[i].unit, r)
  /\ \A i, j \in a..b : i < j /\ Pay(f[i]) /\ Pay(f[j]) => Before(f[i].unit, f[j].unit)

(* iOS: a header is followed by the rest of its packet. *)
Segmented(f, a, b) ==
  \A i \in a..b : f[i].n > 0 =>
    /\ f[i].k = "ack"
    /\ \A j \in 1..(f[i].n - 1) :
         i + j <= b /\ f[i + j].k = "data" /\ f[i + j].unit = Later(f[i].unit, j)

(* iOS: payload is followed by its successor unless there is a mark. *)
Plain(f, a, b)  == \A k \in a..b : ~Pay(f[k]) /\ ~Mark(f[k])
Follows(u, v)   == v = Later(u, 1) \/ (v.at = 0 /\ Whole1(u))
Chained(f, a, b, r) ==
  \A i \in a..b : Pay(f[i]) =>
    /\ \A j \in (i + 1)..b : Pay(f[j]) /\ Plain(f, i + 1, j - 1) => Follows(f[i].unit, f[j].unit)
    /\ Plain(f, i + 1, b) => Leads(f[i].unit, r)

(* Android: nothing but payload, without a gap in a request. *)
Dense(f, a, b, r) ==
  \A i \in a..b :
    /\ f[i].k = "data"
    /\ \A j \in i..b : f[i].unit.at + (j - i) < f[i].unit.len => f[j].unit = Later(f[i].unit, j - i)
    /\ f[i].unit.at + (b + 1 - i) < f[i].unit.len =>
         f[i].unit.id = r.id /\ f[i].unit.len = r.len /\ r.sent = f[i].unit.at + (b + 1 - i)

Good(f, a, b, r, t) ==
  /\ Ordered(f, a, b, r)
  /\ t = "ios" => Segmented(f, a, b) /\ Chained(f, a, b, r)
  /\ t = "android" => Dense(f, a, b, r)

-----------------------------------------------------------------------------
(* What the box has taken of the request it serves. *)
Serving == pc \in {"more", "store", "ok"}
Holding == Serving \/ (pc = "dispatch" /\ piece # <<>>)
Base    == IF Serving THEN hdr ELSE piece[1]
Count   == IF Serving THEN Len(taken) + Len(piece) ELSE Len(piece)
LastGot == Later(Base, Count - 1)

(* Its last unit u stands at 0, before the pipe s, if it holds one. *)
Line(o, u, s) ==
  [i \in o..Len(s) |-> IF i = 0 THEN [k |-> "data", n |-> 0, unit |-> u] ELSE s[i]]
GoodPipe(o, u, s, r, t) == Good(Line(o, u, s), o, Len(s), r, t)

Held == IF Holding THEN LastGot ELSE NoUnit
StreamInv == GoodPipe(IF Holding THEN 0 ELSE 1, Held, pipe, req, usType)

(* The rest of its packet is what the pipe begins with. *)
RestInv ==
  Holding /\ pc # "ok" =>
    IF usType = "ios"
    THEN protlen # 0 =>
           /\ prohlen < protlen /\ protlen - prohlen <= Len(pipe)
           /\ \A j \in 1..(protlen - prohlen) :
                pipe[j].k = "data" /\ pipe[j].unit = Later(LastGot, j)
    ELSE protlen = Base.len /\ Base.at = 0

HeldInv ==
  /\ pc \notin {"dispatch", "store"} => piece = <<>>
  /\ Holding => \A i \in 1..Len(piece) : piece[i] = Later(Base, Count - Len(piece) + i - 1)
  /\ Serving => /\ taken # <<>> /\ hdr.at = 0
                /\ \A i \in 1..Len(taken) : taken[i] = Later(hdr, i - 1)
  /\ pc \in {"more", "store"} => Len(taken) < hdr.len /\ hSize = Len(taken)
  /\ pc = "ok" => Len(taken) = hdr.len \/ twice = 2
  /\ RestInv

TakenInv ==
  taken # <<>> => taken[1].at = 0 /\ \A i \in 1..Len(taken) : taken[i] = Later(taken[1], i - 1)

(* What may be left of a request that was answered with "ok" has no header. *)
OkInv ==
  req.result = "ok" =>
    /\ taken # <<>> /\ taken[1].id = req.id
    /\ Len(taken) = req.len \/ (twice = 2 /\ usType = "ios")
    /\ req.sent > 0 /\ ~req.open /\ ~Serving
    /\ \A i \in 1..Len(pipe) : Pay(pipe[i]) => pipe[i].unit.at # 0
    /\ pc = "dispatch" /\ piece # <<>> => piece[1].at # 0

(* There is no connection over AOA to open or to reset, and no short piece. *)
PhoneInv ==
  usType = "android" => ~opened /\ twice = 0 /\ pc \notin {"version", "synack", "drain"}

IInv == TypeOK /\ PhoneInv /\ StreamInv /\ HeldInv /\ TakenInv /\ OkInv
-----------------------------------------------------------------------------
(* A stream without its first n packets; the one it starts with may stand  *)
(* for a packet that has been taken.                                       *)
UnitOK(u)      == u.id \in Nat /\ u.at \in Nat /\ u.len \in Nat
Typed(f, a, b) == \A i \in a..b : f[i].n \in Nat /\ UnitOK(f[i].unit)

LEMMA Suffix ==
  ASSUME NEW f, NEW g, NEW a \in Int, NEW b \in Int, NEW c \in Int, NEW n \in Nat, NEW r, NEW t,
         Typed(f, a, b), Good(f, a, b, r, t), c + n >= a,
         \A i \in c..(b - n) :
           g[i] = f[i + n] \/ (i = c /\ g[i].k = "data" /\ g[i].n = 0 /\ g[i].unit = f[i + n].unit
                               /\ Pay(f[i + n]))
  PROVE  Good(g, c, b - n, r, t)
<1> DEFINE d == b - n
<1>1. \A i \in c..d : i + n \in a..b /\ g[i].unit = f[i + n].unit /\ (Pay(g[i]) <=> Pay(f[i + n]))
  BY DEF Pay
<1>2. \A i \in c..d : i > c => g[i] = f[i + n]
  OBVIOUS
<1>3. Ordered(g, c, d, r)
  <2>1. \A i, j \in c..d : i < j => i + n < j + n
    OBVIOUS
  <2> QED  BY <1>1, <2>1 DEF Good, Ordered
<1>4. ASSUME t = "ios" PROVE Segmented(g, c, d)
  <2> SUFFICES ASSUME NEW i \in c..d, g[i].n > 0
               PROVE  /\ g[i].k = "ack"
                      /\ \A j \in 1..(g[i].n - 1) :
                           i + j <= d /\ g[i + j].k = "data" /\ g[i + j].unit = Later(g[i].unit, j)
    BY DEF Segmented
  <2>1. g[i] = f[i + n] /\ i + n \in a..b
    BY <1>1
  <2>2. ASSUME NEW j \in 1..(g[i].n - 1)
        PROVE  i + j <= d /\ g[i + j].k = "data" /\ g[i + j].unit = Later(g[i].unit, j)
    <3>1. /\ (i + n) + j <= b /\ f[(i + n) + j].k = "data"
          /\ f[(i + n) + j].unit = Later(f[i + n].unit, j)
      BY <1>4, <2>1 DEF Good, Segmented
    <3>2. g[i].n \in Nat
      BY <2>1 DEF Typed
    <3>3. i + j \in c..d /\ i + j > c /\ (i + j) + n = (i + n) + j
      BY <3>1, <3>2
    <3> QED  BY <1>2, <2>1, <3>1, <3>3
  <2>3. g[i].k = "ack"
    BY <1>4, <2>1 DEF Good, Segmented
  <2> QED  BY <2>2, <2>3
<1>5. ASSUME t = "ios" PROVE Chained(g, c, d, r)
  <2> SUFFICES ASSUME NEW i \in c..d, Pay(g[i])
               PROVE  /\ \A j \in (i + 1)..d : Pay(g[j]) /\ Plain(g, i + 1, j - 1) =>
                                                 Follows(g[i].unit, g[j].unit)
                      /\ Plain(g, i + 1, d) => Leads(g[i].unit, r)
    BY DEF Chained
  <2>1. i + n \in a..b /\ g[i].unit = f[i + n].unit /\ Pay(f[i + n])
    BY <1>1
  <2>2. ASSUME NEW j \in i..d, Plain(g, i + 1, j) PROVE Plain(f, (i + n) + 1, j + n)
    <3> SUFFICES ASSUME NEW k \in ((i + n) + 1)..(j + n) PROVE ~Pay(f[k]) /\ ~Mark(f[k])
      BY DEF Plain
    <3>1. k - n \in (i + 1)..j /\ k - n \in c..d /\ k - n > c /\ (k - n) + n = k
      OBVIOUS
    <3> QED  BY <1>2, <2>2, <3>1 DEF Plain
  <2>3. ASSUME NEW j \in (i + 1)..d, Pay(g[j]), Plain(g, i + 1, j - 1)
        PROVE  Follows(g[i].unit, g[j].unit)
    <3>1. Plain(f, (i + n) + 1, (j - 1) + n) /\ (j - 1) + n = (j + n) - 1
      BY <2>2, <2>3
    <3>2. j + n \in ((i + n) + 1)..b /\ Pay(f[j + n]) /\ g[j].unit = f[j + n].unit
      BY <1>1, <2>3
    <3> QED  BY <1>5, <2>1, <3>1, <3>2 DEF Good, Chained
  <2>4. ASSUME Plain(g, i + 1, d) PROVE Leads(g[i].unit, r)
    <3>1. Plain(f, (i + n) + 1, d + n) /\ d + n = b
      BY <2>2, <2>4
    <3> QED  BY <1>5, <2>1, <3>1 DEF Good, Chained
  <2> QED  BY <2>3, <2>4
<1>6. ASSUME t = "android" PROVE Dense(g, c, d, r)
  <2> SUFFICES ASSUME NEW i \in c..d
               PROVE  /\ g[i].k = "data"
                      /\ \A j \in i..d : g[i].unit.at + (j - i) < g[i].unit.len =>
                                           g[j].unit = Later(g[i].unit, j - i)
                      /\ g[i].unit.at + (d + 1 - i) < g[i].unit.len =>
                           /\ g[i].unit.id = r.id /\ g[i].unit.len = r.len
                           /\ r.sent = g[i].unit.at + (d + 1 - i)
    BY DEF Dense
  <2>1. i + n \in a..b /\ g[i].unit = f[i + n].unit
    BY <1>1
  <2>2. d + 1 - i = b + 1 - (i + n)
    OBVIOUS
  <2>3. \A j \in i..d : j + n \in (i + n)..b /\ j - i = (j + n) - (i + n) /\ g[j].unit = f[j + n].unit
    BY <1>1
  <2> QED  BY <1>6, <2>1, <2>2, <2>3 DEF Good, Dense
<1> QED  BY <1>3, <1>4, <1>5, <1>6 DEF Good

(* A packet without payload comes last; a mark cuts the request off. *)
LEMMA AddBare ==
  ASSUME NEW f, NEW g, NEW a \in Int, NEW b \in Int, NEW r, NEW q, a <= b + 1,
         Typed(f, a, b), Good(f, a, b, r, "ios"),
         \A i \in a..b : g[i] = f[i],
         g[b + 1].n = 0, g[b + 1].k # "data",
         Mark(g[b + 1]) \/ q = r,
         q.id = r.id, q.len = r.len, r.sent \in Nat, q.sent \in Nat, q.sent >= r.sent
  PROVE  Good(g, a, b + 1, q, "ios")
<1>1. ~Pay(g[b + 1])
  BY DEF Pay
<1>2. \A i \in a..(b + 1) : i # b + 1 => i \in a..b /\ g[i] = f[i]
  OBVIOUS
<1>3. Ordered(g, a, b + 1, q)
  BY <1>1, <1>2 DEF Good, Ordered, Sent, Typed, UnitOK
<1>4. Segmented(g, a, b + 1)
  <2> SUFFICES ASSUME NEW i \in a..b, f[i].n > 0
               PROVE  /\ g[i].k = "ack"
                      /\ \A j \in 1..(f[i].n - 1) :
                           i + j <= b + 1 /\ g[i + j].k = "data" /\ g[i + j].unit = Later(f[i].unit, j)
    BY <1>2 DEF Segmented
  <2>1. /\ f[i].k = "ack"
        /\ \A j \in 1..(f[i].n - 1) :
             i + j <= b /\ f[i + j].k = "data" /\ f[i + j].unit = Later(f[i].unit, j)
    BY DEF Good, Segmented
  <2>2. \A j \in 1..(f[i].n - 1) : i + j \in a..b
    BY <2>1 DEF Typed
  <2> QED  BY <2>1, <2>2
<1>5. Chained(g, a, b + 1, q)
  <2> SUFFICES ASSUME NEW i \in a..(b + 1), Pay(g[i])
               PROVE  /\ \A j \in (i + 1)..(b + 1) : Pay(g[j]) /\ Plain(g, i + 1, j - 1) =>
                                                       Follows(g[i].unit, g[j].unit)
                      /\ Plain(g, i + 1, b + 1) => Leads(g[i].unit, q)
    BY DEF Chained
  <2>1. i \in a..b /\ g[i] = f[i]
    BY <1>1, <1>2
  <2>2. ASSUME NEW j \in i..b, Plain(g, i + 1, j) PROVE Plain(f, i + 1, j)
    BY <2>2 DEF Plain
  <2>3. ASSUME NEW j \in (i + 1)..(b + 1), Pay(g[j]), Plain(g, i + 1, j - 1)
        PROVE  Follows(g[i].unit, g[j].unit)
    <3>1. j \in (i + 1)..b /\ g[j] = f[j] /\ j - 1 \in i..b
      BY <1>1, <2>3
    <3>2. Plain(f, i + 1, j - 1)
      BY <2>2, <2>3, <3>1
    <3> QED  BY <2>1, <2>3, <3>1, <3>2 DEF Good, Chained
  <2>4. ASSUME Plain(g, i + 1, b + 1) PROVE Leads(g[i].unit, q)
    <3>1. b + 1 \in (i + 1)..(b + 1)
      BY <2>1
    <3>2. ~Mark(g[b + 1])
      BY <2>4, <3>1 DEF Plain
    <3>3. Plain(g, i + 1, b)
      BY <2>4 DEF Plain
    <3>4. Plain(f, i + 1, b)
      BY <2>1, <2>2, <3>3
    <3> QED  BY <2>1, <3>2, <3>4 DEF Good, Chained
  <2> QED  BY <2>3, <2>4
<1> QED  BY <1>3, <1>4, <1>5 DEF Good

(* An acknowledgement without payload is taken; what is held stays. *)
LEMMA SkipBare ==
  ASSUME NEW f, NEW g, NEW b \in Nat, NEW r,
         Typed(f, 0, b + 1), Good(f, 0, b + 1, r, "ios"),
         f[0].n = 0, ~Pay(f[1]), ~Mark(f[1]),
         g[0] = f[0], \A i \in 1..b : g[i] = f[i + 1]
  PROVE  Good(g, 0, b, r, "ios")
<1> DEFINE h == [i \in 1..b |-> f[i + 1]]
<1>1. Good(h, 1, b, r, "ios")
  <2>1. \A i \in 1..((b + 1) - 1) : h[i] = f[i + 1]
    OBVIOUS
  <2>2. Good(h, 1, (b + 1) - 1, r, "ios")
    <3> HIDE DEF h
    <3>1. b + 1 \in Int /\ 0 \in Int /\ 1 \in Int /\ 1 \in Nat /\ 1 + 1 >= 0
      OBVIOUS
    <3> QED  BY <2>1, <3>1, Suffix
  <2>3. (b + 1) - 1 = b
    OBVIOUS
  <2> QED  BY <2>2, <2>3
<1>2. \A i \in 1..b : g[i] = h[i] /\ i + 1 \in 1..(b + 1) /\ g[i] = f[i + 1]
  OBVIOUS
<1> HIDE DEF h
<1>3. \A i \in 0..b : i # 0 => i \in 1..b
  OBVIOUS
<1>4. Ordered(g, 0, b, r)
  <2>1. \A i \in 1..b : Pay(g[i]) => Sent(g[i].unit, r)
    BY <1>1, <1>2 DEF Good, Ordered
  <2>2. \A i, j \in 1..b : i < j /\ Pay(g[i]) /\ Pay(g[j]) => Before(g[i].unit, g[j].unit)
    BY <1>1, <1>2 DEF Good, Ordered
  <2>3. 0 \in 0..(b + 1) /\ \A j \in 1..b : 0 < j + 1 /\ j + 1 \in 0..(b + 1)
    OBVIOUS
  <2>4. \A j \in 1..b : Pay(g[0]) /\ Pay(g[j]) => Before(g[0].unit, g[j].unit)
    BY <1>2, <2>3 DEF Good, Ordered
  <2>5. Pay(g[0]) => Sent(g[0].unit, r)
    BY <2>3 DEF Good, Ordered
  <2> QED  BY <1>3, <2>1, <2>2, <2>4, <2>5 DEF Ordered
<1>5. Segmented(g, 0, b)
  <2> SUFFICES ASSUME NEW i \in 1..b, g[i].n > 0
               PROVE  /\ g[i].k = "ack"
                      /\ \A j \in 1..(g[i].n - 1) :
                           i + j <= b /\ g[i + j].k = "data" /\ g[i + j].unit = Later(g[i].unit, j)
    BY <1>3 DEF Segmented
  <2>1. /\ h[i].k = "ack"
        /\ \A j \in 1..(h[i].n - 1) :
             i + j <= b /\ h[i + j].k = "data" /\ h[i + j].unit = Later(h[i].unit, j)
    BY <1>1, <1>2 DEF Good, Segmented
  <2>2. \A j \in 1..(g[i].n - 1) : i + j <= b => i + j \in 1..b
    BY <1>2 DEF Typed
  <2> QED  BY <1>2, <2>1, <2>2
<1>6. Chained(g, 0, b, r)
  <2>1. ASSUME NEW i \in 1..b, Pay(g[i])
        PROVE  /\ \A j \in (i + 1)..b : Pay(g[j]) /\ Plain(g, i + 1, j - 1) => Follows(g[i].unit, g[j].unit)
               /\ Plain(g, i + 1, b) => Leads(g[i].unit, r)
    <3>1. \A j \in i..b : Plain(g, i + 1, j) => Plain(h, i + 1, j)
      BY <1>2 DEF Plain
    <3>2. \A j \in (i + 1)..b : j - 1 \in i..b /\ j \in 1..b
      OBVIOUS
    <3>3. b \in i..b /\ Pay(h[i]) /\ h[i] = g[i] /\ \A j \in (i + 1)..b : g[j] = h[j]
      BY <1>2, <2>1
    <3>4. /\ \A j \in (i + 1)..b : Pay(h[j]) /\ Plain(h, i + 1, j - 1) => Follows(h[i].unit, h[j].unit)
          /\ Plain(h, i + 1, b) => Leads(h[i].unit, r)
      BY <1>1, <3>3 DEF Good, Chained
    <3> QED  BY <3>1, <3>2, <3>3, <3>4
  <2>2. ASSUME NEW j \in 0..b, Plain(g, 0 + 1, j) PROVE Plain(f, 0 + 1, (j + 1))
    <3> SUFFICES ASSUME NEW k \in 1..(j + 1) PROVE ~Pay(f[k]) /\ ~Mark(f[k])
      BY DEF Plain
    <3>1. CASE k = 1
      BY <3>1
    <3>2. CASE k # 1
      <4>1. k - 1 \in 1..j /\ k - 1 \in 1..b /\ (k - 1) + 1 = k
        BY <3>2
      <4> QED  BY <1>2, <2>2, <4>1 DEF Plain
    <3> QED  BY <3>1, <3>2
  <2>3. ASSUME Pay(g[0]), NEW j \in (0 + 1)..b, Pay(g[j]), Plain(g, 0 + 1, j - 1)
        PROVE  Follows(g[0].unit, g[j].unit)
    <3>1. Plain(f, 0 + 1, (j - 1) + 1) /\ (j - 1) + 1 = (j + 1) - 1
      BY <2>2, <2>3
    <3>2. j + 1 \in (0 + 1)..(b + 1) /\ Pay(f[j + 1]) /\ 0 \in 0..(b + 1)
      BY <1>2, <2>3
    <3> QED  BY <1>2, <2>3, <3>1, <3>2 DEF Good, Chained
  <2>4. ASSUME Pay(g[0]), Plain(g, 0 + 1, b) PROVE Leads(g[0].unit, r)
    <3>1. Plain(f, 0 + 1, b + 1) /\ 0 \in 0..(b + 1)
      BY <2>2, <2>4
    <3> QED  BY <2>4, <3>1 DEF Good, Chained
  <2> QED  BY <1>3, <2>1, <2>3, <2>4 DEF Chained
<1> QED  BY <1>4, <1>5, <1>6 DEF Good

Agree(f, g, a, b) == \A i \in a..b : g[i] = f[i]
SegmentAt(g, b, n, r, t) ==
  \A i \in 1..n : /\ g[b + i].unit = [id |-> r.id, at |-> r.sent + i - 1, len |-> r.len]
                  /\ IF i = 1 /\ t = "ios" THEN g[b + i].k = "ack" /\ g[b + i].n = n
                                           ELSE g[b + i].k = "data" /\ g[b + i].n = 0

(* The phone sends n more units of its request. *)
LEMMA AddSegment ==
  ASSUME NEW f, NEW g, NEW a \in Int, NEW b \in Int, NEW n \in Nat \ {0}, NEW r, NEW q, NEW t,
         a <= b + 1, t \in {"ios", "android"},
         Typed(f, a, b), Good(f, a, b, r, t),
         r.id \in Nat, r.len \in Nat, r.sent \in Nat, r.sent + n <= r.len,
         q.id = r.id, q.len = r.len, q.sent = r.sent + n,
         Agree(f, g, a, b), SegmentAt(g, b, n, r, t)
  PROVE  Good(g, a, b + n, q, t)
<1> USE DEF Agree, SegmentAt
<1>1. \A i \in a..(b + n) : i \notin a..b => i - b \in 1..n /\ b + (i - b) = i
  OBVIOUS
<1>2. \A i \in 1..n : b + i \in a..(b + n) /\ b + i \notin a..b /\ Pay(g[b + i])
  <2> SUFFICES ASSUME NEW i \in 1..n PROVE b + i \in a..(b + n) /\ b + i \notin a..b /\ Pay(g[b + i])
    OBVIOUS
  <2>1. g[b + i].k = "data" \/ g[b + i].n = n
    OBVIOUS
  <2>2. n > 0 /\ b + i \in a..(b + n) /\ b + i \notin a..b
    OBVIOUS
  <2> QED  BY <2>1, <2>2 DEF Pay
<1>3. \A i \in a..(b + n) : i \notin a..b =>
        /\ Pay(g[i])
        /\ g[i].unit = [id |-> r.id, at |-> r.sent + (i - b) - 1, len |-> r.len]
        /\ IF i = b + 1 /\ t = "ios" THEN g[i].k = "ack" /\ g[i].n = n
                                     ELSE g[i].k = "data" /\ g[i].n = 0
  <2> SUFFICES ASSUME NEW i \in a..(b + n), i \notin a..b
               PROVE  /\ Pay(g[i])
                      /\ g[i].unit = [id |-> r.id, at |-> r.sent + (i - b) - 1, len |-> r.len]
                      /\ IF i = b + 1 /\ t = "ios" THEN g[i].k = "ack" /\ g[i].n = n
                                                   ELSE g[i].k = "data" /\ g[i].n = 0
    OBVIOUS
  <2>1. i - b \in 1..n /\ b + (i - b) = i /\ (i = b + 1 <=> i - b = 1)
    BY <1>1
  <2> QED  BY <1>2, <2>1
<1>4. Ordered(g, a, b + n, q)
  <2>1. ASSUME NEW i \in a..(b + n), Pay(g[i]) PROVE Sent(g[i].unit, q)
    <3>1. CASE i \in a..b
      BY <2>1, <3>1 DEF Good, Ordered, Sent, Typed, UnitOK
    <3>2. CASE i \notin a..b
      <4>1. i - b \in 1..n
        BY <1>1, <3>2
      <4>2. g[i].unit = [id |-> r.id, at |-> r.sent + (i - b) - 1, len |-> r.len]
        BY <1>3, <3>2
      <4>3. r.sent + (i - b) - 1 < r.len /\ r.sent + (i - b) - 1 < q.sent
        BY <4>1
      <4> QED  BY <4>2, <4>3 DEF Sent
    <3> QED  BY <3>1, <3>2
  <2>2. ASSUME NEW i \in a..(b + n), NEW j \in a..(b + n), i < j, Pay(g[i]), Pay(g[j])
        PROVE  Before(g[i].unit, g[j].unit)
    <3>1. CASE j \in a..b
      BY <2>2, <3>1 DEF Good, Ordered
    <3>2. CASE j \notin a..b /\ i \in a..b
      <4>1. Sent(g[i].unit, r) /\ UnitOK(g[i].unit)
        BY <2>2, <3>2 DEF Good, Ordered, Typed
      <4>0. j - b \in 1..n /\ g[j].unit = [id |-> r.id, at |-> r.sent + (j - b) - 1, len |-> r.len]
        BY <1>1, <1>3, <3>2
      <4>2. g[j].unit.id = r.id /\ g[j].unit.at >= r.sent /\ g[j].unit.at \in Nat
        BY <4>0
      <4> QED  BY <4>1, <4>2 DEF Sent, Before, UnitOK
    <3>3. CASE j \notin a..b /\ i \notin a..b
      <4>1. g[i].unit = [id |-> r.id, at |-> r.sent + (i - b) - 1, len |-> r.len]
        BY <1>3, <3>3
      <4>2. g[j].unit = [id |-> r.id, at |-> r.sent + (j - b) - 1, len |-> r.len]
        BY <1>3, <3>3
      <4>3. r.sent + (i - b) - 1 < r.sent + (j - b) - 1
        BY <2>2
      <4> QED  BY <4>1, <4>2, <4>3 DEF Before
    <3> QED  BY <2>2, <3>1, <3>2, <3>3
  <2> QED  BY <2>1, <2>2 DEF Ordered
<1>5. ASSUME t = "ios" PROVE Segmented(g, a, b + n)
  <2> SUFFICES ASSUME NEW i \in a..(b + n), g[i].n > 0
               PROVE  /\ g[i].k = "ack"
                      /\ \A j \in 1..(g[i].n - 1) :
                           i + j <= b + n /\ g[i + j].k = "data" /\ g[i + j].unit = Later(g[i].unit, j)
    BY DEF Segmented
  <2>1. CASE i \in a..b
    <3>1. /\ f[i].k = "ack"
          /\ \A j \in 1..(f[i].n - 1) :
               i + j <= b /\ f[i + j].k = "data" /\ f[i + j].unit = Later(f[i].unit, j)
      BY <1>5, <2>1 DEF Good, Segmented
    <3>2. \A j \in 1..(f[i].n - 1) : i + j \in a..b
      BY <2>1, <3>1 DEF Typed
    <3> QED  BY <2>1, <3>1, <3>2
  <2>2. CASE i \notin a..b
    <3>0. IF i = b + 1 /\ t = "ios" THEN g[i].k = "ack" /\ g[i].n = n ELSE g[i].n = 0
      BY <1>3, <2>2
    <3>1. i = b + 1 /\ g[i].k = "ack" /\ g[i].n = n
      BY <1>5, <3>0
    <3>2. ASSUME NEW j \in 1..(n - 1)
          PROVE  i + j <= b + n /\ g[i + j].k = "data" /\ g[i + j].unit = Later(g[i].unit, j)
      <4>1. i + j \in a..(b + n) /\ i + j \notin a..b /\ i + j # b + 1 /\ (i + j) - b = j + 1
        BY <3>1
      <4>2. g[i + j].k = "data" /\ g[i + j].unit = [id |-> r.id, at |-> r.sent + (j + 1) - 1, len |-> r.len]
        BY <1>3, <4>1
      <4>3. g[i].unit = [id |-> r.id, at |-> r.sent + 1 - 1, len |-> r.len]
        BY <1>3, <2>2, <3>1
      <4> QED  BY <3>1, <4>1, <4>2, <4>3 DEF Later
    <3> QED  BY <3>1, <3>2
  <2> QED  BY <2>1, <2>2
<1>6. ASSUME t = "ios" PROVE Chained(g, a, b + n, q)
  <2> SUFFICES ASSUME NEW i \in a..(b + n), Pay(g[i])
               PROVE  /\ \A j \in (i + 1)..(b + n) : Pay(g[j]) /\ Plain(g, i + 1, j - 1) =>
                                                       Follows(g[i].unit, g[j].unit)
                      /\ Plain(g, i + 1, b + n) => Leads(g[i].unit, q)
    BY DEF Chained
  <2>1. CASE i \in a..b
    <3>1. \A j \in i..b : Plain(g, i + 1, j) => Plain(f, i + 1, j)
      BY <2>1 DEF Plain
    <3>2. /\ \A j \in (i + 1)..b : Pay(f[j]) /\ Plain(f, i + 1, j - 1) => Follows(f[i].unit, f[j].unit)
          /\ Plain(f, i + 1, b) => Leads(f[i].unit, r)
      BY <1>6, <2>1 DEF Good, Chained
    <3>3. ASSUME NEW j \in (i + 1)..(b + n), Pay(g[j]), Plain(g, i + 1, j - 1)
          PROVE  Follows(g[i].unit, g[j].unit)
      <4>1. CASE j <= b
        <5>1. j \in (i + 1)..b /\ j - 1 \in i..b
          BY <4>1
        <5> QED  BY <2>1, <3>1, <3>2, <3>3, <5>1
      <4>2. CASE j > b
        <5>1. j = b + 1
          <6> SUFFICES ASSUME j # b + 1 PROVE FALSE
            OBVIOUS
          <6>1. b + 1 \in (i + 1)..(j - 1)
            BY <2>1, <4>2
          <6> QED  BY <1>2, <3>3, <6>1 DEF Plain
        <5>2. Plain(f, i + 1, b)
          <6>1. j - 1 = b /\ b \in i..b
            BY <2>1, <5>1
          <6> QED  BY <3>1, <3>3, <6>1
        <5>3. Leads(f[i].unit, r) /\ f[i] = g[i] /\ UnitOK(f[i].unit)
          BY <2>1, <3>2, <5>2 DEF Typed
        <5>4. g[j].unit = [id |-> r.id, at |-> r.sent, len |-> r.len]
          BY <5>1
        <5>5. r.sent # r.len
          OBVIOUS
        <5> QED  BY <5>3, <5>4, <5>5 DEF Leads, Follows, Later, UnitOK
      <4> QED  BY <4>1, <4>2
    <3>4. ~Plain(g, i + 1, b + n)
      <4>1. b + 1 \in (i + 1)..(b + n)
        BY <2>1
      <4> QED  BY <1>2, <4>1 DEF Plain
    <3> QED  BY <3>3, <3>4
  <2>2. CASE i \notin a..b
    <3>1. g[i].unit = [id |-> r.id, at |-> r.sent + (i - b) - 1, len |-> r.len]
      BY <1>3, <2>2
    <3>2. ASSUME NEW j \in (i + 1)..(b + n), Plain(g, i + 1, j - 1)
          PROVE  Follows(g[i].unit, g[j].unit)
      <4>1. j = i + 1
        <5> SUFFICES ASSUME j # i + 1 PROVE FALSE
          OBVIOUS
        <5>1. i + 1 \in (i + 1)..(j - 1) /\ i + 1 \in a..(b + n) /\ i + 1 \notin a..b
          BY <2>2
        <5> QED  BY <1>3, <3>2, <5>1 DEF Plain
      <4>2. j \in a..(b + n) /\ j \notin a..b
        BY <2>2
      <4>3. g[j].unit = [id |-> r.id, at |-> r.sent + (j - b) - 1, len |-> r.len]
        BY <1>3, <4>2
      <4>4. r.sent + (j - b) - 1 = r.sent + (i - b) - 1 + 1
        BY <4>1
      <4> QED  BY <3>1, <4>3, <4>4 DEF Follows, Later
    <3>3. ASSUME Plain(g, i + 1, b + n) PROVE Leads(g[i].unit, q)
      <4>1. i = b + n
        <5> SUFFICES ASSUME i # b + n PROVE FALSE
          OBVIOUS
        <5>1. i + 1 \in (i + 1)..(b + n) /\ i + 1 \in a..(b + n) /\ i + 1 \notin a..b
          BY <2>2
        <5> QED  BY <1>3, <3>3, <5>1 DEF Plain
      <4> QED  BY <3>1, <4>1 DEF Leads, Whole1
    <3> QED  BY <3>2, <3>3
  <2> QED  BY <2>1, <2>2
<1>7. ASSUME t = "android" PROVE Dense(g, a, b + n, q)
  <2> SUFFICES ASSUME NEW i \in a..(b + n)
               PROVE  /\ g[i].k = "data"
                      /\ \A j \in i..(b + n) : g[i].unit.at + (j - i) < g[i].unit.len =>
                                                 g[j].unit = Later(g[i].unit, j - i)
                      /\ g[i].unit.at + (b + n + 1 - i) < g[i].unit.len =>
                           /\ g[i].unit.id = q.id /\ g[i].unit.len = q.len
                           /\ q.sent = g[i].unit.at + (b + n + 1 - i)
    BY DEF Dense
  <2>1. CASE i \in a..b
    <3>1. /\ f[i].k = "data"
          /\ \A j \in i..b : f[i].unit.at + (j - i) < f[i].unit.len => f[j].unit = Later(f[i].unit, j - i)
          /\ f[i].unit.at + (b + 1 - i) < f[i].unit.len =>
               f[i].unit.id = r.id /\ f[i].unit.len = r.len /\ r.sent = f[i].unit.at + (b + 1 - i)
      BY <1>7, <2>1 DEF Good, Dense
    <3>2. UnitOK(f[i].unit) /\ g[i] = f[i]
      BY <2>1 DEF Typed
    <3>3. ASSUME NEW j \in i..(b + n), g[i].unit.at + (j - i) < g[i].unit.len
          PROVE  g[j].unit = Later(g[i].unit, j - i)
      <4>1. CASE j <= b
        <5>1. j \in i..b /\ j \in a..b
          BY <2>1, <4>1
        <5> QED  BY <3>1, <3>2, <3>3, <5>1
      <4>2. CASE j > b
        <5>1. j \in a..(b + n) /\ j \notin a..b
          BY <2>1, <4>2
        <5>2. f[i].unit.at + (b + 1 - i) < f[i].unit.len
          BY <3>2, <3>3, <4>2 DEF UnitOK
        <5>3. r.sent + (j - b) - 1 = f[i].unit.at + (j - i)
          BY <3>1, <3>2, <5>2 DEF UnitOK
        <5>4. g[j].unit = [id |-> r.id, at |-> r.sent + (j - b) - 1, len |-> r.len]
          BY <1>3, <5>1
        <5> QED  BY <3>1, <3>2, <5>2, <5>3, <5>4 DEF Later
      <4> QED  BY <4>1, <4>2
    <3>4. ASSUME g[i].unit.at + (b + n + 1 - i) < g[i].unit.len
          PROVE  /\ g[i].unit.id = q.id /\ g[i].unit.len = q.len
                 /\ q.sent = g[i].unit.at + (b + n + 1 - i)
      <4>1. f[i].unit.at + (b + 1 - i) < f[i].unit.len
        BY <3>2, <3>4 DEF UnitOK
      <4> QED  BY <3>1, <3>2, <4>1 DEF UnitOK
    <3> QED  BY <3>1, <3>2, <3>3, <3>4
  <2>2. CASE i \notin a..b
    <3>1. /\ g[i].unit = [id |-> r.id, at |-> r.sent + (i - b) - 1, len |-> r.len]
          /\ g[i].k = "data"
      BY <1>3, <1>7, <2>2
    <3>2. ASSUME NEW j \in i..(b + n) PROVE g[j].unit = Later(g[i].unit, j - i)
      <4>1. j \in a..(b + n) /\ j \notin a..b
        BY <2>2
      <4>2. g[j].unit = [id |-> r.id, at |-> r.sent + (j - b) - 1, len |-> r.len]
        BY <1>3, <4>1
      <4>3. r.sent + (j - b) - 1 = (r.sent + (i - b) - 1) + (j - i)
        OBVIOUS
      <4> QED  BY <3>1, <4>2, <4>3 DEF Later
    <3>3. g[i].unit.at + (b + n + 1 - i) = q.sent
      BY <3>1
    <3> QED  BY <3>1, <3>2, <3>3
  <2> QED  BY <2>1, <2>2
<1> QED  BY <1>4, <1>5, <1>6, <1>7 DEF Good

(* The phone begins a request when it is done with the one before. *)
LEMMA AskNext ==
  ASSUME NEW f, NEW a \in Int, NEW b \in Int, NEW r, NEW q, NEW t,
         Typed(f, a, b), Good(f, a, b, r, t),
         r.id \in Nat, r.len \in Nat, r.sent = r.len, q.id = r.id + 1, q.sent = 0
  PROVE  Good(f, a, b, q, t)
<1>1. Ordered(f, a, b, q)
  BY DEF Good, Ordered, Sent, Typed, UnitOK
<1>2. t = "ios" => Chained(f, a, b, q)
  BY DEF Good, Chained, Leads
<1>3. t = "android" => Dense(f, a, b, q)
  <2> SUFFICES ASSUME t = "android", NEW i \in a..b PROVE ~(f[i].unit.at + (b + 1 - i) < f[i].unit.len)
    BY DEF Good, Dense
  <2> QED  BY DEF Good, Dense, Typed, UnitOK
<1> QED  BY <1>1, <1>2, <1>3 DEF Good
-----------------------------------------------------------------------------
(* The same about the pipe. *)
Pk == [k : Kinds, n : 0..Segment, ack : 0..(SeqWrap - 1),
       short : BOOLEAN, unit : Units]

LEMMA PkTyped ==
  /\ Segment \in Nat /\ BufUnits \in Nat /\ BufUnits > 0
  /\ \A u \in Units : UnitOK(u)
  /\ \A p \in Pk : p.n \in Nat /\ p.unit \in Units
<1>1. Segment \in Nat /\ BufUnits \in Nat /\ BufUnits > 0 /\ Lens \subseteq Nat /\ MaxAsks \in Nat
  BY SizesArePos
<1>2. \A u \in Units : UnitOK(u)
  <2> SUFFICES ASSUME NEW u \in Units PROVE UnitOK(u)
    OBVIOUS
  <2>1. Sizes \subseteq Nat /\ 0..MaxAsks \subseteq Nat
    BY <1>1 DEF Sizes
  <2>2. u \in [id : 0..MaxAsks, at : Nat, len : Sizes]
    BY DEF Units
  <2>3. u.id \in 0..MaxAsks /\ u.at \in Nat /\ u.len \in Sizes
    BY <2>2
  <2> QED  BY <2>1, <2>3 DEF UnitOK
<1> QED  BY <1>1, <1>2 DEF Pk

LEMMA Dropped ==
  ASSUME NEW S, NEW s \in Seq(S), NEW n \in 0..Len(s)
  PROVE  LET d == SubSeq(s, n + 1, Len(s)) IN
         /\ d \in Seq(S) /\ Len(d) = Len(s) - n
         /\ \A i \in 1..(Len(s) - n) : i + n \in 1..Len(s) /\ d[i] = s[i + n]
OBVIOUS

Shows(f, s) == \A i \in 1..Len(s) : f[i] = s[i]

LEMMA LineAt ==
  ASSUME NEW s \in Seq(Pk), NEW o \in {0, 1}, NEW u, UnitOK(u)
  PROVE  /\ Len(s) \in Nat
         /\ Shows(Line(o, u, s), s)
         /\ o = 0 => Line(o, u, s)[0] = [k |-> "data", n |-> 0, unit |-> u]
         /\ Typed(Line(o, u, s), o, Len(s))
<1>1. Len(s) \in Nat
  OBVIOUS
<1>2. \A i \in 1..Len(s) : Line(o, u, s)[i] = s[i] /\ s[i] \in Pk
  BY <1>1 DEF Line
<1>3. o = 0 => Line(o, u, s)[0] = [k |-> "data", n |-> 0, unit |-> u]
  BY <1>1 DEF Line
<1>4. Typed(Line(o, u, s), o, Len(s))
  <2> SUFFICES ASSUME NEW i \in o..Len(s)
               PROVE  Line(o, u, s)[i].n \in Nat /\ UnitOK(Line(o, u, s)[i].unit)
    BY DEF Typed
  <2>1. CASE i = 0
    BY <1>3, <2>1
  <2>2. CASE i # 0
    <3>1. i \in 1..Len(s)
      BY <1>1, <2>2
    <3> QED  BY <1>2, <3>1, PkTyped
  <2> QED  BY <2>1, <2>2
<1> QED  BY <1>1, <1>2, <1>3, <1>4 DEF Shows

(* Packets are dropped and nothing is held. *)
LEMMA PipeDrop ==
  ASSUME NEW s \in Seq(Pk), NEW o \in {0, 1}, NEW u, UnitOK(u), NEW r, NEW t,
         GoodPipe(o, u, s, r, t), NEW n \in 0..Len(s), NEW v, UnitOK(v)
  PROVE  GoodPipe(1, v, SubSeq(s, n + 1, Len(s)), r, t)
<1> DEFINE d == SubSeq(s, n + 1, Len(s))
           f == Line(o, u, s)
           g == Line(1, v, d)
<1>1. d \in Seq(Pk) /\ Len(d) = Len(s) - n
      /\ \A i \in 1..(Len(s) - n) : i + n \in 1..Len(s) /\ d[i] = s[i + n]
  BY Dropped
<1> HIDE DEF d
<1>2. /\ Len(s) \in Nat
      /\ Shows(f, s)
      /\ Typed(f, o, Len(s))
  BY LineAt
<1>3. \A i \in 1..Len(d) : g[i] = d[i]
  BY DEF Line
<1> HIDE DEF f, g
<1>4. \A i \in 1..(Len(s) - n) : g[i] = f[i + n]
  BY <1>1, <1>2, <1>3 DEF Shows
<1>5. Good(f, o, Len(s), r, t)
  BY DEF GoodPipe, f
<1>6. Good(g, 1, Len(s) - n, r, t)
  <2>1. o \in Int /\ Len(s) \in Int /\ 1 \in Int /\ n \in Nat /\ 1 + n >= o
    BY <1>2
  <2> QED  BY <1>2, <1>4, <1>5, <2>1, Suffix
<1> QED  BY <1>1, <1>3, <1>6 DEF GoodPipe, d, g

(* Packets are taken; the last of them is held. *)
LEMMA PipeTake ==
  ASSUME NEW s \in Seq(Pk), NEW o \in {0, 1}, NEW u, UnitOK(u), NEW r, NEW t,
         GoodPipe(o, u, s, r, t), NEW n \in 1..Len(s), Pay(s[n])
  PROVE  GoodPipe(0, s[n].unit, SubSeq(s, n + 1, Len(s)), r, t)
<1> DEFINE d == SubSeq(s, n + 1, Len(s))
           f == Line(o, u, s)
           g == Line(0, s[n].unit, d)
<1>1. d \in Seq(Pk) /\ Len(d) = Len(s) - n
      /\ \A i \in 1..(Len(s) - n) : i + n \in 1..Len(s) /\ d[i] = s[i + n]
  BY Dropped
<1> HIDE DEF d
<1>2. /\ Len(s) \in Nat
      /\ Shows(f, s)
      /\ Typed(f, o, Len(s))
  BY LineAt
<1>3. /\ \A i \in 1..Len(d) : g[i] = d[i]
      /\ g[0].k = "data" /\ g[0].n = 0 /\ g[0].unit = s[n].unit
  <2>1. UnitOK(s[n].unit)
    BY PkTyped
  <2>2. /\ Shows(Line(0, s[n].unit, d), d)
        /\ Line(0, s[n].unit, d)[0] = [k |-> "data", n |-> 0, unit |-> s[n].unit]
    BY <1>1, <2>1, LineAt
  <2> QED  BY <2>2 DEF Shows
<1> HIDE DEF f, g
<1>4. \A i \in 0..(Len(s) - n) :
        g[i] = f[i + n] \/ (i = 0 /\ g[i].k = "data" /\ g[i].n = 0 /\ g[i].unit = f[i + n].unit
                             /\ Pay(f[i + n]))
  <2> SUFFICES ASSUME NEW i \in 0..(Len(s) - n)
               PROVE  g[i] = f[i + n] \/ (i = 0 /\ g[i].k = "data" /\ g[i].n = 0
                                           /\ g[i].unit = f[i + n].unit /\ Pay(f[i + n]))
    OBVIOUS
  <2>1. CASE i = 0
    <3>1. i + n = n
      BY <2>1
    <3> QED  BY <1>2, <1>3, <2>1, <3>1 DEF Shows
  <2>2. CASE i # 0
    <3>1. i \in 1..(Len(s) - n)
      BY <2>2
    <3> QED  BY <1>1, <1>2, <1>3, <3>1 DEF Shows
  <2> QED  BY <2>1, <2>2
<1>5. Good(f, o, Len(s), r, t)
  BY DEF GoodPipe, f
<1>6. Good(g, 0, Len(s) - n, r, t)
  <2>1. o \in Int /\ Len(s) \in Int /\ 0 \in Int /\ n \in Nat /\ 0 + n >= o
    BY <1>2
  <2> QED  BY <1>2, <1>4, <1>5, <2>1, Suffix
<1> QED  BY <1>1, <1>3, <1>6 DEF GoodPipe, d, g

LEMMA PipeSkip ==
  ASSUME NEW s \in Seq(Pk), NEW u, UnitOK(u), NEW r, s # <<>>,
         GoodPipe(0, u, s, r, "ios"), ~Pay(s[1]), ~Mark(s[1])
  PROVE  GoodPipe(0, u, SubSeq(s, 2, Len(s)), r, "ios")
<1> DEFINE d == SubSeq(s, 2, Len(s))
           f == Line(0, u, s)
           g == Line(0, u, d)
<1>0. Len(s) \in Nat /\ 1 \in 0..Len(s)
  OBVIOUS
<1>1. d \in Seq(Pk) /\ Len(d) = Len(s) - 1
      /\ \A i \in 1..(Len(s) - 1) : i + 1 \in 1..Len(s) /\ d[i] = s[i + 1]
  <2>1. d = SubSeq(s, 1 + 1, Len(s))
    OBVIOUS
  <2> HIDE DEF d
  <2> QED  BY <1>0, <2>1, Dropped
<1> HIDE DEF d
<1>2. /\ Shows(f, s)
      /\ f[0] = [k |-> "data", n |-> 0, unit |-> u] /\ Typed(f, 0, Len(s))
  BY LineAt
<1>3. Shows(g, d)
  BY <1>1, LineAt
<1>4. g[0] = f[0]
  BY <1>0, <1>1 DEF Line
<1>5. Good(f, 0, Len(s), r, "ios")
  BY DEF GoodPipe
<1> HIDE DEF f, g
<1>6. Good(g, 0, Len(d), r, "ios")
  <2> DEFINE b == Len(d)
  <2>1. b \in Nat /\ b + 1 = Len(s)
    BY <1>0, <1>1
  <2> HIDE DEF b
  <2>2. \A i \in 1..b : g[i] = f[i + 1]
    BY <1>1, <1>2, <1>3, <2>1 DEF b, Shows
  <2>5. f[0].n = 0
    BY <1>2
  <2>3. ~Pay(f[1]) /\ ~Mark(f[1])
    BY <1>0, <1>2 DEF Shows
  <2>4. Good(g, 0, b, r, "ios")
    BY <1>2, <1>4, <1>5, <2>1, <2>2, <2>3, <2>5, SkipBare
  <2> QED  BY <2>4 DEF b
<1> QED  BY <1>6 DEF GoodPipe, d, g

(* Something is added. *)
LEMMA PipeBare ==
  ASSUME NEW s \in Seq(Pk), NEW o \in {0, 1}, NEW u, UnitOK(u), NEW r, NEW q,
         GoodPipe(o, u, s, r, "ios"), NEW p, p.n = 0, p.k # "data", Mark(p) \/ q = r,
         q.id = r.id, q.len = r.len, r.sent \in Nat, q.sent \in Nat, q.sent >= r.sent
  PROVE  GoodPipe(o, u, Append(s, p), q, "ios")
<1> DEFINE d == Append(s, p)
           f == Line(o, u, s)
           g == Line(o, u, d)
<1>1. Len(d) = Len(s) + 1 /\ d[Len(s) + 1] = p /\ \A i \in 1..Len(s) : d[i] = s[i]
  OBVIOUS
<1> HIDE DEF d
<1>2. /\ Len(s) \in Nat
      /\ Typed(f, o, Len(s))
  BY LineAt
<1>3. g[Len(s) + 1] = p /\ \A i \in o..Len(s) : g[i] = f[i]
  BY <1>1, <1>2 DEF Line
<1>4. Good(f, o, Len(s), r, "ios")
  BY DEF GoodPipe
<1> HIDE DEF f, g
<1>5. Good(g, o, Len(s) + 1, q, "ios")
  <2>1. o \in Int /\ Len(s) \in Int /\ o <= Len(s) + 1
    BY <1>2
  <2>2. g[Len(s) + 1].n = 0 /\ g[Len(s) + 1].k # "data" /\ (Mark(g[Len(s) + 1]) \/ q = r)
    BY <1>3
  <2> QED  BY <1>2, <1>3, <1>4, <2>1, <2>2, AddBare
<1> QED  BY <1>1, <1>5 DEF GoodPipe, d, g

IsSegment(m, n, r, t) ==
  \A i \in 1..n : /\ m[i].unit = [id |-> r.id, at |-> r.sent + i - 1, len |-> r.len]
                  /\ IF i = 1 /\ t = "ios" THEN m[i].k = "ack" /\ m[i].n = n
                                           ELSE m[i].k = "data" /\ m[i].n = 0

Joins(d, s, m) == /\ Len(d) = Len(s) + Len(m)
                  /\ \A i \in 1..Len(s) : d[i] = s[i]
                  /\ \A i \in 1..Len(m) : d[Len(s) + i] = m[i]

LEMMA Joined ==
  ASSUME NEW S, NEW s \in Seq(S), NEW m \in Seq(S)
  PROVE  Joins(s \o m, s, m)
<1>1. Len(s \o m) = Len(s) + Len(m)
  OBVIOUS
<1>2. \A i \in 1..Len(s) : (s \o m)[i] = s[i]
  OBVIOUS
<1>3. \A i \in 1..Len(m) : (s \o m)[Len(s) + i] = m[i]
  <2> SUFFICES ASSUME NEW i \in 1..Len(m) PROVE (s \o m)[Len(s) + i] = m[i]
    OBVIOUS
  <2>1. Len(s) \in Nat /\ Len(m) \in Nat
    OBVIOUS
  <2>2. Len(s) + i \in 1..(Len(s) + Len(m)) /\ ~(Len(s) + i <= Len(s)) /\ (Len(s) + i) - Len(s) = i
    BY <2>1
  <2> QED  BY <2>2
<1> QED  BY <1>1, <1>2, <1>3 DEF Joins

LEMMA PipeSegment ==
  ASSUME NEW s \in Seq(Pk), NEW o \in {0, 1}, NEW u, UnitOK(u), NEW r, NEW q, NEW t,
         t \in {"ios", "android"}, GoodPipe(o, u, s, r, t),
         NEW n \in Nat \ {0}, NEW m \in Seq(Pk), Len(m) = n,
         r.id \in Nat, r.len \in Nat, r.sent \in Nat, r.sent + n <= r.len,
         q.id = r.id, q.len = r.len, q.sent = r.sent + n,
         IsSegment(m, n, r, t)
  PROVE  GoodPipe(o, u, s \o m, q, t)
<1> DEFINE d == s \o m
           f == Line(o, u, s)
           g == Line(o, u, d)
<1>a. Joins(d, s, m)
  BY Joined
<1> HIDE DEF d
<1>1. /\ Len(d) = Len(s) + n
      /\ \A i \in 1..Len(s) : d[i] = s[i]
      /\ \A i \in 1..n : d[Len(s) + i] = m[i]
  BY <1>a DEF Joins
<1>2. /\ Len(s) \in Nat
      /\ Typed(f, o, Len(s))
  BY LineAt
<1>3. /\ \A i \in o..Len(s) : g[i] = f[i]
      /\ \A i \in 1..n : g[Len(s) + i] = m[i]
  BY <1>1, <1>2 DEF Line
<1>4. Good(f, o, Len(s), r, t)
  BY DEF GoodPipe
<1> HIDE DEF f, g
<1>5. Good(g, o, Len(s) + n, q, t)
  <2>1. o \in Int /\ Len(s) \in Int /\ o <= Len(s) + 1
    BY <1>2
  <2>2. Agree(f, g, o, Len(s))
    BY <1>3 DEF Agree
  <2>3. SegmentAt(g, Len(s), n, r, t)
    <3> SUFFICES ASSUME NEW i \in 1..n
                 PROVE  /\ g[Len(s) + i].unit = [id |-> r.id, at |-> r.sent + i - 1, len |-> r.len]
                        /\ IF i = 1 /\ t = "ios" THEN g[Len(s) + i].k = "ack" /\ g[Len(s) + i].n = n
                                                 ELSE g[Len(s) + i].k = "data" /\ g[Len(s) + i].n = 0
      BY DEF SegmentAt
    <3>1. g[Len(s) + i] = m[i]
      BY <1>3
    <3>2. /\ m[i].unit = [id |-> r.id, at |-> r.sent + i - 1, len |-> r.len]
          /\ IF i = 1 /\ t = "ios" THEN m[i].k = "ack" /\ m[i].n = n
                                   ELSE m[i].k = "data" /\ m[i].n = 0
      BY DEF IsSegment
    <3> QED  BY <3>1, <3>2
  <2> QED  BY <1>2, <1>4, <2>1, <2>2, <2>3, AddSegment
<1> QED  BY <1>1, <1>5 DEF GoodPipe, d, g

LEMMA PipeAsk ==
  ASSUME NEW s \in Seq(Pk), NEW o \in {0, 1}, NEW u, UnitOK(u), NEW r, NEW q, NEW t,
         GoodPipe(o, u, s, r, t),
         r.id \in Nat, r.len \in Nat, r.sent = r.len, q.id = r.id + 1, q.sent = 0
  PROVE  GoodPipe(o, u, s, q, t)
<1>1. Len(s) \in Nat /\ Typed(Line(o, u, s), o, Len(s))
  BY LineAt
<1>2. o \in Int /\ Len(s) \in Int
  BY <1>1
<1> QED  BY <1>1, <1>2, AskNext DEF GoodPipe
-----------------------------------------------------------------------------
(* Types. *)
Pcs == {"connect", "version", "synack", "drain", "handle", "more", "dispatch",
        "store", "ok", "error"}

ControlOK ==
  /\ usType \in {"ios", "android"} /\ pc \in Pcs
  /\ ver_ok \in BOOLEAN /\ slipped \in BOOLEAN /\ opened \in BOOLEAN /\ ackDue \in BOOLEAN
NumbersOK ==
  /\ sport \in 1..LastPort /\ conn \in 0..LastPort /\ faults \in 0..MaxFaults
  /\ tx_seq \in 0..(SeqWrap - 1) /\ tx_ack \in 0..(SeqWrap - 1)
  /\ nxt \in 0..(SeqWrap - 1) /\ una \in 0..(SeqWrap - 1) /\ rcvd \in 0..(SeqWrap - 1)
ParseOK   == protlen \in Nat /\ prohlen \in 0..protlen /\ hSize \in Nat
ContentOK == /\ piece \in Seq(Units) /\ Len(piece) <= BufUnits
             /\ hdr \in Units /\ taken \in Seq(Units) /\ twice \in 0..2 /\ early \in BOOLEAN
PipeOK    == pipe \in Seq(Pk)
ReqOK ==
  /\ req \in [id : 0..MaxAsks, len : Sizes, sent : Nat, open : BOOLEAN,
              result : {"none", "ok", "error"}]
  /\ req.sent <= req.len

LEMMA TypeParts == TypeOK <=> ControlOK /\ NumbersOK /\ ParseOK /\ ContentOK /\ PipeOK /\ ReqOK
BY DEF TypeOK, ControlOK, NumbersOK, ParseOK, ContentOK, PipeOK, ReqOK, Pcs, Pk, Kinds

LEMMA Constants ==
  /\ SeqWrap \in Nat /\ SeqWrap > 1 /\ MaxFaults \in Nat /\ LastPort \in Nat /\ LastPort > 1
  /\ MaxAsks \in Nat /\ Sizes \subseteq Nat /\ Lens \subseteq Nat \ {0}
<1>1. BufUnits \in Nat \ {0} /\ MaxAsks \in Nat /\ Lens \subseteq Nat \ {0}
  BY SizesArePos
<1>2. TxWin \in Nat /\ BufUnits <= TxWin /\ LastPort \in Nat /\ LastPort > 1 /\ MaxFaults \in Nat
  BY SizesArePos
<1>3. TxWin >= 1
  BY <1>1, <1>2
<1>4. SeqWrap \in Nat /\ SeqWrap > 1
  BY <1>2, <1>3, WrapHoldsWindow
<1>5. Sizes \subseteq Nat
  BY <1>1 DEF Sizes
<1> QED  BY <1>1, <1>2, <1>4, <1>5

LEMMA FirstOK == pipe \in Seq(Pk) /\ pipe # <<>> => First \in Pk /\ First.n \in Nat /\ Len(pipe) \in Nat \ {0}
<1> SUFFICES ASSUME pipe \in Seq(Pk), pipe # <<>>
             PROVE  First \in Pk /\ First.n \in Nat /\ Len(pipe) \in Nat \ {0}
  OBVIOUS
<1>1. pipe[1] \in Pk /\ Len(pipe) \in Nat \ {0}
  OBVIOUS
<1> QED  BY <1>1, PkTyped DEF First

LEMMA ReqNats == ReqOK => req.id \in Nat /\ req.len \in Nat /\ req.sent \in Nat /\ req.sent <= req.len
<1> SUFFICES ASSUME ReqOK PROVE req.id \in Nat /\ req.len \in Nat /\ req.sent \in Nat /\ req.sent <= req.len
  OBVIOUS
<1>1. req.id \in 0..MaxAsks /\ req.len \in Sizes /\ req.sent \in Nat /\ req.sent <= req.len
  BY DEF ReqOK
<1>2. \A i \in 0..MaxAsks : i \in Nat
  BY Constants
<1>3. req.len \in Nat
  BY <1>1, Constants
<1> QED  BY <1>1, <1>2, <1>3

LEMMA PlusOK == \A a, n \in Nat : Plus(a, n) \in 0..(SeqWrap - 1)
BY Constants DEF Plus

LEMMA AckedOK ==
  ASSUME una \in 0..(SeqWrap - 1), NEW a \in 0..(SeqWrap - 1) PROVE Acked(a) \in 0..(SeqWrap - 1)
BY DEF Acked

LEMMA ControlNext == TypeOK /\ [Next]_vars => ControlOK'
<1> SUFFICES ASSUME TypeOK, [Next]_vars PROVE ControlOK'
  OBVIOUS
<1>0. ControlOK
  BY TypeParts
<1> USE <1>0 DEF ControlOK, Pcs, handling, peer, link
<1>1. CASE ConnectAndroid \/ AskVersion \/ GetVersion \/ SendSyn \/ GetSynAck \/ ConnectFails
  BY <1>1 DEF ConnectAndroid, AskVersion, GetVersion, SendSyn, SynNotSent, GetSynAck, ConnectFails
<1>2. CASE Drain \/ DrainFails \/ NotTcp \/ NotAck
  BY <1>2 DEF Drain, DrainFails, ResetDone, DrainOn, NotTcp, NotAck, Lost
<1>3. CASE NewPacket \/ RestOfPacket \/ AoaFirst \/ AoaMore \/ RecvFails
  BY <1>3 DEF NewPacket, RestOfPacket, AoaFirst, AoaMore, RecvFails, Got, Lost
<1>4. CASE Dispatch \/ Store \/ Reply
  <2>1. usType' = usType /\ ver_ok' = ver_ok /\ slipped' = slipped /\ opened' = opened
    BY <1>4 DEF Dispatch, Store, Reply
  <2>2. pc' \in Pcs
    BY <1>4 DEF Dispatch, Store, Reply, Write
  <2>3. ackDue' \in BOOLEAN
    <3>1. CASE Reply
      <4>1. ackDue' = ackDue \/ ackDue' = (ackDue \/ conn = sport)
        BY <3>1 DEF Reply
      <4> QED  BY <4>1
    <3> QED  BY <1>4, <3>1 DEF Dispatch, Store
  <2> QED  BY <2>1, <2>2, <2>3
<1>5. CASE Ask \/ SendSegment \/ SendAck \/ SendControl \/ UNCHANGED vars
  BY <1>5 DEF Ask, SendSegment, SendAck, SendControl, vars, phoneOnly
<1> QED  BY <1>1, <1>2, <1>3, <1>4, <1>5 DEF Next, Box

LEMMA NumbersNext == TypeOK /\ [Next]_vars => NumbersOK'
<1> SUFFICES ASSUME TypeOK, [Next]_vars PROVE NumbersOK'
  OBVIOUS
<1>0. /\ NumbersOK /\ ReqOK /\ PipeOK
      /\ \A a \in 0..(SeqWrap - 1) : Acked(a) \in 0..(SeqWrap - 1)
      /\ \A a \in 0..(SeqWrap - 1), n \in Nat : Plus(a, n) \in 0..(SeqWrap - 1)
      /\ 0 \in 0..(SeqWrap - 1) /\ 1 \in 0..LastPort /\ find_sport \in 1..LastPort
      /\ LastPort \in Nat /\ MaxFaults \in Nat
  <2>1. NumbersOK /\ ReqOK /\ PipeOK
    BY TypeParts
  <2>2. \A a \in 0..(SeqWrap - 1) : Acked(a) \in 0..(SeqWrap - 1)
    BY <2>1, AckedOK DEF NumbersOK
  <2>3. find_sport \in 1..LastPort
    BY <2>1, Constants DEF find_sport, NumbersOK
  <2> QED  BY <2>1, <2>2, <2>3, PlusOK, Constants
<1>1. sport' \in 1..LastPort /\ conn' \in 0..LastPort
  <2>0. /\ sport \in 1..LastPort /\ find_sport \in 1..LastPort /\ 1 \in 1..LastPort
        /\ conn \in 0..LastPort /\ sport \in 0..LastPort /\ 0 \in 0..LastPort
    BY <1>0 DEF NumbersOK
  <2> USE <2>0 DEF link, peer, NoConn
  <2>1. CASE ConnectAndroid \/ AskVersion \/ GetVersion \/ GetSynAck \/ ConnectFails
    BY <2>1 DEF ConnectAndroid, AskVersion, GetVersion, GetSynAck, ConnectFails
  <2>5. CASE SendSyn
    <3>1. sport' = sport /\ conn' \in {sport, NoConn, conn}
      BY <2>5 DEF SendSyn, SynNotSent
    <3> QED  BY <3>1
  <2>2. CASE Drain \/ DrainFails \/ NotTcp \/ NotAck
    BY <2>2 DEF Drain, DrainFails, ResetDone, DrainOn, NotTcp, NotAck
  <2>3. CASE NewPacket \/ RestOfPacket \/ AoaFirst \/ AoaMore \/ RecvFails \/ Dispatch \/ Store \/ Reply
    BY <2>3 DEF NewPacket, RestOfPacket, AoaFirst, AoaMore, RecvFails, Dispatch, Store, Reply
  <2>4. CASE Ask \/ SendSegment \/ SendAck \/ SendControl \/ UNCHANGED vars
    BY <2>4 DEF Ask, SendSegment, SendAck, SendControl, vars, phoneOnly
  <2> QED  BY <2>1, <2>2, <2>3, <2>4, <2>5 DEF Next, Box
<1>2. faults' \in 0..MaxFaults
  <2>1. faults' = faults \/ Fault
    <3>1. CASE ConnectAndroid \/ AskVersion \/ GetVersion \/ SendSyn \/ GetSynAck \/ ConnectFails
      BY <3>1 DEF ConnectAndroid, AskVersion, GetVersion, SendSyn, SynNotSent, GetSynAck, ConnectFails
    <3>2. CASE Drain \/ DrainFails \/ NotTcp \/ NotAck \/ NewPacket \/ RestOfPacket
      BY <3>2 DEF Drain, DrainFails, NotTcp, NotAck, NewPacket, RestOfPacket, PacketDone, send_tcp_ack
    <3>3. CASE AoaFirst \/ AoaMore \/ RecvFails \/ Dispatch \/ Store \/ Reply
      BY <3>3 DEF AoaFirst, AoaMore, RecvFails, Dispatch, Store, Reply, Write
    <3>4. CASE Ask \/ SendSegment \/ SendAck \/ SendControl \/ UNCHANGED vars
      BY <3>4 DEF Ask, SendSegment, SendAck, SendControl, vars
    <3> QED  BY <3>1, <3>2, <3>3, <3>4 DEF Next, Box
  <2>2. faults \in 0..MaxFaults /\ MaxFaults \in Nat
    BY <1>0 DEF NumbersOK
  <2> QED  BY <2>1, <2>2 DEF Fault
<1>3. /\ tx_seq' \in 0..(SeqWrap - 1) /\ tx_ack' \in 0..(SeqWrap - 1)
      /\ nxt' \in 0..(SeqWrap - 1) /\ una' \in 0..(SeqWrap - 1) /\ rcvd' \in 0..(SeqWrap - 1)
  <2> USE <1>0 DEF NumbersOK, peer
  <2>0. 1 \in Nat /\ 1 \in 0..(SeqWrap - 1) /\ protlen \in Nat
    BY Constants, TypeParts DEF ParseOK
  <2>1. CASE ConnectAndroid \/ AskVersion \/ GetVersion \/ ConnectFails
    BY <2>1 DEF ConnectAndroid, AskVersion, GetVersion, ConnectFails
  <2>2. CASE SendSyn
    BY <2>0, <2>2 DEF SendSyn, SynNotSent
  <2>3. CASE GetSynAck
    BY <2>0, <2>3 DEF GetSynAck
  <2>4. CASE Drain \/ DrainFails \/ NotTcp \/ NotAck
    BY <2>4 DEF Drain, DrainFails, ResetDone, DrainOn, NotTcp, NotAck
  <2>5. CASE NewPacket
    <3>1. First.n \in Nat
      BY <2>5, FirstOK DEF NewPacket, PipeOK
    <3>2. UNCHANGED <<tx_seq, nxt, rcvd>>
      BY <2>5 DEF NewPacket
    <3>3. una' \in {una, Acked(tx_ack)} /\ tx_ack' \in {tx_ack, Plus(tx_ack, First.n)}
      BY <2>5 DEF NewPacket, send_tcp_ack
    <3> QED  BY <3>1, <3>2, <3>3
  <2>6. CASE RestOfPacket
    <3>1. UNCHANGED <<tx_seq, nxt, rcvd>>
      BY <2>6 DEF RestOfPacket
    <3>2. una' \in {una, Acked(tx_ack)} /\ tx_ack' \in {tx_ack, Plus(tx_ack, protlen)}
      BY <2>6 DEF RestOfPacket, PacketDone, send_tcp_ack
    <3> QED  BY <2>0, <3>1, <3>2
  <2>7. CASE AoaFirst \/ AoaMore \/ RecvFails \/ Dispatch \/ Store
    BY <2>7 DEF AoaFirst, AoaMore, RecvFails, Dispatch, Store
  <2>8. CASE Reply
    BY <2>0, <2>8 DEF Reply
  <2>9. CASE SendSegment
    <3>1. PICK n \in 1..Segment : nxt' = IF usType = "ios" THEN Plus(nxt, n) ELSE nxt
      BY <2>9 DEF SendSegment
    <3>2. n \in Nat
      BY PkTyped
    <3> QED  BY <2>9, <3>1, <3>2 DEF SendSegment, phoneOnly
  <2>10. CASE Ask \/ SendAck \/ SendControl \/ UNCHANGED vars
    BY <2>10 DEF Ask, SendAck, SendControl, vars, phoneOnly
  <2> QED  BY <2>1, <2>2, <2>3, <2>4, <2>5, <2>6, <2>7, <2>8, <2>9, <2>10 DEF Next, Box
<1> QED  BY <1>1, <1>2, <1>3 DEF NumbersOK

LEMMA ParseNext == TypeOK /\ [Next]_vars => ParseOK'
<1> SUFFICES ASSUME TypeOK, [Next]_vars PROVE ParseOK'
  OBVIOUS
<1>0. /\ protlen \in Nat /\ prohlen \in 0..protlen /\ hSize \in Nat
      /\ PipeOK /\ Len(piece) \in Nat /\ BufUnits \in Nat
  BY TypeParts, PkTyped DEF ParseOK, ContentOK
<1> USE DEF ParseOK, handling, parse
<1>1. CASE \/ ConnectAndroid \/ AskVersion \/ GetVersion \/ SendSyn \/ GetSynAck \/ ConnectFails
           \/ Drain \/ DrainFails \/ NotTcp \/ NotAck \/ RecvFails \/ Reply
           \/ Ask \/ SendSegment \/ SendAck \/ SendControl \/ UNCHANGED vars
  <2>1. UNCHANGED <<parse, hSize>>
    BY <1>1 DEF ConnectAndroid, AskVersion, GetVersion, SendSyn, GetSynAck, ConnectFails,
                Drain, DrainFails, NotTcp, NotAck, RecvFails, Reply, Ask, SendSegment, SendAck,
                SendControl, vars, phoneOnly
  <2> QED  BY <1>0, <2>1
<1>2. CASE NewPacket
  <2>1. First.n \in Nat
    BY <1>0, <1>2, FirstOK DEF NewPacket, PipeOK
  <2>2. /\ hSize' = hSize
        /\ \/ protlen' = 0 /\ prohlen' = 0
           \/ protlen' = First.n /\ prohlen' = Least(First.n, BufUnits)
    BY <1>2 DEF NewPacket
  <2> QED  BY <1>0, <2>1, <2>2 DEF Least
<1>3. CASE RestOfPacket
  <2>1. Recvsize \in Nat /\ prohlen + Recvsize <= protlen
    BY <1>0 DEF Recvsize, Least
  <2>2. /\ hSize' = hSize
        /\ \/ protlen' = 0 /\ prohlen' = 0
           \/ protlen' = protlen /\ prohlen' = prohlen + Recvsize
    BY <1>3 DEF RestOfPacket, PacketDone
  <2> QED  BY <1>0, <2>1, <2>2
<1>4. CASE AoaFirst
  <2>1. First.unit.len \in Nat
    BY <1>0, <1>4, FirstOK, PkTyped DEF AoaFirst, PipeOK, UnitOK
  <2>2. /\ hSize' = hSize
        /\ \/ protlen' = 0 /\ prohlen' = 0
           \/ protlen' = First.unit.len /\ prohlen' = Least(First.unit.len, BufUnits)
    BY <1>4 DEF AoaFirst
  <2> QED  BY <1>0, <2>1, <2>2 DEF Least
<1>5. CASE AoaMore
  <2>1. Recvsize \in Nat /\ prohlen + Recvsize <= protlen
    BY <1>0 DEF Recvsize, Least
  <2>2. /\ hSize' = hSize /\ protlen' = protlen
        /\ prohlen' = prohlen \/ prohlen' = prohlen + Recvsize
    BY <1>5 DEF AoaMore
  <2> QED  BY <1>0, <2>1, <2>2
<1>6. CASE Dispatch \/ Store
  <2>1. UNCHANGED parse /\ hSize' \in {hSize, Len(piece), hSize + Len(piece)}
    BY <1>6 DEF Dispatch, Store, Handled
  <2> QED  BY <1>0, <2>1
<1> QED  BY <1>1, <1>2, <1>3, <1>4, <1>5, <1>6 DEF Next, Box

(* The units of the first packets. *)
LEMMA Taken ==
  ASSUME NEW s \in Seq(Pk), NEW n \in Nat, n <= Len(s)
  PROVE  /\ [i \in 1..n |-> s[i].unit] \in Seq(Units)
         /\ Len([i \in 1..n |-> s[i].unit]) = n
<1>1. \A i \in 1..n : s[i].unit \in Units
  <2>1. \A i \in 1..n : s[i] \in Pk
    OBVIOUS
  <2> QED  BY <2>1, PkTyped
<1> QED  BY <1>1

LEMMA ContentNext == TypeOK /\ [Next]_vars => ContentOK'
<1> SUFFICES ASSUME TypeOK, [Next]_vars PROVE ContentOK'
  OBVIOUS
<1>0. ContentOK /\ PipeOK /\ BufUnits \in Nat
  BY TypeParts, PkTyped
<1>a. protlen \in Nat /\ prohlen \in 0..protlen
  BY TypeParts DEF ParseOK
<1> USE DEF ContentOK, handling
<1>1. CASE \/ ConnectAndroid \/ AskVersion \/ GetVersion \/ SendSyn \/ GetSynAck \/ ConnectFails
           \/ Drain \/ DrainFails \/ NotTcp \/ NotAck \/ RecvFails \/ Reply
           \/ Ask \/ SendSegment \/ SendAck \/ SendControl \/ UNCHANGED vars
  <2>1. UNCHANGED <<piece, hdr, taken, twice, early>>
    BY <1>1 DEF ConnectAndroid, AskVersion, GetVersion, SendSyn, GetSynAck, ConnectFails,
                Drain, DrainFails, NotTcp, NotAck, RecvFails, Reply, Ask, SendSegment, SendAck,
                SendControl, vars, phoneOnly
  <2> QED  BY <1>0, <2>1
<1>2. CASE NewPacket \/ RestOfPacket \/ AoaFirst \/ AoaMore
  <2>1. UNCHANGED <<hdr, taken, twice, early>>
    BY <1>2 DEF NewPacket, RestOfPacket, AoaFirst, AoaMore
  <2>2. \/ piece' = piece
        \/ \E n \in Nat : n <= BufUnits /\ n <= Len(pipe) /\ piece' = [i \in 1..n |-> pipe[i].unit]
    <3>1. CASE NewPacket
      <4>1. First.n \in Nat
        BY <1>0, <3>1, FirstOK DEF NewPacket, PipeOK
      <4>2. Least(First.n, BufUnits) \in Nat /\ Least(First.n, BufUnits) <= BufUnits
        BY <1>0, <4>1 DEF Least
      <4> QED  BY <3>1, <4>2 DEF NewPacket
    <3>2. CASE RestOfPacket \/ AoaMore
      <4>1. Recvsize \in Nat /\ Recvsize <= BufUnits
        BY <1>0, <1>a DEF Recvsize, Least
      <4> QED  BY <3>2, <4>1 DEF RestOfPacket, AoaMore
    <3>3. CASE AoaFirst
      <4>1. First.unit.len \in Nat
        BY <1>0, <3>3, FirstOK, PkTyped DEF AoaFirst, PipeOK, UnitOK
      <4>2. Least(First.unit.len, BufUnits) \in Nat /\ Least(First.unit.len, BufUnits) <= BufUnits
        BY <1>0, <4>1 DEF Least
      <4> QED  BY <3>3, <4>2 DEF AoaFirst
    <3> QED  BY <1>2, <3>1, <3>2, <3>3
  <2>3. piece' \in Seq(Units) /\ Len(piece') <= BufUnits
    <3>1. CASE piece' = piece
      BY <1>0, <3>1
    <3>2. ASSUME NEW n \in Nat, n <= BufUnits, n <= Len(pipe), piece' = [i \in 1..n |-> pipe[i].unit]
          PROVE  piece' \in Seq(Units) /\ Len(piece') <= BufUnits
      BY <1>0, <3>2, Taken DEF PipeOK
    <3> QED  BY <2>2, <3>1, <3>2
  <2> QED  BY <1>0, <2>1, <2>3
<1>3. CASE Dispatch \/ Store
  <2>1. piece' = <<>>
    BY <1>3 DEF Dispatch, Store
  <2>2. taken' \in {taken, piece, taken \o piece}
    BY <1>3 DEF Dispatch, Store, Write
  <2>3. hdr' \in Units
    <3>1. piece # <<>> => piece[1] \in Units
      BY <1>0
    <3> QED  BY <1>0, <1>3, <3>1 DEF Dispatch, Store, IsRequest
  <2>4. taken \o piece \in Seq(Units)
    BY <1>0
  <2>5. taken' \in Seq(Units)
    BY <1>0, <2>2, <2>4
  <2>6. piece' \in Seq(Units) /\ Len(piece') <= BufUnits
    BY <1>0, <2>1
  <2>7. twice' \in 0..2
    <3>1. twice' \in {twice, 0, Least(twice + 1, 2)}
      BY <1>3 DEF Dispatch, Store
    <3> QED  BY <1>0, <3>1 DEF Least
  <2>8. early' \in BOOLEAN
    <3>1. early' = early \/ \E s : early' = (early \/ (pc' = "ok" /\ ~Whole(s)))
      BY <1>3 DEF Dispatch, Store, Write
    <3> QED  BY <1>0, <3>1
  <2> QED  BY <2>3, <2>5, <2>6, <2>7, <2>8
<1> QED  BY <1>1, <1>2, <1>3 DEF Next, Box

LEMMA BareOK ==
  ASSUME NEW k \in Kinds, NEW a \in 0..(SeqWrap - 1)
  PROVE  Bare(k, a) \in Pk /\ Bare(k, a).n = 0 /\ Bare(k, a).k = k
<1>1. NoUnit \in Units
  <2>1. 0 \in Sizes /\ 0 \in 0..MaxAsks /\ 0 \in Nat
    BY Constants DEF Sizes
  <2> QED  BY <2>1 DEF NoUnit, Units
<1>2. 0 \in 0..Segment
  BY PkTyped
<1> QED  BY <1>1, <1>2 DEF Bare, Pk

LEMMA PacketsOK ==
  ASSUME ReqOK, NumbersOK, usType \in {"ios", "android"},
         NEW n \in 1..Segment, NEW short \in BOOLEAN, req.sent + n <= req.len
  PROVE  /\ Packets(n, short) \in Seq(Pk) /\ Len(Packets(n, short)) = n
         /\ IsSegment(Packets(n, short), n, req, usType)
<1> DEFINE U(i) == [id |-> req.id, at |-> req.sent + i - 1, len |-> req.len]
           P(i) == IF i = 1 /\ usType = "ios"
                   THEN [Bare("ack", rcvd) EXCEPT !.n = n, !.unit = U(i)]
                   ELSE [Bare("data", 0) EXCEPT !.short = (short /\ i = n), !.unit = U(i)]
<1>0. /\ req.id \in 0..MaxAsks /\ req.sent \in Nat /\ req.len \in Sizes /\ req.len \in Nat
      /\ n \in Nat /\ n \in 0..Segment
  <2>1. req.id \in 0..MaxAsks /\ req.sent \in Nat /\ req.len \in Sizes
    BY DEF ReqOK
  <2>2. n \in Nat /\ n \in 0..Segment
    BY PkTyped
  <2> QED  BY <2>1, <2>2, Constants
<1>1. ASSUME NEW i \in 1..n
      PROVE  /\ P(i) \in Pk /\ P(i).unit = U(i)
             /\ IF i = 1 /\ usType = "ios" THEN P(i).k = "ack" /\ P(i).n = n
                                           ELSE P(i).k = "data" /\ P(i).n = 0
  <2>1. U(i) \in Units
    BY <1>0 DEF Units
  <2> HIDE DEF U
  <2>2. CASE i = 1 /\ usType = "ios"
    <3>1. Bare("ack", rcvd) \in Pk
      BY BareOK DEF Kinds, NumbersOK
    <3>2. P(i) = [Bare("ack", rcvd) EXCEPT !.n = n, !.unit = U(i)]
      BY <2>2
    <3> HIDE DEF P
    <3> QED  BY <1>0, <2>1, <2>2, <3>1, <3>2 DEF Pk, Bare
  <2>3. CASE ~(i = 1 /\ usType = "ios")
    <3>1. Bare("data", 0) \in Pk
      BY BareOK, Constants DEF Kinds
    <3>2. P(i) = [Bare("data", 0) EXCEPT !.short = (short /\ i = n), !.unit = U(i)]
      BY <2>3
    <3>3. (short /\ i = n) \in BOOLEAN
      OBVIOUS
    <3> HIDE DEF P
    <3> QED  BY <1>0, <2>1, <2>3, <3>1, <3>2, <3>3 DEF Pk, Bare
  <2> QED  BY <2>2, <2>3
<1>2. Packets(n, short) = [i \in 1..n |-> P(i)]
  BY DEF Packets
<1> HIDE DEF P
<1>3. Packets(n, short) \in Seq(Pk) /\ Len(Packets(n, short)) = n
  <2>1. \A i \in 1..n : P(i) \in Pk
    BY <1>1
  <2>2. n \in Nat
    BY <1>0
  <2>3. [i \in 1..n |-> P(i)] \in Seq(Pk) /\ Len([i \in 1..n |-> P(i)]) = n
    BY <2>1, <2>2
  <2> QED  BY <1>2, <2>3
<1>4. \A i \in 1..n : Packets(n, short)[i] = P(i)
  BY <1>2
<1> QED  BY <1>1, <1>3, <1>4 DEF IsSegment

LEMMA ReqNext == TypeOK /\ [Next]_vars => ReqOK'
<1> SUFFICES ASSUME TypeOK, [Next]_vars PROVE ReqOK'
  OBVIOUS
<1>0. ReqOK /\ req.len \in Nat
  BY TypeParts, Constants DEF ReqOK
<1> USE DEF ReqOK
<1>1. CASE req' = req
  BY <1>0, <1>1
<1>2. CASE req' = Gone
  <2>1. req' = [req EXCEPT !.sent = req.len, !.open = FALSE, !.result = "none"]
    BY <1>2 DEF Gone
  <2>2. /\ req.id \in 0..MaxAsks /\ req.len \in Sizes
        /\ req' = [id |-> req.id, len |-> req.len, sent |-> req.len, open |-> FALSE, result |-> "none"]
    BY <1>0, <2>1
  <2>3. req'.sent = req'.len /\ req.len <= req.len
    BY <1>0, <2>2
  <2> QED  BY <1>0, <2>2, <2>3
<1>3. CASE AskVersion \/ SendSyn
  <2>1. req' = req \/ req' = Gone
    BY <1>3 DEF AskVersion, SendSyn, SynNotSent
  <2> QED  BY <1>1, <1>2, <2>1
<1>4. CASE \/ ConnectAndroid \/ GetVersion \/ GetSynAck \/ ConnectFails \/ Drain \/ DrainFails
           \/ NewPacket \/ RestOfPacket \/ NotTcp \/ NotAck \/ AoaFirst \/ AoaMore \/ RecvFails
           \/ Dispatch \/ Store \/ SendAck \/ SendControl \/ UNCHANGED vars
  <2>1. req' = req
    BY <1>4 DEF ConnectAndroid, GetVersion, GetSynAck, ConnectFails, Drain, DrainFails, NewPacket,
                RestOfPacket, NotTcp, NotAck, AoaFirst, AoaMore, RecvFails, Dispatch, Store, SendAck,
                SendControl, vars
  <2> QED  BY <1>1, <2>1
<1>5. CASE Reply
  <2>1. req' = req \/ (req' = [req EXCEPT !.open = FALSE, !.result = pc] /\ pc \in {"ok", "error"})
    BY <1>5 DEF Reply
  <2> QED  BY <1>0, <2>1
<1>6. CASE Ask
  <2>1. PICK l \in Lens :
          req' = [id |-> req.id + 1, len |-> l, sent |-> 0, open |-> TRUE, result |-> "none"]
    BY <1>6 DEF Ask
  <2>2. req.id + 1 \in 0..MaxAsks /\ l \in Sizes /\ l \in Nat
    BY <1>0, <1>6, Constants DEF Ask, Sizes
  <2> QED  BY <2>1, <2>2
<1>7. CASE SendSegment
  <2>1. PICK n \in 1..Segment : req.sent + n <= req.len /\ req' = [req EXCEPT !.sent = @ + n]
    BY <1>7 DEF SendSegment
  <2>2. n \in Nat
    BY PkTyped
  <2> QED  BY <1>0, <2>1, <2>2
<1> QED  BY <1>3, <1>4, <1>5, <1>6, <1>7 DEF Next, Box

(* The box drops packets, the phone adds some. *)
Drops(n) == n \in 0..Len(pipe) /\ pipe' = SubSeq(pipe, n + 1, Len(pipe))

LEMMA BoxDrops ==
  ASSUME TypeOK,
         \/ GetVersion \/ GetSynAck \/ ConnectFails \/ Drain \/ NewPacket \/ RestOfPacket
         \/ NotTcp \/ NotAck \/ AoaFirst \/ AoaMore \/ RecvFails
  PROVE  \E n \in 0..Len(pipe) : Drops(n)
<1>0. PipeOK /\ BufUnits \in Nat /\ BufUnits > 0 /\ protlen \in Nat /\ prohlen \in 0..protlen
      /\ Len(pipe) \in Nat
  BY TypeParts, PkTyped DEF ParseOK, PipeOK
<1>1. pipe # <<>> => 1 \in 0..Len(pipe)
  BY <1>0, FirstOK DEF PipeOK
<1>2. pipe = SubSeq(pipe, 1, Len(pipe)) /\ 0 \in 0..Len(pipe)
  BY <1>0 DEF PipeOK
<1>3. CASE GetVersion \/ Drain \/ NotTcp \/ NotAck
  BY <1>1, <1>3 DEF GetVersion, Drain, NotTcp, NotAck, Drop, Drops
<1>4. CASE GetSynAck
  <2>1. PICK k \in {1, 2} : Len(pipe) >= k /\ pipe' = Drop(k)
    BY <1>4 DEF GetSynAck
  <2>2. k \in 0..Len(pipe)
    BY <1>0, <2>1
  <2> QED  BY <2>1, <2>2 DEF Drop, Drops
<1>5. CASE ConnectFails \/ RecvFails
  <2>1. PICK k \in Nat : k <= Len(pipe) /\ pipe' = Drop(k)
    BY <1>0, <1>5 DEF ConnectFails, RecvFails, Least
  <2>2. k \in 0..Len(pipe)
    BY <1>0, <2>1
  <2> QED  BY <2>1, <2>2 DEF Drop, Drops
<1>6. CASE NewPacket
  <2>1. pipe # <<>> /\ First.n \in Nat
    BY <1>0, <1>6, FirstOK DEF NewPacket, PipeOK
  <2>2. Least(First.n, BufUnits) \in Nat
    BY <1>0, <2>1 DEF Least
  <2>3. PICK k \in {1, Least(First.n, BufUnits)} :
          k \in 0..Len(pipe) /\ pipe' = Drop(k)
    BY <1>0, <1>1, <1>6, <2>1, <2>2 DEF NewPacket
  <2> QED  BY <2>3 DEF Drop, Drops
<1>7. CASE RestOfPacket
  <2>1. Recvsize \in Nat
    BY <1>0 DEF Recvsize, Least
  <2>2. Recvsize \in 0..Len(pipe) /\ pipe' = Drop(Recvsize)
    BY <1>0, <1>7, <2>1 DEF RestOfPacket
  <2> QED  BY <2>2 DEF Drop, Drops
<1>8. CASE AoaFirst
  <2>1. pipe # <<>> /\ First.unit.len \in Nat
    BY <1>0, <1>8, FirstOK, PkTyped DEF AoaFirst, PipeOK, UnitOK
  <2>2. Least(First.unit.len, BufUnits) \in Nat
    BY <1>0, <2>1 DEF Least
  <2>3. PICK k \in {1, Least(First.unit.len, BufUnits)} :
          k \in 0..Len(pipe) /\ pipe' = Drop(k)
    BY <1>0, <1>1, <1>8, <2>1, <2>2 DEF AoaFirst
  <2> QED  BY <2>3 DEF Drop, Drops
<1>9. CASE AoaMore
  <2>1. Recvsize \in Nat
    BY <1>0 DEF Recvsize, Least
  <2>2. (pipe' = pipe) \/ (Recvsize \in 0..Len(pipe) /\ pipe' = Drop(Recvsize))
    BY <1>0, <1>9, <2>1 DEF AoaMore
  <2>3. CASE pipe' = pipe
    BY <1>2, <2>3 DEF Drops
  <2>4. CASE Recvsize \in 0..Len(pipe) /\ pipe' = Drop(Recvsize)
    BY <2>4 DEF Drop, Drops
  <2> QED  BY <2>2, <2>3, <2>4
<1> QED  BY <1>3, <1>4, <1>5, <1>6, <1>7, <1>8, <1>9

(* A mark, when it cuts off what the phone was sending. *)
LEMMA MarkAdded ==
  ASSUME TypeOK, [Next]_vars, AskVersion \/ SendSyn \/ SendControl, pipe' # pipe
  PROVE  \E p \in Pk : p.n = 0 /\ p.k # "data" /\ Mark(p) /\ pipe' = Append(pipe, p)
<1>0. NumbersOK /\ rcvd' \in 0..(SeqWrap - 1) /\ sport \in 0..LastPort /\ 0 \in 0..(SeqWrap - 1)
  <2>1. NumbersOK /\ NumbersOK'
    BY TypeParts, NumbersNext
  <2> QED  BY <2>1, Constants DEF NumbersOK
<1>1. CASE AskVersion
  <2>1. pipe' = Append(pipe, Bare("ver", 0))
    BY <1>1 DEF AskVersion
  <2>2. Bare("ver", 0) \in Pk /\ Bare("ver", 0).n = 0 /\ Bare("ver", 0).k = "ver"
    BY <1>0, BareOK DEF Kinds
  <2> QED  BY <2>1, <2>2 DEF Mark
<1>2. CASE SendSyn
  <2>1. pipe' = Append(pipe, Bare("synack", rcvd')) \/ pipe' = Append(pipe, Bare("rst", rcvd))
    BY <1>2 DEF SendSyn, SynNotSent
  <2>2. /\ Bare("rst", rcvd) \in Pk /\ Bare("rst", rcvd).n = 0 /\ Bare("rst", rcvd).k = "rst"
    BY <1>0, BareOK DEF Kinds, NumbersOK
  <2>3. /\ Bare("synack", rcvd') \in Pk /\ Bare("synack", rcvd').n = 0
        /\ Bare("synack", rcvd').k = "synack"
    BY <1>0, BareOK DEF Kinds
  <2> QED  BY <2>1, <2>2, <2>3 DEF Mark
<1>3. CASE SendControl
  <2>1. pipe' = Append(pipe, Bare("ctl", 0))
    BY <1>3 DEF SendControl
  <2>2. Bare("ctl", 0) \in Pk /\ Bare("ctl", 0).n = 0 /\ Bare("ctl", 0).k = "ctl"
    BY <1>0, BareOK DEF Kinds
  <2> QED  BY <2>1, <2>2 DEF Mark
<1> QED  BY <1>1, <1>2, <1>3

LEMMA AckAdded ==
  ASSUME TypeOK, SendAck
  PROVE  \E p \in Pk : p.n = 0 /\ p.k = "ack" /\ pipe' = Append(pipe, p)
<1>1. Bare("ack", rcvd) \in Pk /\ Bare("ack", rcvd).n = 0 /\ Bare("ack", rcvd).k = "ack"
  BY TypeParts, BareOK DEF NumbersOK, Kinds
<1> QED  BY <1>1 DEF SendAck

LEMMA PipeNext == TypeOK /\ [Next]_vars => PipeOK'
<1> SUFFICES ASSUME TypeOK, [Next]_vars PROVE PipeOK'
  OBVIOUS
<1>0. PipeOK /\ ReqOK /\ NumbersOK /\ ControlOK
  BY TypeParts
<1> USE DEF PipeOK
<1>1. CASE pipe' = pipe
  BY <1>0, <1>1
<1>2. ASSUME NEW n \in 0..Len(pipe), Drops(n) PROVE PipeOK'
  BY <1>0, <1>2, Dropped DEF Drops
<1>3. ASSUME NEW p \in Pk, pipe' = Append(pipe, p) PROVE PipeOK'
  BY <1>0, <1>3
<1>4. CASE SendSegment
  <2>1. PICK n \in 1..Segment, short \in BOOLEAN :
          req.sent + n <= req.len /\ pipe' = pipe \o Packets(n, short)
    BY <1>4 DEF SendSegment
  <2>2. Packets(n, short) \in Seq(Pk)
    BY <1>0, <2>1, PacketsOK DEF ControlOK
  <2> QED  BY <1>0, <2>1, <2>2
<1>5. CASE AskVersion \/ SendSyn \/ SendControl
  BY <1>1, <1>3, <1>5, MarkAdded
<1>6. CASE SendAck
  BY <1>3, <1>6, AckAdded
<1>7. CASE \/ GetVersion \/ GetSynAck \/ ConnectFails \/ Drain \/ NewPacket \/ RestOfPacket
           \/ NotTcp \/ NotAck \/ AoaFirst \/ AoaMore \/ RecvFails
  BY <1>2, <1>7, BoxDrops
<1>8. CASE ConnectAndroid \/ DrainFails \/ Dispatch \/ Store \/ Reply \/ Ask \/ UNCHANGED vars
  BY <1>1, <1>8 DEF ConnectAndroid, DrainFails, Dispatch, Store, Reply, Ask, vars
<1> QED  BY <1>4, <1>5, <1>6, <1>7, <1>8 DEF Next, Box

LEMMA TypeInit == Init => TypeOK
<1> SUFFICES ASSUME Init PROVE TypeOK
  OBVIOUS
<1>0. 0 \in Sizes /\ 0 \in 0..MaxAsks /\ 0 \in 0..(SeqWrap - 1) /\ 1 \in 1..LastPort /\ 0 \in 0..LastPort
      /\ 0 \in 0..MaxFaults /\ BufUnits \in Nat
  BY Constants, PkTyped DEF Sizes
<1>1. ControlOK
  BY DEF Init, ControlOK, Pcs
<1>2. NumbersOK
  BY <1>0 DEF Init, NumbersOK, NoConn
<1>3. ParseOK
  BY DEF Init, ParseOK
<1>4. ContentOK
  <2>1. NoUnit \in Units
    BY <1>0 DEF NoUnit, Units
  <2>2. piece = <<>> /\ taken = <<>> /\ hdr = NoUnit
    BY DEF Init
  <2>3. piece \in Seq(Units) /\ taken \in Seq(Units) /\ Len(piece) = 0
    BY <2>2
  <2>4. twice \in 0..2 /\ early \in BOOLEAN
    <3>1. twice = 0 /\ early = FALSE
      BY DEF Init
    <3>2. twice \in 0..2
      BY <3>1
    <3>3. early \in BOOLEAN
      BY <3>1
    <3> QED  BY <3>2, <3>3
  <2>5. Len(piece) <= BufUnits
    BY <1>0, <2>3
  <2>6. hdr \in Units
    BY <2>1, <2>2
  <2> QED  BY <2>3, <2>4, <2>5, <2>6 DEF ContentOK
<1>5. PipeOK
  BY DEF Init, PipeOK
<1>6. ReqOK
  BY <1>0 DEF Init, ReqOK
<1> QED  BY <1>1, <1>2, <1>3, <1>4, <1>5, <1>6, TypeParts

LEMMA TypeNext == TypeOK /\ [Next]_vars => TypeOK'
<1> SUFFICES ASSUME TypeOK, [Next]_vars PROVE TypeOK'
  OBVIOUS
<1>1. ControlOK' /\ NumbersOK' /\ ParseOK' /\ ContentOK' /\ PipeOK' /\ ReqOK'
  BY ControlNext, NumbersNext, ParseNext, ContentNext, PipeNext, ReqNext
<1> QED
  BY <1>1 DEF TypeOK, ControlOK, NumbersOK, ParseOK, ContentOK, PipeOK, ReqOK, Pcs, Pk, Kinds

(* Every variable of the stream keeps its type: no counter of packets is   *)
(* driven below zero and no piece is longer than the buffer it is read to. *)
THEOREM TypeCorrect == Spec => []TypeOK
BY TypeInit, TypeNext, PTL DEF Spec
-----------------------------------------------------------------------------
(* The stream, step by step. *)
LEMMA BaseOK ==
  ASSUME TypeOK, HeldInv, Holding
  PROVE  Base \in Units /\ UnitOK(Base) /\ Count \in Nat \ {0}
<1>1. piece \in Seq(Units) /\ taken \in Seq(Units) /\ hdr \in Units
  BY TypeParts DEF ContentOK
<1>2. CASE Serving
  <2>1. Len(taken) \in Nat \ {0} /\ Len(piece) \in Nat
    BY <1>1, <1>2 DEF HeldInv
  <2> QED  BY <1>1, <1>2, <2>1, PkTyped DEF Base, Count
<1>3. CASE ~Serving
  <2>1. piece # <<>>
    BY <1>3 DEF Holding
  <2>2. piece[1] \in Units /\ Len(piece) \in Nat \ {0}
    BY <1>1, <2>1
  <2> QED  BY <1>3, <2>2, PkTyped DEF Base, Count
<1> QED  BY <1>2, <1>3

LEMMA HeldOK == TypeOK /\ HeldInv => UnitOK(Held)
<1> SUFFICES ASSUME TypeOK, HeldInv PROVE UnitOK(Held)
  OBVIOUS
<1>1. CASE ~Holding
  BY <1>1 DEF Held, NoUnit, UnitOK
<1>2. CASE Holding
  BY <1>2, BaseOK DEF Held, LastGot, Later, UnitOK
<1> QED  BY <1>1, <1>2

(* The phone has sent what is held. *)
LEMMA HeldSent ==
  ASSUME TypeOK, HeldInv, StreamInv, Holding
  PROVE  Sent(LastGot, req) /\ Base.at + Count <= Base.len
<1> DEFINE f == Line(0, LastGot, pipe)
<1>1. UnitOK(LastGot) /\ Len(pipe) \in Nat
  BY HeldOK, TypeParts DEF Held, PipeOK
<1>2. Ordered(f, 0, Len(pipe), req)
  BY DEF StreamInv, Held, GoodPipe, Good
<1>3. f[0] = [k |-> "data", n |-> 0, unit |-> LastGot] /\ 0 \in 0..Len(pipe)
  BY <1>1 DEF Line
<1> HIDE DEF f
<1>4. Pay(f[0]) /\ f[0].unit = LastGot
  BY <1>3 DEF Pay
<1>5. Sent(LastGot, req)
  BY <1>2, <1>3, <1>4 DEF Ordered
<1>6. Base.at + (Count - 1) < Base.len
  BY <1>5 DEF Sent, LastGot, Later
<1>7. UnitOK(Base) /\ Count \in Nat
  BY BaseOK
<1> QED  BY <1>5, <1>6, <1>7 DEF UnitOK

LEMMA StreamDrop ==
  ASSUME TypeOK, HeldInv, StreamInv, ~Holding', usType' = usType, req' = req,
         NEW n \in 0..Len(pipe), Drops(n)
  PROVE  StreamInv'
<1> DEFINE o == IF Holding THEN 0 ELSE 1
<1>1. UnitOK(Held) /\ pipe \in Seq(Pk) /\ UnitOK(NoUnit) /\ o \in {0, 1}
  BY HeldOK, TypeParts DEF PipeOK, UnitOK, NoUnit
<1>2. GoodPipe(o, Held, pipe, req, usType)
  BY DEF StreamInv
<1> HIDE DEF o
<1>3. GoodPipe(1, NoUnit, SubSeq(pipe, n + 1, Len(pipe)), req, usType)
  BY <1>1, <1>2, PipeDrop
<1> QED  BY <1>3 DEF StreamInv, Held, Drops
LEMMA StreamTake ==
  ASSUME TypeOK, HeldInv, StreamInv, usType' = usType, req' = req,
         NEW n \in 1..Len(pipe), Drops(n), Pay(pipe[n]), Holding', Held' = pipe[n].unit
  PROVE  StreamInv'
<1> DEFINE o == IF Holding THEN 0 ELSE 1
<1>1. UnitOK(Held) /\ pipe \in Seq(Pk) /\ o \in {0, 1}
  BY HeldOK, TypeParts DEF PipeOK
<1>2. GoodPipe(o, Held, pipe, req, usType)
  BY DEF StreamInv
<1> HIDE DEF o
<1>3. GoodPipe(0, pipe[n].unit, SubSeq(pipe, n + 1, Len(pipe)), req, usType)
  BY <1>1, <1>2, PipeTake
<1> QED  BY <1>3 DEF StreamInv, Drops

LEMMA HeldSame ==
  ASSUME UNCHANGED <<pc, piece, hdr, taken>>
  PROVE  (Holding' <=> Holding) /\ (Serving' <=> Serving) /\ Held' = Held
         /\ Base' = Base /\ Count' = Count /\ LastGot' = LastGot
<1>1. (Serving' <=> Serving) /\ (Holding' <=> Holding)
  BY DEF Holding, Serving
<1>2. Base' = Base /\ Count' = Count
  BY <1>1 DEF Base, Count
<1>3. LastGot' = LastGot
  BY <1>2 DEF LastGot
<1> QED  BY <1>1, <1>2, <1>3 DEF Held

(* The phone adds to the pipe; what the box holds stays. *)
LEMMA StreamBare ==
  ASSUME TypeOK, HeldInv, StreamInv, usType = "ios", usType' = usType,
         Holding' <=> Holding, Held' = Held,
         NEW p \in Pk, p.n = 0, p.k # "data", pipe' = Append(pipe, p),
         \/ req' = req
         \/ Mark(p) /\ req' = Gone
  PROVE  StreamInv'
<1> DEFINE o == IF Holding THEN 0 ELSE 1
<1>1. UnitOK(Held) /\ pipe \in Seq(Pk) /\ o \in {0, 1} /\ ReqOK
  BY HeldOK, TypeParts DEF PipeOK
<1>2. GoodPipe(o, Held, pipe, req, "ios")
  BY DEF StreamInv
<1>3. /\ req'.id = req.id /\ req'.len = req.len /\ req.sent \in Nat
      /\ req'.sent \in Nat /\ req'.sent >= req.sent
  <2>1. req.sent \in Nat /\ req.len \in Nat /\ req.sent <= req.len
    BY <1>1, Constants DEF ReqOK
  <2>2. CASE req' = req
    BY <2>1, <2>2
  <2>3. CASE req' = Gone
    <3>1. Gone.id = req.id /\ Gone.len = req.len /\ Gone.sent = req.len
      BY <1>1 DEF Gone, ReqOK
    <3> QED  BY <2>1, <2>3, <3>1
  <2> QED  BY <2>2, <2>3
<1>4. Mark(p) \/ req' = req
  OBVIOUS
<1>5. o = (IF Holding' THEN 0 ELSE 1)
  OBVIOUS
<1> HIDE DEF o
<1>6. GoodPipe(o, Held, Append(pipe, p), req', "ios")
  BY <1>1, <1>2, <1>3, <1>4, PipeBare
<1> QED  BY <1>5, <1>6 DEF StreamInv
LEMMA StreamSegment ==
  ASSUME TypeOK, HeldInv, StreamInv, SendSegment
  PROVE  StreamInv'
<1> DEFINE o == IF Holding THEN 0 ELSE 1
<1>1. UnitOK(Held) /\ pipe \in Seq(Pk) /\ o \in {0, 1} /\ ReqOK /\ NumbersOK
      /\ usType \in {"ios", "android"}
  BY HeldOK, TypeParts DEF PipeOK, ControlOK
<1>2. GoodPipe(o, Held, pipe, req, usType)
  BY DEF StreamInv
<1>3. PICK n \in 1..Segment, short \in BOOLEAN :
        /\ req.sent + n <= req.len /\ pipe' = pipe \o Packets(n, short)
        /\ req' = [req EXCEPT !.sent = @ + n]
  BY DEF SendSegment
<1>4. /\ Packets(n, short) \in Seq(Pk) /\ Len(Packets(n, short)) = n
      /\ IsSegment(Packets(n, short), n, req, usType)
  BY <1>1, <1>3, PacketsOK
<1>5. n \in Nat \ {0}
  BY PkTyped
<1>6. /\ req.id \in Nat /\ req.len \in Nat /\ req.sent \in Nat
      /\ req'.id = req.id /\ req'.len = req.len /\ req'.sent = req.sent + n
  <2>1. req.id \in 0..MaxAsks /\ req.len \in Sizes /\ req.sent \in Nat
    BY <1>1 DEF ReqOK
  <2>2. req'.id = req.id /\ req'.len = req.len /\ req'.sent = req.sent + n
    BY <1>1, <1>3 DEF ReqOK
  <2>4. req.id \in Nat /\ req.len \in Nat
    BY <1>1, ReqNats
  <2> QED  BY <2>1, <2>2, <2>4
<1>7. (Holding' <=> Holding) /\ Held' = Held /\ usType' = usType
  <2>1. UNCHANGED <<pc, piece, hdr, taken>> /\ usType' = usType
    BY DEF SendSegment, phoneOnly, handling
  <2> QED  BY <2>1, HeldSame
<1>8. o = (IF Holding' THEN 0 ELSE 1)
  BY <1>7
<1> HIDE DEF o
<1>9. GoodPipe(o, Held, pipe \o Packets(n, short), req', usType)
  <2> DEFINE m == Packets(n, short)
  <2>1. m \in Seq(Pk) /\ Len(m) = n /\ IsSegment(m, n, req, usType) /\ req.sent + n <= req.len
    BY <1>3, <1>4
  <2> HIDE DEF m
  <2>2. GoodPipe(o, Held, pipe \o m, req', usType)
    BY <1>1, <1>2, <1>5, <1>6, <2>1, PipeSegment
  <2> QED  BY <2>2 DEF m
<1> QED  BY <1>3, <1>7, <1>8, <1>9 DEF StreamInv

LEMMA StreamAsk ==
  ASSUME TypeOK, HeldInv, StreamInv, Ask
  PROVE  StreamInv'
<1> DEFINE o == IF Holding THEN 0 ELSE 1
<1>1. UnitOK(Held) /\ pipe \in Seq(Pk) /\ o \in {0, 1} /\ ReqOK
  BY HeldOK, TypeParts DEF PipeOK
<1>2. GoodPipe(o, Held, pipe, req, usType)
  BY DEF StreamInv
<1>3. /\ req.id \in Nat /\ req.len \in Nat /\ req.sent = req.len
      /\ req'.id = req.id + 1 /\ req'.sent = 0
  <2>1. req.id \in 0..MaxAsks /\ req.len \in Sizes
    BY <1>1 DEF ReqOK
  <2>2. req.sent = req.len /\ req'.id = req.id + 1 /\ req'.sent = 0
    BY DEF Ask
  <2>4. req.id \in Nat /\ req.len \in Nat
    BY <1>1, ReqNats
  <2> QED  BY <2>2, <2>4
<1>4. (Holding' <=> Holding) /\ Held' = Held /\ usType' = usType /\ pipe' = pipe
  <2>1. UNCHANGED <<pc, piece, hdr, taken>> /\ usType' = usType /\ pipe' = pipe
    BY DEF Ask, phoneOnly, handling
  <2> QED  BY <2>1, HeldSame
<1>5. o = (IF Holding' THEN 0 ELSE 1)
  BY <1>4
<1> HIDE DEF o
<1>6. GoodPipe(o, Held, pipe, req', usType)
  BY <1>1, <1>2, <1>3, PipeAsk
<1> QED  BY <1>4, <1>5, <1>6 DEF StreamInv

(* The answer to a request changes nothing of what is sent of it. *)
LEMMA PipeAnswered ==
  ASSUME NEW o, NEW u, NEW s, NEW r, NEW q, NEW t, GoodPipe(o, u, s, r, t),
         q.id = r.id, q.len = r.len, q.sent = r.sent
  PROVE  GoodPipe(o, u, s, q, t)
<1> DEFINE f == Line(o, u, s)
           b == Len(s)
<1>1. Good(f, o, b, r, t)
  BY DEF GoodPipe
<1> HIDE DEF f, b
<1>2. Ordered(f, o, b, q)
  BY <1>1 DEF Good, Ordered, Sent
<1>3. t = "ios" => Chained(f, o, b, q)
  BY <1>1 DEF Good, Chained, Leads
<1>4. t = "android" => Dense(f, o, b, q)
  BY <1>1 DEF Good, Dense
<1> QED  BY <1>1, <1>2, <1>3, <1>4 DEF GoodPipe, Good, f, b

LEMMA StreamKeep ==
  ASSUME TypeOK, StreamInv, UNCHANGED <<usType, pipe, req>>, Holding' <=> Holding, Held' = Held
  PROVE  StreamInv'
BY DEF StreamInv

LEMMA StreamSkip ==
  ASSUME TypeOK, HeldInv, StreamInv, usType = "ios", UNCHANGED <<usType, req>>, Holding, Holding',
         Held' = Held, pipe # <<>>, ~Pay(pipe[1]), ~Mark(pipe[1]), Drops(1)
  PROVE  StreamInv'
<1>1. UnitOK(Held) /\ pipe \in Seq(Pk)
  BY HeldOK, TypeParts DEF PipeOK
<1>2. GoodPipe(0, Held, pipe, req, "ios")
  BY DEF StreamInv
<1>3. GoodPipe(0, Held, SubSeq(pipe, 2, Len(pipe)), req, "ios")
  BY <1>1, <1>2, PipeSkip
<1>4. pipe' = SubSeq(pipe, 2, Len(pipe))
  BY DEF Drops
<1> QED  BY <1>3, <1>4 DEF StreamInv
-----------------------------------------------------------------------------
(* The actions: those after which the box holds nothing. *)
LEMMA CalmHeld ==
  ASSUME pc' \in {"connect", "version", "synack", "drain", "handle", "error"}, piece' = <<>>
  PROVE  HeldInv' /\ ~Holding'
<1>1. ~Serving' /\ ~Holding'
  BY DEF Holding, Serving
<1> QED  BY <1>1 DEF HeldInv, RestInv

LEMMA CalmNext ==
  ASSUME IInv,
         \/ ConnectAndroid \/ GetVersion \/ GetSynAck \/ ConnectFails \/ Drain \/ DrainFails
         \/ NotTcp \/ NotAck \/ RecvFails
  PROVE  StreamInv' /\ HeldInv'
<1> USE DEF IInv
<1>0. pc \in {"connect", "version", "synack", "drain", "handle", "more"} /\ UNCHANGED <<usType, piece, req>>
      /\ pc' \in {"connect", "version", "synack", "drain", "handle", "error"}
  <2>1. CASE ConnectAndroid \/ GetVersion \/ GetSynAck \/ ConnectFails \/ Drain \/ DrainFails
    BY <2>1 DEF ConnectAndroid, GetVersion, GetSynAck, ConnectFails, Drain, DrainFails,
                ResetDone, DrainOn, handling
  <2>2. CASE NotTcp \/ NotAck \/ RecvFails
    BY <2>2 DEF NotTcp, NotAck, RecvFails, Fresh, ResetDone, DrainOn, Lost, handling
  <2> QED  BY <2>1, <2>2
<1>1. piece' = <<>>
  BY <1>0 DEF HeldInv
<1>2. HeldInv' /\ ~Holding'
  BY <1>0, <1>1, CalmHeld
<1>3. PICK n \in 0..Len(pipe) : Drops(n)
  <2>1. CASE ConnectAndroid \/ DrainFails
    <3>1. pipe' = pipe /\ pipe \in Seq(Pk)
      BY <2>1, TypeParts DEF ConnectAndroid, DrainFails, PipeOK
    <3>2. Drops(0)
      BY <3>1 DEF Drops
    <3>3. 0 \in 0..Len(pipe)
      BY <3>1
    <3> QED  BY <3>2, <3>3
  <2>2. CASE ~(ConnectAndroid \/ DrainFails)
    BY <2>2, BoxDrops
  <2> QED  BY <2>1, <2>2
<1> QED  BY <1>0, <1>2, <1>3, StreamDrop

LEMMA ReplyNext == ASSUME IInv, Reply PROVE StreamInv' /\ HeldInv'
<1> USE DEF IInv
<1>0. pc \in {"ok", "error"} /\ pc' = "handle" /\ UNCHANGED <<usType, pipe, piece>>
  BY DEF Reply, handling
<1>1. piece' = <<>>
  BY <1>0 DEF HeldInv
<1>2. HeldInv' /\ ~Holding'
  BY <1>0, <1>1, CalmHeld
<1>3. ReqOK /\ pipe \in Seq(Pk) /\ UnitOK(Held) /\ UnitOK(NoUnit)
  BY HeldOK, TypeParts DEF PipeOK, UnitOK, NoUnit
<1>4. req'.id = req.id /\ req'.len = req.len /\ req'.sent = req.sent
  <2>1. req' = req \/ req' = [req EXCEPT !.open = FALSE, !.result = pc]
    BY DEF Reply
  <2> QED  BY <1>3, <2>1 DEF ReqOK
<1>5. GoodPipe(1, NoUnit, pipe, req, usType)
  <2> DEFINE o == IF Holding THEN 0 ELSE 1
  <2>1. GoodPipe(o, Held, pipe, req, usType) /\ o \in {0, 1}
    BY DEF StreamInv
  <2>2. pipe = SubSeq(pipe, 0 + 1, Len(pipe)) /\ 0 \in 0..Len(pipe)
    BY <1>3
  <2> HIDE DEF o
  <2>3. GoodPipe(1, NoUnit, SubSeq(pipe, 0 + 1, Len(pipe)), req, usType)
    BY <1>3, <2>1, <2>2, PipeDrop
  <2> QED  BY <2>2, <2>3
<1>6. GoodPipe(1, NoUnit, pipe, req', usType)
  BY <1>4, <1>5, PipeAnswered
<1> QED  BY <1>0, <1>2, <1>6 DEF StreamInv, Held

(* The box asks, or a control message comes. *)
LEMMA AskedNext ==
  ASSUME IInv, [Next]_vars, AskVersion \/ SendSyn \/ SendControl
  PROVE  StreamInv'
<1> USE DEF IInv
<1>1. usType = "ios" /\ usType' = usType /\ UNCHANGED <<piece, hdr, taken>>
  BY DEF AskVersion, SendSyn, SendControl, handling, phoneOnly
<1>2. (Holding' <=> Holding) /\ Held' = Held
  <2>1. CASE SendControl
    BY <1>1, <2>1, HeldSame DEF SendControl, phoneOnly
  <2>2. CASE AskVersion \/ SendSyn
    <3>1. pc \in {"connect"} /\ pc' \in {"connect", "version", "synack"}
      BY <2>2 DEF AskVersion, SendSyn, SynNotSent
    <3>2. ~Holding /\ ~Holding'
      BY <3>1 DEF Holding, Serving
    <3> QED  BY <3>2 DEF Held
  <2> QED  BY <2>1, <2>2
<1>3. req' = req \/ req' = Gone
  BY DEF AskVersion, SendSyn, SynNotSent, SendControl
<1>4. CASE pipe' # pipe
  <2>1. PICK p \in Pk : p.n = 0 /\ p.k # "data" /\ Mark(p) /\ pipe' = Append(pipe, p)
    BY <1>4, MarkAdded
  <2> QED  BY <1>1, <1>2, <1>3, <2>1, StreamBare
<1>5. CASE pipe' = pipe
  <2>1. pipe \in Seq(Pk)
    BY TypeParts DEF PipeOK
  <2>2. req' = req
    <3>1. \A p : pipe # Append(pipe, p)
      <4> SUFFICES ASSUME NEW p PROVE pipe # Append(pipe, p)
        OBVIOUS
      <4>1. Len(Append(pipe, p)) = Len(pipe) + 1 /\ Len(pipe) \in Nat
        BY <2>1
      <4> QED  BY <4>1
    <3>2. CASE AskVersion
      BY <1>5, <3>1, <3>2 DEF AskVersion
    <3>3. CASE SendSyn
      BY <1>5, <3>1, <3>3 DEF SendSyn, SynNotSent
    <3>4. CASE SendControl
      BY <3>4 DEF SendControl
    <3> QED  BY <3>2, <3>3, <3>4
  <2> QED  BY <1>1, <1>2, <1>5, <2>2, StreamKeep
<1> QED  BY <1>4, <1>5

LEMMA AckNext == ASSUME IInv, SendAck PROVE StreamInv'
<1> USE DEF IInv
<1>1. usType = "ios"
  BY TypeParts DEF SendAck, PhoneInv, ControlOK
<1>2. UNCHANGED <<usType, pc, piece, hdr, taken, req>>
  BY DEF SendAck, phoneOnly, handling
<1>3. PICK p \in Pk : p.n = 0 /\ p.k = "ack" /\ pipe' = Append(pipe, p)
  BY AckAdded
<1> QED  BY <1>1, <1>2, <1>3, HeldSame, StreamBare
(* What the phone adds comes behind the rest of a packet. *)
LEMMA HeldGrows ==
  ASSUME TypeOK, HeldInv,
         UNCHANGED <<usType, pc, piece, hdr, taken, twice, hSize, protlen, prohlen>>,
         Len(pipe') \in Nat, Len(pipe') >= Len(pipe), \A i \in 1..Len(pipe) : pipe'[i] = pipe[i]
  PROVE  HeldInv'
<1>1. /\ Holding' <=> Holding
      /\ Serving' <=> Serving
      /\ Base' = Base /\ Count' = Count /\ LastGot' = LastGot
  BY HeldSame
<1>2. protlen \in Nat /\ prohlen \in Nat /\ Len(pipe) \in Nat
  BY TypeParts DEF ParseOK, PipeOK
<1>3. ASSUME Holding, pc # "ok", usType = "ios", protlen # 0
      PROVE  /\ prohlen < protlen /\ protlen - prohlen <= Len(pipe')
             /\ \A j \in 1..(protlen - prohlen) :
                  pipe'[j].k = "data" /\ pipe'[j].unit = Later(LastGot, j)
  <2>1. /\ prohlen < protlen /\ protlen - prohlen <= Len(pipe)
        /\ \A j \in 1..(protlen - prohlen) :
             pipe[j].k = "data" /\ pipe[j].unit = Later(LastGot, j)
    BY <1>3 DEF HeldInv, RestInv
  <2>2. \A j \in 1..(protlen - prohlen) : j \in 1..Len(pipe)
    BY <1>2, <2>1
  <2> QED  BY <1>2, <2>1, <2>2
<1>4. Holding' /\ pc' # "ok" =>
       IF usType' = "ios"
       THEN protlen' # 0 =>
              /\ prohlen' < protlen' /\ protlen' - prohlen' <= Len(pipe')
              /\ \A j \in 1..(protlen' - prohlen') :
                   pipe'[j].k = "data" /\ pipe'[j].unit = Later(LastGot', j)
       ELSE protlen' = Base'.len /\ Base'.at = 0
  <2>1. CASE usType = "ios"
    BY <1>1, <1>3, <2>1
  <2>2. CASE usType # "ios"
    BY <1>1, <2>2 DEF HeldInv, RestInv
  <2> QED  BY <2>1, <2>2
<1>5. /\ pc' \notin {"dispatch", "store"} => piece' = <<>>
      /\ pc' \in {"more", "store"} => Len(taken') < hdr'.len /\ hSize' = Len(taken')
      /\ pc' = "ok" => Len(taken') = hdr'.len \/ twice' = 2
  BY DEF HeldInv
<1>6. /\ Holding' => \A i \in 1..Len(piece') : piece'[i] = Later(Base', Count' - Len(piece') + i - 1)
      /\ Serving' => /\ taken' # <<>> /\ hdr'.at = 0
                     /\ \A i \in 1..Len(taken') : taken'[i] = Later(hdr', i - 1)
  BY <1>1 DEF HeldInv
<1> QED  BY <1>4, <1>5, <1>6 DEF HeldInv, RestInv

LEMMA AddedHeld ==
  ASSUME IInv, [Next]_vars,
         AskVersion \/ SendSyn \/ SendControl \/ SendAck \/ SendSegment \/ Ask
  PROVE  HeldInv'
<1> USE DEF IInv
<1>1. pipe \in Seq(Pk) /\ ReqOK /\ NumbersOK /\ ControlOK
  BY TypeParts DEF PipeOK
<1>2. CASE SendControl \/ SendAck \/ SendSegment \/ Ask
  <2>1. UNCHANGED <<usType, pc, piece, hdr, taken, twice, hSize, protlen, prohlen>>
    BY <1>2 DEF SendControl, SendAck, SendSegment, Ask, phoneOnly, handling, parse
  <2>2. CASE SendControl \/ SendAck
    <3>1. \E p : pipe' = Append(pipe, p)
      BY <2>2 DEF SendControl, SendAck
    <3>2. Len(pipe') \in Nat /\ Len(pipe') >= Len(pipe) /\ \A i \in 1..Len(pipe) : pipe'[i] = pipe[i]
      BY <1>1, <3>1
    <3> QED  BY <2>1, <3>2, HeldGrows
  <2>3. CASE SendSegment
    <3>1. PICK n \in 1..Segment, short \in BOOLEAN :
            req.sent + n <= req.len /\ pipe' = pipe \o Packets(n, short)
      BY <2>3 DEF SendSegment
    <3>2. Packets(n, short) \in Seq(Pk)
      BY <1>1, <3>1, PacketsOK DEF ControlOK
    <3>3. Len(pipe') \in Nat /\ Len(pipe') >= Len(pipe) /\ \A i \in 1..Len(pipe) : pipe'[i] = pipe[i]
      BY <1>1, <3>1, <3>2
    <3> QED  BY <2>1, <3>3, HeldGrows
  <2>4. CASE Ask
    <3>1. pipe' = pipe
      BY <2>4 DEF Ask
    <3>2. Len(pipe') \in Nat /\ Len(pipe') >= Len(pipe) /\ \A i \in 1..Len(pipe) : pipe'[i] = pipe[i]
      BY <1>1, <3>1
    <3> QED  BY <2>1, <3>2, HeldGrows
  <2> QED  BY <1>2, <2>2, <2>3, <2>4
<1>3. CASE AskVersion \/ SendSyn
  <2>1. pc = "connect" /\ pc' \in {"connect", "version", "synack"} /\ piece' = piece
    BY <1>3 DEF AskVersion, SendSyn, SynNotSent, handling
  <2>2. piece' = <<>>
    BY <2>1 DEF HeldInv
  <2> QED  BY <2>1, <2>2, CalmHeld
<1> QED  BY <1>2, <1>3
(* A piece goes to the disk: what is held is the same, more of it taken. *)
LEMMA TakenNext ==
  ASSUME IInv, Dispatch \/ Store
  PROVE  StreamInv' /\ HeldInv'
<1> USE DEF IInv
<1>0. /\ piece \in Seq(Units) /\ taken \in Seq(Units) /\ hdr \in Units /\ pipe \in Seq(Pk)
      /\ Len(piece) \in Nat /\ Len(taken) \in Nat
  BY TypeParts DEF ContentOK, PipeOK
<1>1. UNCHANGED <<usType, pipe, req, protlen, prohlen>> /\ piece' = <<>>
  BY DEF Dispatch, Store, parse
<1>2. CASE pc' \in {"handle", "error"}
  <2>1. HeldInv' /\ ~Holding'
    BY <1>1, <1>2, CalmHeld
  <2>2. Drops(0) /\ 0 \in 0..Len(pipe)
    BY <1>0, <1>1 DEF Drops
  <2> QED  BY <1>1, <2>1, <2>2, StreamDrop
<1>3. CASE pc' \notin {"handle", "error"}
  <2>1. /\ Holding /\ hdr' = Base /\ hdr'.at = 0
        /\ \/ pc' = "ok" /\ (Len(taken') >= hdr'.len \/ twice' = 2)
           \/ pc' = "more" /\ ~(Len(taken') >= hdr'.len)
        /\ hSize' = Len(taken') /\ Len(taken') = Count
        /\ \A i \in 1..Len(taken') : taken'[i] = Later(hdr', i - 1)
    <3>1. CASE Dispatch
      <4>1. /\ pc = "dispatch" /\ piece # <<>> /\ piece[1].at = 0 /\ hdr' = piece[1]
            /\ hSize' = Len(piece) /\ taken' = piece
            /\ \/ pc' = "ok" /\ (Len(piece) >= hdr'.len \/ twice' = 2)
               \/ pc' = "more" /\ ~(Len(piece) >= hdr'.len)
        BY <1>3, <3>1 DEF Dispatch, Write, Ends, Whole, IsRequest
      <4>2. Holding /\ Base = piece[1] /\ Count = Len(piece)
        BY <4>1 DEF Holding, Serving, Base, Count
      <4>3. \A i \in 1..Len(piece) : piece[i] = Later(Base, Count - Len(piece) + i - 1)
        BY <4>2 DEF HeldInv
      <4>4. \A i \in 1..Len(piece) : Count - Len(piece) + i - 1 = i - 1
        BY <1>0, <4>2
      <4>5. \A i \in 1..Len(piece) : piece[i] = Later(Base, i - 1)
        BY <4>3, <4>4
      <4> QED  BY <4>1, <4>2, <4>5
    <3>2. CASE Store
      <4>1. /\ pc = "store" /\ hdr' = hdr /\ hSize' = hSize + Len(piece)
            /\ taken' = taken \o piece
            /\ \/ pc' = "ok" /\ (Len(taken \o piece) >= hdr'.len \/ twice' = 2)
               \/ pc' = "more" /\ ~(Len(taken \o piece) >= hdr'.len)
        BY <1>3, <3>2 DEF Store, Write, Ends, Whole, Handled
      <4>2. Holding /\ Serving /\ Base = hdr /\ Count = Len(taken) + Len(piece)
        BY <4>1 DEF Holding, Serving, Base, Count
      <4>3. /\ hdr.at = 0 /\ hSize = Len(taken)
            /\ \A i \in 1..Len(taken) : taken[i] = Later(hdr, i - 1)
            /\ \A i \in 1..Len(piece) : piece[i] = Later(hdr, Count - Len(piece) + i - 1)
        BY <4>1, <4>2 DEF HeldInv
      <4>4. Len(taken \o piece) = Count
        BY <1>0, <4>2
      <4>5. ASSUME NEW i \in 1..Count PROVE (taken \o piece)[i] = Later(hdr, i - 1)
        <5>1. CASE i <= Len(taken)
          <6>1. (taken \o piece)[i] = taken[i] /\ i \in 1..Len(taken)
            BY <1>0, <4>2, <5>1
          <6> QED  BY <4>3, <6>1
        <5>2. CASE i > Len(taken)
          <6>1. (taken \o piece)[i] = piece[i - Len(taken)] /\ i - Len(taken) \in 1..Len(piece)
            BY <1>0, <4>2, <5>2
          <6>2. Count - Len(piece) + (i - Len(taken)) - 1 = i - 1
            BY <1>0, <4>2
          <6> QED  BY <4>3, <6>1, <6>2
        <5> QED  BY <1>0, <4>2, <5>1, <5>2
      <4> QED  BY <4>1, <4>2, <4>3, <4>4, <4>5
    <3> QED  BY <3>1, <3>2
  <2>2. Serving' /\ Holding' /\ Base' = Base
    BY <2>1 DEF Serving, Holding, Base
  <2>3. Count' = Count
    <3>1. Count' = Len(taken') + Len(piece')
      BY <2>2 DEF Count
    <3>2. Len(piece') = 0
      BY <1>1
    <3> QED  BY <1>0, <2>1, <2>2, <3>1, <3>2, BaseOK
  <2>4. LastGot' = LastGot /\ Held' = Held
    BY <2>1, <2>2, <2>3 DEF LastGot, Held
  <2>5. StreamInv'
    BY <1>1, <2>1, <2>2, <2>4, StreamKeep
  <2>6. Base.at = 0 /\ Count <= Base.len /\ Count \in Nat \ {0} /\ Base.len \in Nat
    <3>1. Base.at + Count <= Base.len /\ Base.at = 0 /\ UnitOK(Base) /\ Count \in Nat \ {0}
      BY <2>1, HeldSent, BaseOK
    <3> QED  BY <3>1 DEF UnitOK
  <2>7. HeldInv'
    <3>1. pc' \in {"more", "ok"} /\ piece' = <<>> /\ Len(piece') = 0
      BY <1>1, <2>1
    <3>2. taken' # <<>> /\ hdr'.at = 0 /\ \A i \in 1..Len(taken') : taken'[i] = Later(hdr', i - 1)
      BY <2>1, <2>6
    <3>3. /\ pc' = "more" => Len(taken') < hdr'.len /\ hSize' = Len(taken')
          /\ pc' = "ok" => Len(taken') = hdr'.len \/ twice' = 2
      BY <2>1, <2>6
    <3>4. pc # "ok"
      BY DEF Dispatch, Store
    <3>5. IF usType' = "ios"
          THEN protlen' # 0 =>
                 /\ prohlen' < protlen' /\ protlen' - prohlen' <= Len(pipe')
                 /\ \A j \in 1..(protlen' - prohlen') :
                      pipe'[j].k = "data" /\ pipe'[j].unit = Later(LastGot', j)
          ELSE protlen' = Base'.len /\ Base'.at = 0
      BY <1>1, <2>1, <2>2, <2>4, <3>4 DEF HeldInv, RestInv
    <3> QED  BY <3>1, <3>2, <3>3, <3>5 DEF HeldInv, RestInv
  <2> QED  BY <2>5, <2>7
<1> QED  BY <1>2, <1>3
LEMMA NotEmpty == \A s : Len(s) # 0 => s # <<>>
OBVIOUS

(* A piece of n packets is taken: what comes after c units of b. *)
LEMMA PieceNext ==
  ASSUME IInv, UNCHANGED <<usType, req, hdr, taken, hSize>>, pc \in {"handle", "more"},
         pc' = (IF pc = "handle" THEN "dispatch" ELSE "store"),
         NEW n \in 1..Len(pipe), Drops(n), piece' = [i \in 1..n |-> pipe[i].unit], Pay(pipe[n]),
         NEW b, b = (IF pc = "handle" THEN pipe[1].unit ELSE hdr),
         NEW c, c = (IF pc = "handle" THEN 0 ELSE Len(taken)),
         \A i \in 1..n : pipe[i].unit = Later(b, c + i - 1)
  PROVE  /\ StreamInv' /\ Holding' /\ pc' # "ok" /\ Base' = b /\ LastGot' = pipe[n].unit
         /\ RestInv' => HeldInv'
<1> USE DEF IInv
<1>0. /\ taken \in Seq(Units) /\ pipe \in Seq(Pk) /\ Len(taken) \in Nat /\ n \in Nat /\ n > 0
      /\ c \in Nat
  BY TypeParts DEF ContentOK, PipeOK
<1>1. Len(piece') = n /\ piece' # <<>> /\ \A i \in 1..n : piece'[i] = pipe[i].unit
  <2>1. Len(piece') = n
    BY <1>0
  <2>2. \A i \in 1..n : piece'[i] = pipe[i].unit
    OBVIOUS
  <2>3. piece' # <<>>
    <3>1. n # 0
      BY <1>0
    <3> QED  BY <2>1, <3>1, NotEmpty
  <2> QED  BY <2>1, <2>2, <2>3
<1>2. (Serving' <=> pc # "handle") /\ Holding' /\ pc' # "ok"
  BY <1>1 DEF Serving, Holding
<1>3. Base' = b /\ Count' = c + n
  <2>1. CASE pc = "handle"
    BY <1>0, <1>1, <1>2, <2>1 DEF Base, Count
  <2>2. CASE pc # "handle"
    BY <1>1, <1>2, <2>2 DEF Base, Count
  <2> QED  BY <2>1, <2>2
<1>4. LastGot' = pipe[n].unit /\ Held' = pipe[n].unit
  <2>1. n \in 1..n /\ Count' - 1 = c + n - 1
    BY <1>0, <1>3
  <2>2. pipe[n].unit = Later(b, c + n - 1)
    BY <2>1
  <2>3. LastGot' = Later(b, c + n - 1)
    BY <1>3, <2>1 DEF LastGot
  <2> QED  BY <1>2, <2>2, <2>3 DEF Held
<1>5. StreamInv'
  BY <1>2, <1>4, StreamTake
<1>6. ASSUME RestInv' PROVE HeldInv'
  <2>1. \A i \in 1..Len(piece') : piece'[i] = Later(Base', Count' - Len(piece') + i - 1)
    <3>1. \A i \in 1..n : Count' - Len(piece') + i - 1 = c + i - 1
      BY <1>0, <1>1, <1>3
    <3> QED  BY <1>1, <1>3, <3>1
  <2>2. Serving' => /\ taken' # <<>> /\ hdr'.at = 0
                    /\ \A i \in 1..Len(taken') : taken'[i] = Later(hdr', i - 1)
    <3>1. Serving' => Serving
      BY <1>2 DEF Serving
    <3> QED  BY <3>1 DEF HeldInv
  <2>3. pc' \in {"more", "store"} => Len(taken') < hdr'.len /\ hSize' = Len(taken')
    BY DEF HeldInv
  <2>4. /\ pc' \notin {"dispatch", "store"} => piece' = <<>>
        /\ pc' = "ok" => Len(taken') = hdr'.len \/ twice' = 2
    OBVIOUS
  <2> QED  BY <1>6, <2>1, <2>2, <2>3, <2>4 DEF HeldInv
<1> QED  BY <1>2, <1>3, <1>4, <1>5, <1>6

(* A request that is being received. *)
LEMMA NextUnit ==
  ASSUME IInv, pc = "more"
  PROVE  /\ Holding /\ Base = hdr /\ Count = Len(taken) /\ piece = <<>> /\ Len(taken) \in Nat \ {0}
         /\ hdr \in Units /\ UnitOK(hdr) /\ hdr.at = 0 /\ Len(taken) < hdr.len
         /\ LastGot = Later(hdr, Len(taken) - 1)
         /\ \A j \in Nat : Later(LastGot, j) = Later(hdr, Len(taken) + j - 1)
<1> USE DEF IInv
<1>1. Holding /\ Serving /\ Base = hdr /\ piece = <<>> /\ hdr.at = 0 /\ Len(taken) < hdr.len
  BY DEF HeldInv, Holding, Serving, Base
<1>2. taken \in Seq(Units)
  BY TypeParts DEF ContentOK
<1>3. Count = Len(taken)
  BY <1>1, <1>2 DEF Count
<1>4. Len(taken) \in Nat \ {0} /\ hdr \in Units /\ UnitOK(hdr)
  BY <1>1, <1>3, BaseOK
<1>5. LastGot = Later(hdr, Len(taken) - 1)
  BY <1>1, <1>3 DEF LastGot
<1>6. \A j \in Nat : Later(LastGot, j) = Later(hdr, Len(taken) + j - 1)
  <2> SUFFICES ASSUME NEW j \in Nat PROVE Later(LastGot, j) = Later(hdr, Len(taken) + j - 1)
    OBVIOUS
  <2>1. (Len(taken) - 1) + j = Len(taken) + j - 1
    BY <1>4
  <2> QED  BY <1>1, <1>4, <1>5, <2>1 DEF Later
<1> QED  BY <1>1, <1>3, <1>4, <1>5, <1>6
LEMMA StreamLine ==
  ASSUME IInv
  PROVE  \E o \in {0, 1} : \E f :
           /\ o = (IF Holding THEN 0 ELSE 1)
           /\ Good(f, o, Len(pipe), req, usType) /\ Typed(f, o, Len(pipe)) /\ Shows(f, pipe)
           /\ Len(pipe) \in Nat
           /\ o = 0 => f[0] = [k |-> "data", n |-> 0, unit |-> LastGot]
<1> DEFINE o == IF Holding THEN 0 ELSE 1
<1>1. UnitOK(Held) /\ pipe \in Seq(Pk) /\ o \in {0, 1} /\ (o = 0 => Holding)
  BY HeldOK, TypeParts DEF PipeOK, IInv
<1>2. GoodPipe(o, Held, pipe, req, usType)
  BY DEF StreamInv, IInv
<1>3. o = (IF Holding THEN 0 ELSE 1)
  OBVIOUS
<1> HIDE DEF o
<1>4. /\ Len(pipe) \in Nat /\ Shows(Line(o, Held, pipe), pipe)
      /\ o = 0 => Line(o, Held, pipe)[0] = [k |-> "data", n |-> 0, unit |-> Held]
      /\ Typed(Line(o, Held, pipe), o, Len(pipe))
  BY <1>1, LineAt
<1>5. o = 0 => Held = LastGot
  BY <1>1 DEF Held
<1>6. Good(Line(o, Held, pipe), o, Len(pipe), req, usType)
  BY <1>2 DEF GoodPipe
<1> QED  BY <1>1, <1>3, <1>4, <1>5, <1>6

(* iOS: the packet at the head of the pipe is whole. *)
LEMMA HeaderRun ==
  ASSUME IInv, usType = "ios", pipe # <<>>, First.n > 0
  PROVE  /\ First.n \in 1..Len(pipe)
         /\ \A j \in 1..First.n : Pay(pipe[j]) /\ pipe[j].unit = Later(First.unit, j - 1)
         /\ \A j \in 2..First.n : pipe[j].k = "data"
<1>1. pipe \in Seq(Pk) /\ First \in Pk /\ First.n \in Nat /\ Len(pipe) \in Nat \ {0}
  BY FirstOK, TypeParts DEF PipeOK, IInv
<1>a. PICK o \in {0, 1} : \E f : Good(f, o, Len(pipe), req, usType) /\ Shows(f, pipe)
  BY StreamLine
<1>2. PICK f : Good(f, o, Len(pipe), req, usType) /\ Shows(f, pipe)
  BY <1>a
<1>3. 1 \in o..Len(pipe) /\ f[1] = First /\ Segmented(f, o, Len(pipe))
  BY <1>1, <1>2 DEF Good, Shows, First
<1>4. \A j \in 1..(First.n - 1) :
        1 + j <= Len(pipe) /\ f[1 + j].k = "data" /\ f[1 + j].unit = Later(First.unit, j)
  BY <1>3 DEF Segmented
<1>5. First.n \in 1..Len(pipe)
  <2>1. CASE First.n = 1
    BY <1>1, <2>1
  <2>2. CASE First.n # 1
    <3>1. First.n - 1 \in 1..(First.n - 1)
      BY <1>1, <2>2
    <3>2. 1 + (First.n - 1) <= Len(pipe)
      BY <1>4, <3>1
    <3> QED  BY <1>1, <3>2
  <2> QED  BY <2>1, <2>2
<1>6. ASSUME NEW j \in 2..First.n PROVE pipe[j].k = "data" /\ pipe[j].unit = Later(First.unit, j - 1)
  <2>1. j - 1 \in 1..(First.n - 1) /\ 1 + (j - 1) = j /\ j \in 1..Len(pipe)
    BY <1>1, <1>5
  <2>2. f[j] = pipe[j]
    BY <1>2, <2>1 DEF Shows
  <2> QED  BY <1>4, <2>1, <2>2
<1>7. Pay(pipe[1]) /\ pipe[1].unit = Later(First.unit, 1 - 1)
  <2>1. First.unit \in Units
    BY <1>1, PkTyped
  <2>2. First.unit = [id |-> First.unit.id, at |-> First.unit.at, len |-> First.unit.len]
        /\ First.unit.at \in Nat
    BY <2>1 DEF Units
  <2>3. First.unit.at + (1 - 1) = First.unit.at
    BY <2>2
  <2> QED  BY <2>2, <2>3 DEF Pay, First, Later
<1>8. ASSUME NEW j \in 1..First.n PROVE Pay(pipe[j]) /\ pipe[j].unit = Later(First.unit, j - 1)
  <2>1. j = 1 \/ j \in 2..First.n
    BY <1>1
  <2> QED  BY <1>6, <1>7, <2>1 DEF Pay
<1> QED  BY <1>5, <1>6, <1>8

(* iOS: it goes on where the request that is being received stopped. *)
LEMMA GoesOn ==
  ASSUME IInv, usType = "ios", pc = "more", pipe # <<>>, Pay(pipe[1])
  PROVE  pipe[1].unit = Later(hdr, Len(taken))
<1>0. /\ Holding /\ Len(taken) \in Nat \ {0} /\ UnitOK(hdr) /\ hdr.at = 0 /\ Len(taken) < hdr.len
      /\ LastGot = Later(hdr, Len(taken) - 1)
  BY NextUnit
<1>1. pipe \in Seq(Pk) /\ Len(pipe) \in Nat \ {0}
  BY FirstOK, TypeParts DEF PipeOK, IInv
<1>2. PICK f : /\ Good(f, 0, Len(pipe), req, usType) /\ Shows(f, pipe)
               /\ f[0] = [k |-> "data", n |-> 0, unit |-> LastGot]
  BY <1>0, StreamLine
<1>3. 0 \in 0..Len(pipe) /\ 1 \in (0 + 1)..Len(pipe) /\ f[1] = pipe[1] /\ Chained(f, 0, Len(pipe), req)
  BY <1>1, <1>2 DEF Good, Shows
<1>4. Pay(f[0]) /\ f[0].unit = LastGot
  BY <1>2 DEF Pay
<1>5. Plain(f, 0 + 1, 1 - 1)
  BY DEF Plain
<1>6. Follows(LastGot, pipe[1].unit)
  BY <1>3, <1>4, <1>5 DEF Chained
<1>7. LastGot.id = hdr.id /\ LastGot.len = hdr.len /\ LastGot.at = Len(taken) - 1
  BY <1>0 DEF Later
<1>8. ~Whole1(LastGot) /\ LastGot.at + 1 = 0 + Len(taken)
  BY <1>0, <1>7 DEF Whole1
<1> QED  BY <1>0, <1>6, <1>7, <1>8 DEF Follows, Later
(* Android: a request at the head of the pipe is there without a gap. *)
LEMMA RequestRun ==
  ASSUME IInv, usType = "android", pipe # <<>>
  PROVE  /\ \A j \in 1..Len(pipe) : pipe[j].k = "data" /\ Pay(pipe[j])
         /\ UnitOK(First.unit) /\ First.unit.at < First.unit.len
         /\ \A j \in 1..Len(pipe) : First.unit.at + (j - 1) < First.unit.len =>
                                      pipe[j].unit = Later(First.unit, j - 1)
<1>1. pipe \in Seq(Pk) /\ First \in Pk /\ Len(pipe) \in Nat \ {0}
  BY FirstOK, TypeParts DEF PipeOK, IInv
<1>a. PICK o \in {0, 1} : \E f : Good(f, o, Len(pipe), req, usType) /\ Shows(f, pipe)
  BY StreamLine
<1>2. PICK f : Good(f, o, Len(pipe), req, usType) /\ Shows(f, pipe)
  BY <1>a
<1>3. /\ 1 \in o..Len(pipe) /\ f[1] = First
      /\ Dense(f, o, Len(pipe), req) /\ Ordered(f, o, Len(pipe), req)
  BY <1>1, <1>2 DEF Good, Shows, First
<1>4. \A j \in 1..Len(pipe) : j \in o..Len(pipe) /\ f[j] = pipe[j]
  BY <1>1, <1>2 DEF Shows
<1>5. \A j \in 1..Len(pipe) : pipe[j].k = "data" /\ Pay(pipe[j])
  BY <1>3, <1>4 DEF Dense, Pay
<1>6. UnitOK(First.unit)
  BY <1>1, PkTyped
<1>7. Sent(First.unit, req)
  <2>1. Pay(f[1])
    BY <1>1, <1>4, <1>5
  <2> QED  BY <1>3, <2>1 DEF Ordered
<1>8. \A j \in 1..Len(pipe) : First.unit.at + (j - 1) < First.unit.len =>
                                f[j].unit = Later(First.unit, j - 1)
  BY <1>3 DEF Dense
<1> QED  BY <1>4, <1>5, <1>6, <1>7, <1>8 DEF Sent

LEMMA RestRun ==
  ASSUME IInv, usType = "android", pc = "more", NEW j \in 1..Len(pipe), Len(taken) + j <= hdr.len
  PROVE  pipe[j].unit = Later(hdr, Len(taken) + j - 1) /\ Pay(pipe[j])
<1>0. /\ Holding /\ Len(taken) \in Nat \ {0} /\ UnitOK(hdr) /\ hdr.at = 0
      /\ LastGot = Later(hdr, Len(taken) - 1)
      /\ Later(LastGot, j) = Later(hdr, Len(taken) + j - 1)
  <2>1. j \in Nat
    OBVIOUS
  <2> QED  BY <2>1, NextUnit
<1>1. PICK f : /\ Good(f, 0, Len(pipe), req, usType) /\ Shows(f, pipe) /\ Len(pipe) \in Nat
               /\ f[0] = [k |-> "data", n |-> 0, unit |-> LastGot]
  BY <1>0, StreamLine
<1>2. f[0].unit = LastGot /\ Dense(f, 0, Len(pipe), req) /\ f[j] = pipe[j] /\ 0 \in 0..Len(pipe)
      /\ j \in 0..Len(pipe)
  BY <1>1 DEF Good, Shows
<1>3. LastGot.at + (j - 0) < LastGot.len
  <2>1. LastGot.at = Len(taken) - 1 /\ LastGot.len = hdr.len
    BY <1>0 DEF Later
  <2> QED  BY <1>0, <2>1 DEF UnitOK
<1>4. f[j].unit = Later(LastGot, j - 0) /\ f[j].k = "data"
  BY <1>2, <1>3 DEF Dense
<1>5. j - 0 = j
  OBVIOUS
<1> QED  BY <1>0, <1>2, <1>4, <1>5 DEF Pay

(* The pieces: as much as fits into the buffer. *)
LEMMA LeastOK == \A n \in Nat \ {0} : /\ Least(n, BufUnits) \in 1..n
                                      /\ Least(n, BufUnits) <= BufUnits
                                      /\ n > BufUnits => Least(n, BufUnits) < n
                                      /\ n <= BufUnits => Least(n, BufUnits) = n
BY PkTyped DEF Least

LEMMA NewPacketNext == ASSUME IInv, NewPacket PROVE StreamInv' /\ HeldInv'
<1> USE DEF IInv
<1>0. /\ usType = "ios" /\ pipe # <<>> /\ First.k = "ack" /\ pc \in {"handle", "more"}
      /\ UNCHANGED <<usType, req, hdr, taken, hSize>>
      /\ pc' = (IF pc = "handle" THEN "dispatch" ELSE "store")
  BY DEF NewPacket, Fresh, Got
<1>1. pipe \in Seq(Pk) /\ First \in Pk /\ First.n \in Nat /\ Len(pipe) \in Nat \ {0}
      /\ First = pipe[1] /\ BufUnits \in Nat \ {0}
  <2>1. pipe \in Seq(Pk)
    BY TypeParts DEF PipeOK
  <2>2. First \in Pk /\ First.n \in Nat /\ Len(pipe) \in Nat \ {0}
    BY <1>0, <2>1, FirstOK
  <2>3. First = pipe[1] /\ BufUnits \in Nat \ {0}
    BY PkTyped DEF First
  <2> QED  BY <2>1, <2>2, <2>3
<1>2. CASE First.n = 0
  <2>1. pipe' = Drop(1)
    BY <1>2 DEF NewPacket
  <2>2. Drops(1) /\ 1 \in 0..Len(pipe)
    BY <1>1, <2>1 DEF Drop, Drops
  <2>3. protlen' = 0
    BY <1>1, <1>2 DEF NewPacket
  <2>4. piece' = <<>>
    <3>1. Least(First.n, BufUnits) = 0
      BY <1>1, <1>2 DEF Least
    <3>2. piece' = [i \in 1..0 |-> pipe[i].unit]
      BY <3>1 DEF NewPacket
    <3> QED  BY <3>2
  <2>5. CASE pc = "handle"
    <3>1. ~Holding' /\ ~Serving'
      BY <1>0, <2>4, <2>5 DEF Holding, Serving
    <3>2. HeldInv'
      BY <1>0, <2>4, <2>5, <3>1 DEF HeldInv, RestInv
    <3> QED  BY <1>0, <2>2, <3>1, <3>2, StreamDrop
  <2>6. CASE pc = "more"
    <3>1. piece = <<>> /\ Holding /\ Serving /\ Holding' /\ Serving'
      BY <1>0, <2>6 DEF HeldInv, Holding, Serving
    <3>2. Base' = Base /\ Count' = Count
      BY <1>0, <2>4, <3>1 DEF Base, Count
    <3>3. LastGot' = LastGot /\ Held' = Held
      BY <3>1, <3>2 DEF LastGot, Held
    <3>4. ~Pay(pipe[1]) /\ ~Mark(pipe[1])
      BY <1>0, <1>1, <1>2 DEF Pay, Mark
    <3>5. StreamInv'
      BY <1>0, <2>2, <3>1, <3>3, <3>4, StreamSkip
    <3>6. HeldInv'
      <4>1. Len(piece') = 0 /\ pc' = "store"
        BY <1>0, <2>4, <2>6
      <4>2. taken' # <<>> /\ hdr'.at = 0 /\ \A i \in 1..Len(taken') : taken'[i] = Later(hdr', i - 1)
        BY <1>0, <3>1 DEF HeldInv
      <4>3. Len(taken') < hdr'.len /\ hSize' = Len(taken')
        BY <1>0, <2>6 DEF HeldInv
      <4>4. RestInv'
        BY <1>0, <2>3 DEF RestInv
      <4> QED  BY <4>1, <4>2, <4>3, <4>4 DEF HeldInv
    <3> QED  BY <3>5, <3>6
  <2> QED  BY <1>0, <2>5, <2>6
<1>3. CASE First.n # 0
  <2> DEFINE m == Least(First.n, BufUnits)
  <2>1. /\ First.n \in 1..Len(pipe)
        /\ \A j \in 1..First.n : Pay(pipe[j]) /\ pipe[j].unit = Later(First.unit, j - 1)
        /\ \A j \in 2..First.n : pipe[j].k = "data"
    BY <1>0, <1>1, <1>3, HeaderRun
  <2>2. m \in 1..First.n /\ (First.n > BufUnits => m < First.n)
    BY <1>1, <1>3, LeastOK
  <2>3. piece' = [i \in 1..m |-> pipe[i].unit] /\ pipe' = Drop(m)
    BY <1>3 DEF NewPacket
  <2>4. protlen' = 0 \/ (First.n > BufUnits /\ protlen' = First.n /\ prohlen' = m)
    BY DEF NewPacket
  <2> HIDE DEF m
  <2>5. m \in 1..Len(pipe) /\ m \in Nat /\ m \in 1..m /\ 1 \in 1..First.n
    BY <1>1, <2>1, <2>2
  <2>6. Drops(m)
    BY <1>1, <2>3, <2>5 DEF Drop, Drops
  <2> DEFINE b == IF pc = "handle" THEN pipe[1].unit ELSE hdr
             c == IF pc = "handle" THEN 0 ELSE Len(taken)
  <2>7. \A i \in 1..First.n : pipe[i].unit = Later(b, c + i - 1)
    <3>1. CASE pc = "handle"
      <4>1. \A i \in 1..First.n : c + i - 1 = i - 1
        BY <3>1
      <4> QED  BY <1>1, <2>1, <3>1, <4>1
    <3>2. CASE pc = "more"
      <4>1. First.unit = Later(hdr, Len(taken))
        BY <1>0, <1>1, <2>1, <2>5, <3>2, GoesOn
      <4>2. Len(taken) \in Nat /\ hdr.at = 0
        BY <3>2, NextUnit
      <4>3. \A i \in 1..First.n : (0 + Len(taken)) + (i - 1) = 0 + (Len(taken) + i - 1)
        BY <4>2
      <4> QED  BY <2>1, <3>2, <4>1, <4>2, <4>3 DEF Later
    <3> QED  BY <1>0, <3>1, <3>2
  <2> HIDE DEF b, c
  <2>8. Pay(pipe[m]) /\ \A i \in 1..m : pipe[i].unit = Later(b, c + i - 1)
    BY <1>1, <2>1, <2>2, <2>7
  <2>9. /\ StreamInv' /\ LastGot' = pipe[m].unit
        /\ RestInv' => HeldInv'
    BY <1>0, <2>3, <2>5, <2>6, <2>8, PieceNext DEF b, c
  <2>10. RestInv'
    <3>1. CASE protlen' = 0
      BY <1>0, <3>1 DEF RestInv
    <3>2. CASE First.n > BufUnits /\ protlen' = First.n /\ prohlen' = m
      <4>1. /\ pipe' \in Seq(Pk) /\ Len(pipe') = Len(pipe) - m
            /\ \A i \in 1..(Len(pipe) - m) : pipe'[i] = pipe[i + m]
        BY <1>1, <2>5, <2>6, Dropped DEF Drops
      <4>2. prohlen' < protlen' /\ protlen' - prohlen' <= Len(pipe')
        BY <1>1, <2>1, <2>2, <2>5, <3>2, <4>1
      <4>3. ASSUME NEW j \in 1..(protlen' - prohlen')
            PROVE  pipe'[j].k = "data" /\ pipe'[j].unit = Later(LastGot', j)
        <5>1. j \in Nat /\ j + m \in 2..First.n /\ j + m \in 1..First.n /\ pipe'[j] = pipe[j + m]
          <6>1. j \in 1..(First.n - m)
            BY <3>2
          <6>2. j \in 1..(Len(pipe) - m)
            BY <1>1, <2>1, <2>5, <6>1
          <6>3. j \in Nat /\ j + m \in 2..First.n /\ j + m \in 1..First.n
            BY <1>1, <2>5, <6>1
          <6> QED  BY <4>1, <6>2, <6>3
        <5>2. pipe[m].unit = Later(First.unit, m - 1) /\ pipe[j + m].unit = Later(First.unit, j + m - 1)
          BY <2>1, <2>2, <5>1
        <5>3. UnitOK(First.unit)
          BY <1>1, PkTyped
        <5>4. (First.unit.at + (m - 1)) + j = First.unit.at + (j + m - 1)
          BY <2>5, <5>1, <5>3 DEF UnitOK
        <5> QED  BY <2>1, <2>9, <5>1, <5>2, <5>4 DEF Later
      <4> QED  BY <1>0, <4>2, <4>3 DEF RestInv
    <3> QED  BY <2>4, <3>1, <3>2
  <2> QED  BY <2>9, <2>10
<1> QED  BY <1>2, <1>3
LEMMA RestOfPacketNext == ASSUME IInv, RestOfPacket PROVE StreamInv' /\ HeldInv'
<1> USE DEF IInv
<1>0. /\ usType = "ios" /\ pc = "more" /\ protlen # 0
      /\ UNCHANGED <<usType, req, hdr, taken, hSize>> /\ pc' = "store"
  BY DEF RestOfPacket, Got
<1>1. pipe \in Seq(Pk) /\ Len(pipe) \in Nat /\ protlen \in Nat /\ prohlen \in Nat
  BY TypeParts DEF PipeOK, ParseOK
<1>2. /\ prohlen < protlen /\ protlen - prohlen <= Len(pipe)
      /\ \A j \in 1..(protlen - prohlen) :
           pipe[j].k = "data" /\ pipe[j].unit = Later(LastGot, j)
  BY <1>0 DEF HeldInv, RestInv, Holding, Serving
<1>3. /\ Len(taken) \in Nat \ {0} /\ UnitOK(hdr) /\ hdr.at = 0
      /\ \A j \in Nat : Later(LastGot, j) = Later(hdr, Len(taken) + j - 1)
  BY <1>0, NextUnit
<1> DEFINE m == Recvsize
<1>4. m \in 1..(protlen - prohlen)
  <2>1. protlen - prohlen \in Nat \ {0}
    BY <1>1, <1>2
  <2> QED  BY <2>1, LeastOK, PkTyped DEF Recvsize, Least
<1>5. piece' = [i \in 1..m |-> pipe[i].unit] /\ pipe' = Drop(m)
  BY DEF RestOfPacket
<1>6. protlen' = 0 \/ (prohlen + m # protlen /\ protlen' = protlen /\ prohlen' = prohlen + m)
  BY DEF RestOfPacket, PacketDone
<1> HIDE DEF m
<1>7. m \in Nat /\ m \in 1..Len(pipe) /\ m \in 1..m
  BY <1>1, <1>2, <1>4
<1>8. Drops(m)
  BY <1>1, <1>5, <1>7 DEF Drop, Drops
<1>9. \A j \in 1..(protlen - prohlen) :
        j \in Nat /\ Pay(pipe[j]) /\ pipe[j].unit = Later(hdr, Len(taken) + j - 1)
  <2>1. \A j \in 1..(protlen - prohlen) : j \in Nat
    OBVIOUS
  <2> QED  BY <1>2, <1>3, <2>1 DEF Pay
<1>10. Pay(pipe[m]) /\ \A i \in 1..m : pipe[i].unit = Later(hdr, Len(taken) + i - 1)
  <2>1. \A i \in 1..m : i \in 1..(protlen - prohlen)
    BY <1>1, <1>4
  <2> QED  BY <1>4, <1>9, <2>1
<1>11. /\ StreamInv' /\ Base' = hdr /\ LastGot' = pipe[m].unit
       /\ RestInv' => HeldInv'
  BY <1>0, <1>5, <1>7, <1>8, <1>10, PieceNext
<1>12. RestInv'
  <2>1. CASE protlen' = 0
    BY <1>0, <2>1 DEF RestInv
  <2>2. CASE prohlen + m # protlen /\ protlen' = protlen /\ prohlen' = prohlen + m
    <3>1. /\ Len(pipe') = Len(pipe) - m
          /\ \A i \in 1..(Len(pipe) - m) : pipe'[i] = pipe[i + m]
      BY <1>1, <1>7, <1>8, Dropped DEF Drops
    <3>2. prohlen' < protlen' /\ protlen' - prohlen' <= Len(pipe')
      BY <1>1, <1>2, <1>4, <2>2, <3>1
    <3>3. ASSUME NEW j \in 1..(protlen' - prohlen')
          PROVE  pipe'[j].k = "data" /\ pipe'[j].unit = Later(LastGot', j)
      <4>1. j \in Nat /\ j + m \in 1..(protlen - prohlen) /\ j \in 1..(Len(pipe) - m)
        BY <1>1, <1>2, <1>4, <2>2
      <4>2. pipe'[j] = pipe[j + m]
        BY <3>1, <4>1
      <4>3. /\ pipe[m].unit = Later(hdr, Len(taken) + m - 1)
            /\ pipe[j + m].unit = Later(hdr, Len(taken) + (j + m) - 1)
        BY <1>4, <1>9, <4>1
      <4>4. (hdr.at + (Len(taken) + m - 1)) + j = hdr.at + (Len(taken) + (j + m) - 1)
        BY <1>3, <1>7, <4>1
      <4>5. pipe[j + m].k = "data"
        BY <1>2, <4>1
      <4>6. pipe[j + m].unit = Later(pipe[m].unit, j)
        BY <4>3, <4>4 DEF Later
      <4> QED  BY <1>11, <4>2, <4>5, <4>6
    <3> QED  BY <1>0, <3>2, <3>3 DEF RestInv
  <2> QED  BY <1>6, <2>1, <2>2
<1> QED  BY <1>11, <1>12

LEMMA AoaFirstNext == ASSUME IInv, AoaFirst PROVE StreamInv' /\ HeldInv'
<1> USE DEF IInv
<1>0. /\ usType = "android" /\ pc = "handle" /\ pipe # <<>>
      /\ UNCHANGED <<usType, req, hdr, taken, hSize>>
  BY DEF AoaFirst
<1>1. pipe \in Seq(Pk) /\ Len(pipe) \in Nat \ {0} /\ First = pipe[1]
  <2>1. pipe \in Seq(Pk)
    BY TypeParts DEF PipeOK
  <2> QED  BY <1>0, <2>1, FirstOK DEF First
<1>2. CASE First.unit.at # 0
  <2>1. pc' = "handle" /\ piece' = piece
    BY <1>0, <1>2 DEF AoaFirst, Lost
  <2>2. piece' = <<>>
    BY <1>0, <2>1 DEF HeldInv
  <2>3. HeldInv' /\ ~Holding'
    BY <2>1, <2>2, CalmHeld
  <2>4. PICK n \in 0..Len(pipe) : Drops(n)
    BY BoxDrops
  <2> QED  BY <1>0, <2>3, <2>4, StreamDrop
<1>3. CASE First.unit.at = 0
  <2> DEFINE m == Least(First.unit.len, BufUnits)
  <2>1. /\ UnitOK(First.unit) /\ First.unit.at < First.unit.len
        /\ \A j \in 1..Len(pipe) : pipe[j].k = "data" /\ Pay(pipe[j])
        /\ \A j \in 1..Len(pipe) : First.unit.at + (j - 1) < First.unit.len =>
                                     pipe[j].unit = Later(First.unit, j - 1)
    BY <1>0, RequestRun
  <2>2. First.unit.len \in Nat \ {0}
    BY <1>3, <2>1 DEF UnitOK
  <2>3. m \in 1..First.unit.len
    BY <2>2, LeastOK
  <2>4. /\ m <= Len(pipe) /\ piece' = [i \in 1..m |-> pipe[i].unit] /\ pipe' = Drop(m)
        /\ protlen' = First.unit.len /\ pc' = "dispatch"
    BY <1>0, <1>3 DEF AoaFirst, Got
  <2> HIDE DEF m
  <2>5. m \in Nat /\ m \in 1..Len(pipe)
    BY <1>1, <2>2, <2>3, <2>4
  <2>6. Drops(m)
    BY <1>1, <2>4, <2>5 DEF Drop, Drops
  <2>7. Pay(pipe[m]) /\ \A i \in 1..m : pipe[i].unit = Later(pipe[1].unit, 0 + i - 1)
    <3>1. \A i \in 1..m : i \in 1..Len(pipe) /\ First.unit.at + (i - 1) < First.unit.len /\ 0 + i - 1 = i - 1
      BY <1>1, <1>3, <2>2, <2>3, <2>4
    <3> QED  BY <1>1, <2>1, <2>5, <3>1
  <2>8. /\ StreamInv' /\ Base' = pipe[1].unit
        /\ RestInv' => HeldInv'
    BY <1>0, <2>4, <2>5, <2>6, <2>7, PieceNext
  <2>9. RestInv'
    BY <1>0, <1>1, <1>3, <2>4, <2>8 DEF RestInv
  <2> QED  BY <2>8, <2>9
<1> QED  BY <1>2, <1>3

LEMMA AoaMoreNext == ASSUME IInv, AoaMore PROVE StreamInv' /\ HeldInv'
<1> USE DEF IInv
<1>0. /\ usType = "android" /\ pc = "more"
      /\ UNCHANGED <<usType, req, hdr, taken, hSize, protlen>>
  BY DEF AoaMore
<1>1. pipe \in Seq(Pk) /\ Len(pipe) \in Nat
  BY TypeParts DEF PipeOK
<1>2. CASE prohlen # hSize
  <2>1. pc' = "error" /\ piece' = piece
    BY <1>0, <1>2 DEF AoaMore, Lost
  <2>2. piece' = <<>>
    BY <1>0, <2>1 DEF HeldInv
  <2>3. HeldInv' /\ ~Holding'
    BY <2>1, <2>2, CalmHeld
  <2>4. PICK n \in 0..Len(pipe) : Drops(n)
    BY BoxDrops
  <2> QED  BY <1>0, <2>3, <2>4, StreamDrop
<1>3. CASE prohlen = hSize
  <2> DEFINE m == Recvsize
  <2>1. /\ Len(taken) \in Nat \ {0} /\ UnitOK(hdr) /\ hdr.at = 0 /\ Len(taken) < hdr.len
        /\ Base = hdr /\ Holding
    BY <1>0, NextUnit
  <2>2. protlen = hdr.len /\ prohlen = Len(taken)
    BY <1>0, <1>3, <2>1 DEF HeldInv, RestInv
  <2>3. m \in 1..(hdr.len - Len(taken))
    <3>1. hdr.len - Len(taken) \in Nat \ {0}
      BY <2>1 DEF UnitOK
    <3> QED  BY <2>2, <3>1, LeastOK, PkTyped DEF Recvsize, Least
  <2>4. /\ m <= Len(pipe) /\ piece' = [i \in 1..m |-> pipe[i].unit] /\ pipe' = Drop(m)
        /\ pc' = "store"
    BY <1>0, <1>3 DEF AoaMore, Got
  <2> HIDE DEF m
  <2>5. m \in Nat /\ m \in 1..Len(pipe)
    BY <1>1, <2>3, <2>4
  <2>6. Drops(m)
    BY <1>1, <2>4, <2>5 DEF Drop, Drops
  <2>7. Pay(pipe[m]) /\ \A i \in 1..m : pipe[i].unit = Later(hdr, Len(taken) + i - 1)
    <3>1. \A i \in 1..m : i \in 1..Len(pipe) /\ Len(taken) + i <= hdr.len
      BY <1>1, <2>1, <2>3, <2>4 DEF UnitOK
    <3>2. m \in 1..m
      BY <2>5
    <3> QED  BY <1>0, <3>1, <3>2, RestRun
  <2>8. /\ StreamInv' /\ Base' = hdr
        /\ RestInv' => HeldInv'
    BY <1>0, <2>4, <2>5, <2>6, <2>7, PieceNext
  <2>9. RestInv'
    BY <1>0, <2>1, <2>2, <2>8 DEF RestInv
  <2> QED  BY <2>8, <2>9
<1> QED  BY <1>2, <1>3
-----------------------------------------------------------------------------
(* The invariant. *)
LEMMA StreamHeldNext == IInv /\ [Next]_vars => StreamInv' /\ HeldInv'
<1> SUFFICES ASSUME IInv, [Next]_vars PROVE StreamInv' /\ HeldInv'
  OBVIOUS
<1>1. CASE \/ ConnectAndroid \/ GetVersion \/ GetSynAck \/ ConnectFails \/ Drain \/ DrainFails
           \/ NotTcp \/ NotAck \/ RecvFails
  BY <1>1, CalmNext
<1>2. CASE AskVersion \/ SendSyn \/ SendControl
  BY <1>2, AskedNext, AddedHeld
<1>3. CASE SendAck
  BY <1>3, AckNext, AddedHeld
<1>4. CASE SendSegment
  BY <1>4, StreamSegment, AddedHeld DEF IInv
<1>5. CASE Ask
  BY <1>5, StreamAsk, AddedHeld DEF IInv
<1>6. CASE NewPacket \/ RestOfPacket \/ AoaFirst \/ AoaMore
  BY <1>6, NewPacketNext, RestOfPacketNext, AoaFirstNext, AoaMoreNext
<1>7. CASE Dispatch \/ Store
  BY <1>7, TakenNext
<1>8. CASE Reply
  BY <1>8, ReplyNext
<1>9. CASE UNCHANGED vars
  <2>1. UNCHANGED <<usType, pc, piece, hdr, taken, twice, hSize, protlen, prohlen, pipe, req>>
    BY <1>9 DEF vars, parse
  <2>2. (Holding' <=> Holding) /\ Held' = Held
    BY <2>1, HeldSame
  <2>3. StreamInv'
    BY <2>1, <2>2, StreamKeep DEF IInv
  <2>4. Len(pipe) \in Nat
    BY TypeParts DEF IInv, PipeOK
  <2>5. HeldInv'
    BY <2>1, <2>4, HeldGrows DEF IInv
  <2> QED  BY <2>3, <2>5
<1> QED  BY <1>1, <1>2, <1>3, <1>4, <1>5, <1>6, <1>7, <1>8, <1>9 DEF Next, Box

LEMMA SamePhone == [Next]_vars => usType' = usType
BY DEF Next, Box, ConnectAndroid, AskVersion, GetVersion, SendSyn, GetSynAck, ConnectFails, Drain,
       DrainFails, NewPacket, RestOfPacket, NotTcp, NotAck, AoaFirst, AoaMore, RecvFails, Dispatch,
       Store, Reply, Ask, SendSegment, SendAck, SendControl, vars, phoneOnly

LEMMA PhoneNext == IInv /\ [Next]_vars => PhoneInv'
<1> SUFFICES ASSUME IInv, [Next]_vars, usType' = "android"
             PROVE  ~opened' /\ twice' = 0 /\ pc' \notin {"version", "synack", "drain"}
  BY DEF PhoneInv
<1>0. usType' = usType
  BY SamePhone
<1>1. usType = "android" /\ ~opened /\ twice = 0 /\ pc \notin {"version", "synack", "drain"}
  BY <1>0 DEF IInv, PhoneInv
<1>2. CASE \/ ConnectAndroid \/ AskVersion \/ GetVersion \/ SendSyn \/ GetSynAck \/ ConnectFails
           \/ Drain \/ DrainFails \/ NewPacket \/ RestOfPacket \/ NotTcp \/ NotAck
  BY <1>1, <1>2 DEF ConnectAndroid, AskVersion, GetVersion, SendSyn, GetSynAck, ConnectFails, Drain,
                    DrainFails, NewPacket, RestOfPacket, NotTcp, NotAck, Fresh, peer,
                    handling
<1>3. CASE AoaFirst \/ AoaMore \/ RecvFails
  BY <1>1, <1>3 DEF AoaFirst, AoaMore, RecvFails, Got, Lost, peer, handling
<1>4. CASE Dispatch \/ Store \/ Reply
  <2>1. opened' = opened
    BY <1>4 DEF Dispatch, Store, Reply, peer
  <2>2. pc' \in {"handle", "ok", "more", "error"}
    BY <1>4 DEF Dispatch, Store, Reply, Write
  <2>3. twice' \in {twice, 0}
    BY <1>1, <1>4 DEF Dispatch, Store, Reply, CountedTwice, handling
  <2> QED  BY <1>1, <2>1, <2>2, <2>3
<1>5. CASE Ask \/ SendSegment \/ SendAck \/ SendControl \/ UNCHANGED vars
  BY <1>1, <1>5 DEF Ask, SendSegment, SendAck, SendControl, vars, phoneOnly, peer, handling
<1> QED  BY <1>2, <1>3, <1>4, <1>5 DEF Next, Box

(* What the disk holds are the first units of the request in service.     *)
LEMMA TakenInvNext == ASSUME IInv, [Next]_vars, HeldInv' PROVE TakenInv'
<1>1. CASE taken' = taken
  BY <1>1 DEF IInv, TakenInv
<1>2. CASE taken' # taken
  <2>1. Dispatch \/ Store
    BY <1>2 DEF Next, Box, ConnectAndroid, AskVersion, GetVersion, SendSyn, GetSynAck, ConnectFails,
                Drain, DrainFails, NewPacket, RestOfPacket, NotTcp, NotAck, AoaFirst, AoaMore, RecvFails,
                Reply, Ask, SendSegment, SendAck, SendControl, vars, phoneOnly, handling
  <2>2. pc' \in {"ok", "more"}
    BY <1>2, <2>1 DEF Dispatch, Store, Write
  <2>3. hdr'.at = 0 /\ taken' # <<>> /\ \A i \in 1..Len(taken') : taken'[i] = Later(hdr', i - 1)
    BY <2>2 DEF HeldInv, Serving
  <2>4. taken' \in Seq(Units)
    BY ContentNext DEF IInv, ContentOK
  <2>5. 1 \in 1..Len(taken')
    BY <2>3, <2>4
  <2>6. taken'[1] = Later(hdr', 0)
    BY <2>3, <2>5
  <2>7. taken'[1].at = 0 /\ taken'[1].id = hdr'.id /\ taken'[1].len = hdr'.len
    BY <2>3, <2>6 DEF Later
  <2>8. \A i \in 1..Len(taken') : taken'[i] = Later(taken'[1], i - 1)
    BY <2>3, <2>7 DEF Later
  <2> QED  BY <2>7, <2>8 DEF TakenInv
<1> QED  BY <1>1, <1>2
(* A piece that comes to usStorage_Handle begins with what the pipe began  *)
(* with.                                                                   *)
LEMMA Comes ==
  ASSUME IInv, [Next]_vars, pc' = "dispatch", piece' # <<>>
  PROVE  \/ pc = "dispatch" /\ piece' = piece
         \/ Pay(pipe[1]) /\ 1 \in 1..Len(pipe) /\ piece'[1] = pipe[1].unit
<1> USE DEF IInv
<1>1. \/ NewPacket \/ AoaFirst
      \/ pc = "dispatch" /\ piece' = piece
  BY DEF Next, Box, ConnectAndroid, AskVersion, GetVersion, SendSyn, SynNotSent, GetSynAck,
     ConnectFails, Drain, DrainFails, ResetDone, DrainOn, RestOfPacket, NotTcp, NotAck, AoaMore,
     RecvFails, Got, Lost, Dispatch, Store, Write, Reply, Ask, SendSegment, SendAck, SendControl,
     vars, phoneOnly, handling
<1>2. pipe \in Seq(Pk) /\ BufUnits \in Nat /\ BufUnits > 0
  BY TypeParts, PkTyped DEF PipeOK
<1>3. CASE NewPacket
  <2> DEFINE m == Least(First.n, BufUnits)
  <2>1. pipe # <<>> /\ piece' = [i \in 1..m |-> pipe[i].unit]
    BY <1>3 DEF NewPacket
  <2>2. First.n \in Nat /\ Len(pipe) \in Nat \ {0} /\ First = pipe[1]
    BY <1>2, <2>1, FirstOK DEF First
  <2>3. m \in Nat /\ m # 0
    <3>1. m \in Nat
      BY <1>2, <2>2 DEF Least
    <3> HIDE DEF m
    <3>2. m = 0 => piece' = <<>>
      BY <2>1
    <3> QED  BY <3>1, <3>2
  <2>4. First.n > 0
    BY <1>2, <2>2, <2>3 DEF Least
  <2> HIDE DEF m
  <2>5. piece'[1] = pipe[1].unit
    BY <2>1, <2>3
  <2>6. Pay(pipe[1]) /\ 1 \in 1..Len(pipe)
    BY <2>2, <2>4 DEF Pay
  <2> QED  BY <2>5, <2>6
<1>4. CASE AoaFirst
  <2>1. usType = "android" /\ pipe # <<>> /\ pc = "handle"
    BY <1>4 DEF AoaFirst
  <2>2. Len(pipe) \in Nat \ {0} /\ First = pipe[1]
    BY <1>2, <2>1, FirstOK DEF First
  <2>3. /\ First.unit.at = 0 /\ First.unit.len \in Nat \ {0}
        /\ 1 \in 1..Len(pipe) /\ Pay(pipe[1])
    <3>1. First.unit.at = 0
      BY <1>4, <2>1 DEF AoaFirst, Lost
    <3>2. /\ \A j \in 1..Len(pipe) : Pay(pipe[j])
          /\ UnitOK(First.unit) /\ First.unit.at < First.unit.len
      BY <2>1, RequestRun
    <3> QED  BY <2>2, <3>1, <3>2 DEF UnitOK
  <2>4. Least(First.unit.len, BufUnits) \in 1..First.unit.len
    BY <2>3, LeastOK
  <2>5. piece' = [i \in 1..Least(First.unit.len, BufUnits) |-> pipe[i].unit]
    BY <1>4, <2>3 DEF AoaFirst
  <2>6. piece'[1] = pipe[1].unit
    BY <2>3, <2>4, <2>5
  <2> QED  BY <2>3, <2>6
<1> QED  BY <1>1, <1>3, <1>4

(* No header comes with the rest of a request. *)
LEMMA RestSent ==
  ASSUME TypeOK, SendSegment, req.sent > 0,
         \A i \in 1..Len(pipe) : Pay(pipe[i]) => pipe[i].unit.at # 0
  PROVE  \A i \in 1..Len(pipe') : Pay(pipe'[i]) => pipe'[i].unit.at # 0
<1>1. pipe \in Seq(Pk) /\ Len(pipe) \in Nat /\ ReqOK /\ NumbersOK /\ ControlOK /\ req.sent \in Nat
  BY TypeParts DEF PipeOK, ReqOK
<1>2. PICK n \in 1..Segment, short \in BOOLEAN :
        req.sent + n <= req.len /\ pipe' = pipe \o Packets(n, short)
  BY DEF SendSegment
<1> DEFINE m == Packets(n, short)
<1>3. m \in Seq(Pk) /\ Len(m) = n /\ IsSegment(m, n, req, usType) /\ n \in Nat
  BY <1>1, <1>2, PacketsOK, PkTyped DEF ControlOK
<1> HIDE DEF m
<1>4. \A i \in 1..n : m[i].unit.at # 0
  <2> SUFFICES ASSUME NEW i \in 1..n PROVE m[i].unit.at # 0
    OBVIOUS
  <2>1. m[i].unit = [id |-> req.id, at |-> req.sent + i - 1, len |-> req.len]
    BY <1>3 DEF IsSegment
  <2>2. m[i].unit.at = req.sent + i - 1 /\ i \in Nat /\ i >= 1
    BY <1>3, <2>1
  <2> QED  BY <1>1, <2>2
<1>5. Joins(pipe', pipe, m)
  BY <1>1, <1>2, <1>3, Joined DEF m
<1> SUFFICES ASSUME NEW i \in 1..Len(pipe') PROVE Pay(pipe'[i]) => pipe'[i].unit.at # 0
  OBVIOUS
<1>6. CASE i \in 1..Len(pipe)
  BY <1>5, <1>6 DEF Joins
<1>7. CASE i \notin 1..Len(pipe)
  <2>1. i - Len(pipe) \in 1..n /\ Len(pipe) + (i - Len(pipe)) = i
    BY <1>1, <1>3, <1>5, <1>7 DEF Joins
  <2>2. pipe'[i] = m[i - Len(pipe)]
    BY <1>3, <1>5, <2>1 DEF Joins
  <2> QED  BY <1>4, <2>1, <2>2
<1> QED  BY <1>6, <1>7

(* A phone that was told "ok" sends no header until it asks again. *)
LEMMA OkKept ==
  ASSUME IInv, [Next]_vars, req.result = "ok", req'.result = "ok"
  PROVE  OkInv'
<1> USE DEF IInv
<1>0. /\ taken # <<>> /\ taken[1].id = req.id
      /\ Len(taken) = req.len \/ (twice = 2 /\ usType = "ios")
      /\ req.sent > 0 /\ ~req.open
      /\ \A i \in 1..Len(pipe) : Pay(pipe[i]) => pipe[i].unit.at # 0
      /\ pc = "dispatch" /\ piece # <<>> => piece[1].at # 0
  BY DEF OkInv
<1>1. /\ pipe \in Seq(Pk) /\ Len(pipe) \in Nat /\ ReqOK /\ req.sent \in Nat
      /\ piece \in Seq(Units) /\ ControlOK /\ NumbersOK /\ BufUnits \in Nat
  BY TypeParts, PkTyped DEF PipeOK, ReqOK, ContentOK
<1>2. pc \notin {"more", "store", "ok"}
  BY DEF OkInv, Serving
<1>3. ~(RestOfPacket \/ AoaMore \/ Store \/ Ask)
  <2>1. ~(RestOfPacket \/ AoaMore \/ Store)
    BY <1>2 DEF RestOfPacket, AoaMore, Store
  <2>2. ~Ask
    <3> SUFFICES ASSUME Ask PROVE FALSE
      OBVIOUS
    <3>1. req'.result = "none"
      BY DEF Ask
    <3> QED  BY <3>1
  <2> QED  BY <2>1, <2>2
<1>4. UNCHANGED <<taken, twice>>
  <2>1. CASE Dispatch
    BY <1>0, <2>1 DEF Dispatch, IsRequest
  <2>2. CASE ~Dispatch
    BY <1>3, <2>2 DEF Next, Box, ConnectAndroid, AskVersion, GetVersion, SendSyn, GetSynAck, ConnectFails,
                Drain, DrainFails, NewPacket, NotTcp, NotAck, AoaFirst, RecvFails,
                Reply, SendSegment, SendAck, SendControl, vars, phoneOnly, handling
  <2> QED  BY <2>1, <2>2
<1>5. req'.id = req.id /\ req'.len = req.len /\ req'.sent > 0 /\ ~req'.open
  <2>1. CASE req' = req
    BY <1>0, <2>1
  <2>2. CASE Reply
    BY <1>0, <2>1, <2>2 DEF Reply
  <2>3. CASE AskVersion \/ SendSyn
    <3>1. req' = req \/ req' = Gone
      BY <2>3 DEF AskVersion, SendSyn, SynNotSent
    <3>2. Gone.result = "none"
      BY <1>1 DEF Gone, ReqOK
    <3> QED  BY <2>1, <3>1, <3>2
  <2>4. CASE SendSegment
    <3>1. PICK n \in 1..Segment : req' = [req EXCEPT !.sent = @ + n]
      BY <2>4 DEF SendSegment
    <3>2. n \in Nat /\ req'.sent = req.sent + n
      BY <1>1, <3>1, PkTyped DEF ReqOK
    <3>3. req'.id = req.id /\ req'.len = req.len /\ req'.open = req.open
      BY <1>1, <3>1 DEF ReqOK
    <3> QED  BY <1>0, <1>1, <3>2, <3>3
  <2> QED
    BY <1>3, <2>1, <2>2, <2>3, <2>4
    DEF Next, Box, ConnectAndroid, GetVersion, GetSynAck, ConnectFails, Drain, DrainFails, NewPacket,
        NotTcp, NotAck, AoaFirst, RecvFails, Dispatch, SendAck, SendControl, vars
<1>6. \A i \in 1..Len(pipe') : Pay(pipe'[i]) => pipe'[i].unit.at # 0
  <2>1. ASSUME NEW n \in 0..Len(pipe), Drops(n)
        PROVE  \A i \in 1..Len(pipe') : Pay(pipe'[i]) => pipe'[i].unit.at # 0
    <3>1. /\ Len(pipe') = Len(pipe) - n
          /\ \A i \in 1..(Len(pipe) - n) : i + n \in 1..Len(pipe) /\ pipe'[i] = pipe[i + n]
      BY <1>1, <2>1, Dropped DEF Drops
    <3> QED  BY <1>0, <3>1
  <2>2. ASSUME NEW p \in Pk, p.n = 0, p.k # "data", pipe' = Append(pipe, p)
        PROVE  \A i \in 1..Len(pipe') : Pay(pipe'[i]) => pipe'[i].unit.at # 0
    <3>1. /\ Len(pipe') = Len(pipe) + 1 /\ pipe'[Len(pipe) + 1] = p
          /\ \A i \in 1..Len(pipe) : pipe'[i] = pipe[i]
      BY <1>1, <2>2
    <3>2. ~Pay(p)
      BY <2>2 DEF Pay
    <3>3. \A i \in 1..Len(pipe') : i \in 1..Len(pipe) \/ i = Len(pipe) + 1
      BY <1>1, <3>1
    <3> QED  BY <1>0, <3>1, <3>2, <3>3
  <2>3. CASE pipe' = pipe
    BY <1>0, <2>3
  <2>4. CASE SendAck
    <3>1. PICK p \in Pk : p.n = 0 /\ p.k = "ack" /\ pipe' = Append(pipe, p)
      BY <2>4, AckAdded
    <3> QED  BY <2>2, <3>1
  <2>5. CASE AskVersion \/ SendSyn \/ SendControl
    BY <2>2, <2>3, <2>5, MarkAdded
  <2>6. CASE \/ GetVersion \/ GetSynAck \/ ConnectFails \/ Drain \/ NewPacket \/ NotTcp \/ NotAck
             \/ AoaFirst \/ RecvFails
    BY <2>1, <2>6, BoxDrops
  <2>7. CASE ConnectAndroid \/ DrainFails \/ Dispatch \/ Reply \/ UNCHANGED vars
    <3>1. pipe' = pipe
      BY <2>7 DEF ConnectAndroid, DrainFails, Dispatch, Reply, vars
    <3> QED  BY <2>3, <3>1
  <2>8. CASE SendSegment
    BY <1>0, <1>1, <2>8, RestSent
  <2> QED  BY <1>3, <2>4, <2>5, <2>6, <2>7, <2>8 DEF Next, Box
<1>7. ~Serving'
  <2>1. CASE pc' = pc
    BY <2>1, <1>2 DEF Serving
  <2>2. CASE pc' \in {"connect", "version", "synack", "drain", "handle", "dispatch"}
    BY <2>2 DEF Serving
  <2>3. CASE NewPacket \/ AoaFirst \/ RecvFails \/ NotTcp
    BY <1>2, <2>2, <2>3 DEF NewPacket, AoaFirst, RecvFails, NotTcp, Fresh, Got, Lost
  <2>4. CASE ConnectAndroid \/ AskVersion \/ GetVersion \/ SendSyn \/ GetSynAck \/ ConnectFails
    BY <2>1, <2>2, <2>4
    DEF ConnectAndroid, AskVersion, GetVersion, SendSyn, SynNotSent, GetSynAck, ConnectFails
  <2>5. CASE Drain \/ DrainFails \/ NotAck
    BY <2>2, <2>5 DEF Drain, DrainFails, NotAck, ResetDone, DrainOn
  <2>6. CASE Dispatch \/ Reply
    <3>1. pc' = "handle"
      BY <1>0, <2>6 DEF Dispatch, Reply, IsRequest
    <3> QED  BY <2>2, <3>1
  <2>7. CASE SendSegment \/ SendAck \/ SendControl \/ UNCHANGED vars
    BY <2>1, <2>7 DEF SendSegment, SendAck, SendControl, vars, phoneOnly
  <2> QED  BY <1>3, <2>3, <2>4, <2>5, <2>6, <2>7 DEF Next, Box
<1>8. ASSUME pc' = "dispatch", piece' # <<>> PROVE piece'[1].at # 0
  <2>1. \/ pc = "dispatch" /\ piece' = piece
        \/ Pay(pipe[1]) /\ 1 \in 1..Len(pipe) /\ piece'[1] = pipe[1].unit
    BY <1>8, Comes
  <2> QED  BY <1>0, <1>8, <2>1
<1>9. usType' = usType
  BY SamePhone
<1> QED  BY <1>0, <1>4, <1>5, <1>6, <1>7, <1>8, <1>9 DEF OkInv

(* What has come of a request that is answered with "ok" begins with its   *)
(* header, and nothing else has one.                                       *)
LEMMA OkTold ==
  ASSUME IInv, Reply, req.result # "ok", req'.result = "ok"
  PROVE  OkInv'
<1> USE DEF IInv
<1>1. /\ pc = "ok" /\ req.id = hdr.id /\ req' = [req EXCEPT !.open = FALSE, !.result = pc]
      /\ pc' = "handle" /\ UNCHANGED <<usType, taken, twice, pipe>>
  <2>1. req' = req \/ (req.id = hdr.id /\ req' = [req EXCEPT !.open = FALSE, !.result = pc])
    BY DEF Reply
  <2>2. pc \in {"ok", "error"} /\ pc' = "handle" /\ UNCHANGED <<usType, taken, twice, pipe>>
    BY DEF Reply, handling
  <2>3. req' = [req EXCEPT !.open = FALSE, !.result = pc] => req'.result = pc
    BY TypeParts DEF ReqOK
  <2> QED  BY <2>1, <2>2, <2>3
<1>2. ReqOK /\ taken \in Seq(Units) /\ req.id \in Nat /\ req.len \in Nat /\ req.sent \in Nat
  BY TypeParts, ReqNats DEF ContentOK
<1>3. req'.id = req.id /\ req'.len = req.len /\ req'.sent = req.sent /\ ~req'.open
  BY <1>1, <1>2 DEF ReqOK
<1>4. /\ Holding /\ Serving /\ Base = hdr /\ taken # <<>> /\ hdr.at = 0
      /\ Len(taken) = hdr.len \/ twice = 2
      /\ piece = <<>> /\ \A i \in 1..Len(taken) : taken[i] = Later(hdr, i - 1)
  BY <1>1 DEF HeldInv, Holding, Serving, Base
<1>5. Count = Len(taken) /\ Len(taken) \in Nat \ {0} /\ 1 \in 1..Len(taken)
  BY <1>2, <1>4 DEF Count
<1>6. LastGot = Later(hdr, Len(taken) - 1) /\ UnitOK(hdr)
  BY <1>4, <1>5, BaseOK DEF LastGot
<1>7. LastGot.id = req.id /\ LastGot.len = hdr.len /\ LastGot.at = Len(taken) - 1
  BY <1>1, <1>4, <1>6 DEF Later, UnitOK
<1>8. hdr.len = req.len /\ req.sent > 0
  <2>1. Sent(LastGot, req)
    BY <1>4, HeldSent
  <2> QED  BY <1>2, <1>5, <1>7, <2>1 DEF Sent
<1>9. taken[1].id = req.id
  <2>1. taken[1] = Later(hdr, 1 - 1)
    BY <1>4, <1>5
  <2>2. taken[1].id = hdr.id
    BY <2>1 DEF Later
  <2> QED  BY <1>1, <2>2
<1>10. ASSUME NEW i \in 1..Len(pipe), Pay(pipe[i]) PROVE pipe[i].unit.at # 0
  <2>1. PICK f : /\ Good(f, 0, Len(pipe), req, usType) /\ Typed(f, 0, Len(pipe)) /\ Shows(f, pipe)
                 /\ f[0] = [k |-> "data", n |-> 0, unit |-> LastGot] /\ Len(pipe) \in Nat
    BY <1>4, StreamLine
  <2>2. 0 \in 0..Len(pipe) /\ i \in 0..Len(pipe) /\ 0 < i /\ f[i] = pipe[i]
    BY <2>1 DEF Shows
  <2>3. Pay(f[0]) /\ f[0].unit = LastGot
    BY <2>1 DEF Pay
  <2>4. Sent(pipe[i].unit, req) /\ Before(LastGot, pipe[i].unit)
    BY <1>10, <2>1, <2>2, <2>3 DEF Good, Ordered
  <2>5. UnitOK(pipe[i].unit)
    BY <2>1, <2>2 DEF Typed
  <2> QED  BY <1>2, <1>5, <1>7, <2>4, <2>5 DEF Sent, Before, UnitOK
<1>11. Len(taken) = req.len \/ (twice = 2 /\ usType = "ios")
  <2>1. twice = 2 => usType = "ios"
    BY TypeParts DEF PhoneInv, ControlOK
  <2> QED  BY <1>4, <1>8, <2>1
<1>12. ~Serving' /\ pc' # "dispatch"
  BY <1>1 DEF Serving
<1> QED  BY <1>1, <1>3, <1>4, <1>8, <1>9, <1>10, <1>11, <1>12 DEF OkInv

LEMMA OkInvNext == IInv /\ [Next]_vars => OkInv'
<1> SUFFICES ASSUME IInv, [Next]_vars, req'.result = "ok" PROVE OkInv'
  BY DEF OkInv
<1>1. CASE req.result = "ok"
  BY <1>1, OkKept
<1>2. CASE req.result # "ok"
  <2>1. CASE Reply
    BY <1>2, <2>1, OkTold
  <2>2. CASE ~Reply
    <3>1. ReqOK
      BY TypeParts DEF IInv
    <3>2. req' # req /\ req' # Gone
      <4>1. Gone.result = "none"
        BY <3>1 DEF Gone, ReqOK
      <4> QED  BY <1>2, <4>1
    <3>3. ~Ask
      <4> SUFFICES ASSUME Ask PROVE FALSE
        OBVIOUS
      <4>1. req'.result = "none"
        BY DEF Ask
      <4> QED  BY <4>1
    <3>4. ~SendSegment
      <4> SUFFICES ASSUME SendSegment PROVE FALSE
        OBVIOUS
      <4>1. PICK n \in 1..Segment : req' = [req EXCEPT !.sent = @ + n]
        BY DEF SendSegment
      <4>2. req'.result = req.result
        BY <3>1, <4>1 DEF ReqOK
      <4> QED  BY <1>2, <4>2
    <3> QED
      BY <2>2, <3>2, <3>3, <3>4
      DEF Next, Box, ConnectAndroid, AskVersion, GetVersion, SendSyn, SynNotSent, GetSynAck, ConnectFails,
          Drain, DrainFails, NewPacket, RestOfPacket, NotTcp, NotAck, AoaFirst, AoaMore, RecvFails,
          Dispatch, Store, SendAck, SendControl, vars
  <2> QED  BY <2>1, <2>2
<1> QED  BY <1>1, <1>2
LEMMA InvInit == Init => IInv
<1> SUFFICES ASSUME Init PROVE IInv
  OBVIOUS
<1>1. TypeOK
  BY TypeInit
<1>2. /\ pc = "connect" /\ ~opened /\ twice = 0
      /\ taken = <<>> /\ piece = <<>> /\ pipe = <<>> /\ req.result = "none"
  BY DEF Init
<1>3. ~Holding /\ ~Serving
  BY <1>2 DEF Holding, Serving
<1>4. Len(pipe) = 0
  BY <1>2
<1>5. StreamInv
  <2>1. \A f : Good(f, 1, 0, req, usType)
    BY DEF Good, Ordered, Segmented, Chained, Dense
  <2>2. GoodPipe(1, Held, pipe, req, usType)
    BY <1>4, <2>1 DEF GoodPipe
  <2> QED  BY <1>3, <2>2 DEF StreamInv
<1>6. HeldInv
  BY <1>2, <1>3 DEF HeldInv, RestInv
<1>7. PhoneInv /\ TakenInv /\ OkInv
  BY <1>2 DEF PhoneInv, TakenInv, OkInv
<1> QED  BY <1>1, <1>5, <1>6, <1>7 DEF IInv

LEMMA InvNext == IInv /\ [Next]_vars => IInv'
<1> SUFFICES ASSUME IInv, [Next]_vars PROVE IInv'
  OBVIOUS
<1>1. TypeOK'
  BY TypeNext DEF IInv
<1>2. StreamInv' /\ HeldInv'
  BY StreamHeldNext
<1>3. PhoneInv' /\ TakenInv' /\ OkInv'
  BY <1>2, PhoneNext, TakenInvNext, OkInvNext
<1> QED  BY <1>1, <1>2, <1>3 DEF IInv

LEMMA InvAlways == Spec => []IInv
BY InvInit, InvNext, PTL DEF Spec

(* What a write stores are the first units of one request of the phone,   *)
(* each once and in order, whatever a request that failed has left in the *)
(* pipe, for both kinds of phones (usStorage_Handle, RecvPackage).        *)
THEOREM WriteIsOneRequestAlways == Spec => []WriteIsOneRequest
<1>1. IInv => WriteIsOneRequest
  <2> SUFFICES ASSUME IInv, NEW i \in 1..Len(taken)
               PROVE  taken[i] = [id |-> taken[1].id, at |-> i - 1, len |-> taken[1].len]
    BY DEF WriteIsOneRequest
  <2>1. taken # <<>>
    BY TypeParts DEF IInv, ContentOK
  <2>2. taken[1].at = 0 /\ taken[i] = Later(taken[1], i - 1)
    BY <2>1 DEF IInv, TakenInv
  <2>3. 0 + (i - 1) = i - 1
    OBVIOUS
  <2> QED  BY <2>2, <2>3 DEF Later
<1> QED  BY <1>1, InvAlways, PTL

(* A phone that is told "ok" is told of its last request, never of one    *)
(* before it, and all of that request was taken to be written; unless it  *)
(* is an iPhone's and pieces of it were counted twice, then at least the  *)
(* first of it was (usStorage_diskWRITE, usStorage_sendHEAD).             *)
THEOREM OkIsWholeAlways == Spec => []OkIsWhole
<1>1. IInv => OkIsWhole
  BY DEF IInv, OkInv, OkIsWhole
<1> QED  BY <1>1, InvAlways, PTL

-----------------------------------------------------------------------------
(* Acknowledgements. What the headers in a queue s of packets announce is  *)
(* at most b: there is a running total that ends there.                    *)
Announced(s, b) ==
  \E F \in [0..Len(s) -> Nat] :
    /\ \A i, j \in 0..Len(s) : i < j => F[i] + s[j].n <= F[j]
    /\ F[Len(s)] <= b

LEMMA AnnouncedDrop ==
  ASSUME NEW s \in Seq(Pk), NEW b \in Nat, NEW m \in 0..Len(s), Announced(s, b)
  PROVE  /\ Announced(SubSeq(s, m + 1, Len(s)), b)
         /\ m > 0 => s[1].n <= b /\ Announced(SubSeq(s, m + 1, Len(s)), b - s[1].n)
<1> DEFINE t == SubSeq(s, m + 1, Len(s))
<1>1. PICK F \in [0..Len(s) -> Nat] :
        (\A i, j \in 0..Len(s) : i < j => F[i] + s[j].n <= F[j]) /\ F[Len(s)] <= b
  BY DEF Announced
<1>2. Len(s) \in Nat /\ m \in Nat /\ m <= Len(s) /\ \A i \in 1..Len(s) : s[i].n \in Nat
  BY PkTyped
<1>3. Len(t) = Len(s) - m /\ \A i \in 1..Len(t) : t[i] = s[i + m]
  BY <1>2
<1>4. \A i, j \in 0..Len(s) : i <= j => F[i] <= F[j]
  <2> SUFFICES ASSUME NEW i \in 0..Len(s), NEW j \in 0..Len(s), i < j PROVE F[i] <= F[j]
    OBVIOUS
  <2>1. F[i] + s[j].n <= F[j] /\ j \in 1..Len(s) /\ F[i] \in Nat /\ F[j] \in Nat
    BY <1>1, <1>2
  <2> QED  BY <1>2, <2>1
<1> HIDE DEF t
<1>5. ASSUME NEW c \in Nat, F[Len(s)] - F[m] <= c PROVE Announced(t, c)
  <2> DEFINE G == [i \in 0..Len(t) |-> F[i + m] - F[m]]
  <2>1. \A i \in 0..Len(t) : i + m \in 0..Len(s) /\ m <= i + m
    BY <1>2, <1>3
  <2>2. G \in [0..Len(t) -> Nat]
    <3>1. ASSUME NEW i \in 0..Len(t) PROVE F[i + m] - F[m] \in Nat
      <4>1. i + m \in 0..Len(s) /\ m \in 0..Len(s) /\ m <= i + m
        BY <2>1
      <4>2. F[m] <= F[i + m]
        BY <1>4, <4>1
      <4>3. F[m] \in Nat /\ F[i + m] \in Nat
        BY <1>1, <4>1
      <4> QED  BY <4>2, <4>3
    <3> QED  BY <3>1
  <2>3. ASSUME NEW i \in 0..Len(t), NEW j \in 0..Len(t), i < j
        PROVE  G[i] + t[j].n <= G[j]
    <3>1. F[i + m] + s[j + m].n <= F[j + m] /\ j \in 1..Len(t)
      BY <1>1, <1>2, <1>3, <2>1, <2>3
    <3>2. i + m \in 0..Len(s) /\ j + m \in 1..Len(s) /\ j + m \in 0..Len(s) /\ m \in 0..Len(s)
      BY <1>2, <1>3, <2>1, <3>1
    <3>3. F[i + m] \in Nat /\ F[j + m] \in Nat /\ F[m] \in Nat /\ s[j + m].n \in Nat
      BY <1>1, <1>2, <3>2
    <3> QED  BY <1>3, <3>1, <3>3
  <2>4. G[Len(t)] <= c
    BY <1>2, <1>3, <1>5
  <2> HIDE DEF G
  <2> QED  BY <2>2, <2>3, <2>4 DEF Announced
<1>6. F[Len(s)] \in Nat /\ F[m] \in Nat /\ F[0] \in Nat
  BY <1>1, <1>2
<1>7. Announced(t, b)
  BY <1>1, <1>5, <1>6
<1>8. ASSUME m > 0 PROVE s[1].n <= b /\ Announced(t, b - s[1].n)
  <2>1. F[0] + s[1].n <= F[1] /\ F[1] <= F[m] /\ F[m] <= F[Len(s)] /\ s[1].n \in Nat /\ F[1] \in Nat
    BY <1>1, <1>2, <1>4, <1>8
  <2>2. s[1].n <= b /\ b - s[1].n \in Nat /\ F[Len(s)] - F[m] <= b - s[1].n
    BY <1>1, <1>6, <2>1
  <2> QED  BY <1>5, <2>2
<1> QED  BY <1>7, <1>8 DEF t

(* A queue of packets that announce n, in the first one if at all. *)
LEMMA AnnouncedAdd ==
  ASSUME NEW s \in Seq(Pk), NEW b \in Nat, Announced(s, b),
         NEW t \in Seq(Pk), NEW n \in Nat,
         \A i \in 1..Len(t) : t[i].n = 0 \/ (i = 1 /\ t[i].n = n)
  PROVE  Announced(s \o t, b + n)
<1>1. PICK F \in [0..Len(s) -> Nat] :
        (\A i, j \in 0..Len(s) : i < j => F[i] + s[j].n <= F[j]) /\ F[Len(s)] <= b
  BY DEF Announced
<1> DEFINE u == s \o t
           G == [i \in 0..Len(u) |-> IF i <= Len(s) THEN F[i] ELSE b + n]
<1>2. Len(s) \in Nat /\ Len(t) \in Nat /\ \A i \in 1..Len(s) : s[i].n \in Nat
  BY PkTyped
<1>3. /\ Len(u) = Len(s) + Len(t)
      /\ \A i \in 1..Len(s) : u[i] = s[i]
      /\ \A i \in 1..Len(t) : u[i + Len(s)] = t[i]
  BY <1>2
<1> HIDE DEF u
<1>4. G \in [0..Len(u) -> Nat]
  BY <1>1, <1>2, <1>3
<1>5. \A i \in 0..Len(s) : F[i] <= b /\ F[i] \in Nat
  <2> SUFFICES ASSUME NEW i \in 0..Len(s) PROVE F[i] <= b /\ F[i] \in Nat
    OBVIOUS
  <2>1. F[i] \in Nat /\ F[Len(s)] \in Nat
    BY <1>1, <1>2
  <2>2. CASE i = Len(s)
    BY <1>1, <2>1, <2>2
  <2>3. CASE i < Len(s)
    <3>1. F[i] + s[Len(s)].n <= F[Len(s)] /\ s[Len(s)].n \in Nat
      BY <1>1, <1>2, <2>3
    <3> QED  BY <1>1, <2>1, <3>1
  <2> QED  BY <1>2, <2>2, <2>3
<1>6. ASSUME NEW i \in 0..Len(u), NEW j \in 0..Len(u), i < j
      PROVE  G[i] + u[j].n <= G[j]
  <2>1. CASE j <= Len(s)
    <3>1. i \in 0..Len(s) /\ j \in 0..Len(s) /\ u[j] = s[j] /\ G[i] = F[i] /\ G[j] = F[j]
      BY <1>2, <1>3, <1>6, <2>1
    <3> QED  BY <1>1, <1>6, <3>1
  <2>2. CASE j > Len(s)
    <3>1. j - Len(s) \in 1..Len(t) /\ u[j] = t[j - Len(s)] /\ G[j] = b + n
      BY <1>2, <1>3, <1>6, <2>2
    <3>2. CASE i <= Len(s)
      <4>1. G[i] \in Nat /\ G[i] <= b
        BY <1>5, <1>6, <3>2
      <4>2. u[j].n \in {0, n}
        BY <3>1
      <4> QED  BY <3>1, <4>1, <4>2
    <3>3. CASE i > Len(s)
      <4>1. G[i] = b + n /\ j - Len(s) # 1
        BY <1>2, <1>6, <3>3
      <4>2. u[j].n = 0
        BY <3>1, <4>1
      <4> QED  BY <3>1, <4>1, <4>2
    <3> QED  BY <1>2, <3>2, <3>3
  <2> QED  BY <1>2, <2>1, <2>2
<1>7. G[Len(u)] <= b + n
  BY <1>2, <1>3, <1>5
<1> HIDE DEF G
<1>8. Announced(u, b + n)
  BY <1>4, <1>6, <1>7 DEF Announced
<1> QED  BY <1>8 DEF u

LEMMA AnnouncedNone ==
  ASSUME NEW s \in Seq(Pk), \A i \in 1..Len(s) : s[i].n = 0
  PROVE  Announced(s, 0)
<1>1. Len(s) \in Nat
  OBVIOUS
<1>2. [i \in 0..Len(s) |-> 0] \in [0..Len(s) -> Nat]
  OBVIOUS
<1>3. /\ \A i, j \in 0..Len(s) : i < j => [x \in 0..Len(s) |-> 0][i] + s[j].n <= [x \in 0..Len(s) |-> 0][j]
      /\ [x \in 0..Len(s) |-> 0][Len(s)] <= 0
  BY <1>1
<1> QED  BY <1>2, <1>3 DEF Announced

-----------------------------------------------------------------------------
(* Sequence numbers. *)
LEMMA GapIs ==
  ASSUME NEW a \in 0..(SeqWrap - 1), NEW b \in 0..(SeqWrap - 1)
  PROVE  /\ Gap(a, b) = IF a <= b THEN b - a ELSE b - a + SeqWrap
         /\ Gap(a, b) \in Nat
<1>0. SeqWrap \in Nat /\ SeqWrap > 1
  BY Constants
<1>1. \A x \in 0..(SeqWrap - 1) : x % SeqWrap = x
  BY <1>0
<1>2. \A x \in (-SeqWrap)..(-1) : x % SeqWrap = x + SeqWrap
  BY <1>0
<1> QED  BY <1>0, <1>1, <1>2 DEF Gap

LEMMA PlusIs ==
  ASSUME NEW a \in 0..(SeqWrap - 1), NEW n \in 0..SeqWrap
  PROVE  /\ Plus(a, n) = IF a + n < SeqWrap THEN a + n ELSE a + n - SeqWrap
         /\ Plus(a, n) \in 0..(SeqWrap - 1)
<1>0. SeqWrap \in Nat /\ SeqWrap > 1
  BY Constants
<1>1. \A x \in 0..(SeqWrap - 1) : x % SeqWrap = x
  BY <1>0
<1>2. \A x \in SeqWrap..(2 * SeqWrap - 1) : x % SeqWrap = x - SeqWrap
  BY <1>0
<1> QED  BY <1>0, <1>1, <1>2 DEF Plus

-----------------------------------------------------------------------------
(* The connection. A connection of this port is set up once between two    *)
(* resets unless a handshake slips.                                        *)
Working   == pc \in {"drain", "handle", "more", "dispatch", "store", "ok", "error"}
IsAnswer(p) == p.k \in {"synack", "rst"}

PortInv ==
  usType = "ios" =>
    /\ pc \notin {"connect", "version"} => conn \in {NoConn, sport}
    /\ ~ver_ok => conn = NoConn /\ pc \in {"connect", "version"}
    /\ pc = "version" => ~ver_ok
    /\ conn = NoConn \/ pc = "synack" => ~opened
    /\ ~slipped /\ ~Working =>
         tx_ack = 0 /\ (conn = sport => nxt = 1 /\ una = 0 /\ ~opened)

(* While the box waits for it, the answer to its SYN is the last one in    *)
(* the pipe, and nothing has been sent since.                              *)
LastAnswer(j, s, c) ==
  /\ s[j].k = (IF c = NoConn THEN "rst" ELSE "synack")
  /\ \A i \in (j + 1)..Len(s) : s[i].n = 0 /\ ~IsAnswer(s[i])
AnswerInv ==
  usType = "ios" /\ pc = "synack" => \E j \in 1..Len(pipe) : LastAnswer(j, pipe, conn)

(* What of the packet in hand is still to be acknowledged.                 *)
Busy == IF pc \in {"dispatch", "store", "more"} THEN protlen ELSE 0
Live == usType = "ios" /\ conn = sport /\ opened /\ ~slipped

(* The box, at a, has not gone beyond what the phone has sent, x, which is *)
(* a window beyond u at most; what is in hand and in the pipe fits between.*)
Numbers(u, a, x, b, s) ==
  /\ Gap(u, a) + Gap(a, x) = Gap(u, x)
  /\ Gap(u, x) <= TxWin
  /\ b <= Gap(a, x)
  /\ Announced(s, Gap(a, x) - b)
NumberInv == Live => Numbers(una, tx_ack, nxt, Busy, pipe)

AckInv == PortInv /\ AnswerInv /\ NumberInv

LEMMA AnnouncedMore ==
  ASSUME NEW s \in Seq(Pk), NEW b \in Nat, NEW c \in Nat, b <= c, Announced(s, b)
  PROVE  Announced(s, c)
<1>1. PICK F \in [0..Len(s) -> Nat] :
        (\A i, j \in 0..Len(s) : i < j => F[i] + s[j].n <= F[j]) /\ F[Len(s)] <= b
  BY DEF Announced
<1>2. F[Len(s)] \in Nat
  BY <1>1
<1>3. F[Len(s)] <= c
  BY <1>1, <1>2
<1> QED  BY <1>1, <1>3 DEF Announced

SeqNo == 0..(SeqWrap - 1)

(* The acknowledgement the phone gets is the one the box has sent.         *)
LEMMA NumbersAcked ==
  ASSUME NEW u \in SeqNo, NEW a \in SeqNo, NEW x \in SeqNo, NEW b, NEW s, Numbers(u, a, x, b, s)
  PROVE  Numbers(a, a, x, b, s)
<1>1. Gap(a, a) = 0 /\ Gap(u, a) \in Nat /\ Gap(a, x) \in Nat
  BY GapIs DEF SeqNo
<1>2. TxWin \in Nat
  BY SizesArePos
<1> QED  BY <1>1, <1>2 DEF Numbers

(* The box has gone n units on.                                            *)
LEMMA NumbersOn ==
  ASSUME NEW u \in SeqNo, NEW a \in SeqNo, NEW x \in SeqNo, NEW n \in Nat,
         NEW s, NEW t, Numbers(u, a, x, 0, s), n <= Gap(a, x), Announced(t, Gap(a, x) - n)
  PROVE  Plus(a, n) \in SeqNo /\ Numbers(u, Plus(a, n), x, 0, t)
<1>1. /\ Gap(u, a) = IF u <= a THEN a - u ELSE a - u + SeqWrap
      /\ Gap(a, x) = IF a <= x THEN x - a ELSE x - a + SeqWrap
      /\ Gap(u, x) = IF u <= x THEN x - u ELSE x - u + SeqWrap
  BY GapIs DEF SeqNo
<1>2. SeqWrap \in Nat /\ SeqWrap > 1
  BY Constants
<1>3. n \in 0..SeqWrap
  BY <1>1, <1>2 DEF SeqNo
<1> DEFINE c == Plus(a, n)
<1>4. c = (IF a + n < SeqWrap THEN a + n ELSE a + n - SeqWrap) /\ c \in SeqNo
  BY <1>3, PlusIs DEF SeqNo
<1> HIDE DEF c
<1>5. /\ Gap(u, c) = IF u <= c THEN c - u ELSE c - u + SeqWrap
      /\ Gap(c, x) = IF c <= x THEN x - c ELSE x - c + SeqWrap
  BY <1>4, GapIs DEF SeqNo
<1>6. Gap(u, a) + Gap(a, x) = Gap(u, x)
  BY DEF Numbers
<1>7. Gap(c, x) = Gap(a, x) - n /\ Gap(u, c) + Gap(c, x) = Gap(u, x) /\ 0 <= Gap(c, x)
  BY <1>1, <1>2, <1>4, <1>5, <1>6 DEF SeqNo
<1>8. Gap(c, x) \in Int /\ Gap(c, x) - 0 = Gap(a, x) - n
  BY <1>1, <1>2, <1>4, <1>5, <1>7 DEF SeqNo
<1>9. Numbers(u, c, x, 0, t)
  BY <1>7, <1>8 DEF Numbers
<1> QED  BY <1>4, <1>9 DEF c

(* The phone has sent n units more.                                        *)
LEMMA NumbersSent ==
  ASSUME NEW u \in SeqNo, NEW a \in SeqNo, NEW x \in SeqNo, NEW b \in Nat, NEW n \in Nat,
         NEW s \in Seq(Pk), NEW t \in Seq(Pk), Numbers(u, a, x, b, s), Gap(u, x) + n <= TxWin,
         \A i \in 1..Len(t) : t[i].n = 0 \/ (i = 1 /\ t[i].n = n)
  PROVE  Plus(x, n) \in SeqNo /\ Numbers(u, a, Plus(x, n), b, s \o t)
<1>1. /\ Gap(u, a) = IF u <= a THEN a - u ELSE a - u + SeqWrap
      /\ Gap(a, x) = IF a <= x THEN x - a ELSE x - a + SeqWrap
      /\ Gap(u, x) = IF u <= x THEN x - u ELSE x - u + SeqWrap
  BY GapIs DEF SeqNo
<1>2. SeqWrap \in Nat /\ SeqWrap > 1 /\ TxWin \in Nat /\ 2 * TxWin <= SeqWrap
  BY Constants, SizesArePos, WrapHoldsWindow
<1>3. TxWin < SeqWrap
  BY <1>2
<1>4. n \in 0..SeqWrap /\ Gap(u, x) + n < SeqWrap
  BY <1>1, <1>2, <1>3 DEF SeqNo
<1> DEFINE c == Plus(x, n)
<1>5. c = (IF x + n < SeqWrap THEN x + n ELSE x + n - SeqWrap) /\ c \in SeqNo
  BY <1>4, PlusIs DEF SeqNo
<1> HIDE DEF c
<1>6. /\ Gap(u, c) = IF u <= c THEN c - u ELSE c - u + SeqWrap
      /\ Gap(a, c) = IF a <= c THEN c - a ELSE c - a + SeqWrap
  BY <1>5, GapIs DEF SeqNo
<1>7. Gap(u, a) + Gap(a, x) = Gap(u, x) /\ b <= Gap(a, x) /\ Announced(s, Gap(a, x) - b)
  BY DEF Numbers
<1>8. Gap(u, c) = Gap(u, x) + n /\ Gap(a, c) = Gap(a, x) + n
  BY <1>1, <1>2, <1>4, <1>5, <1>6, <1>7 DEF SeqNo
<1>9. Gap(a, x) \in Nat /\ Gap(u, a) \in Nat /\ Gap(u, x) \in Nat
  BY GapIs DEF SeqNo
<1>10. Announced(s \o t, (Gap(a, x) - b) + n)
  BY <1>7, <1>9, AnnouncedAdd
<1>11. (Gap(a, x) - b) + n = Gap(a, c) - b
  BY <1>8, <1>9
<1>12. Numbers(u, a, c, b, s \o t)
  BY <1>7, <1>8, <1>9, <1>10, <1>11 DEF Numbers
<1> QED  BY <1>5, <1>12 DEF c

(* Packets are taken from the pipe, and less is in hand than before.       *)
LEMMA NumbersTaken ==
  ASSUME NEW u \in SeqNo, NEW a \in SeqNo, NEW x \in SeqNo, NEW b \in Nat, NEW c \in 0..b,
         NEW s \in Seq(Pk), NEW m \in 0..Len(s), Numbers(u, a, x, b, s)
  PROVE  Numbers(u, a, x, c, SubSeq(s, m + 1, Len(s)))
<1>1. Gap(a, x) \in Nat /\ b <= Gap(a, x) /\ Announced(s, Gap(a, x) - b)
  BY GapIs DEF SeqNo, Numbers
<1>2. Gap(a, x) - b \in Nat /\ Gap(a, x) - c \in Nat /\ Gap(a, x) - b <= Gap(a, x) - c /\ c <= Gap(a, x)
  BY <1>1
<1>3. Announced(SubSeq(s, m + 1, Len(s)), Gap(a, x) - b)
  BY <1>1, <1>2, AnnouncedDrop
<1>4. SubSeq(s, m + 1, Len(s)) \in Seq(Pk)
  BY Dropped
<1>5. Announced(SubSeq(s, m + 1, Len(s)), Gap(a, x) - c)
  BY <1>2, <1>3, <1>4, AnnouncedMore
<1> QED  BY <1>2, <1>5 DEF Numbers

-----------------------------------------------------------------------------
(* The steps. *)
LEMMA PortFacts ==
  ASSUME NumbersOK
  PROVE  /\ sport # NoConn /\ find_sport # sport /\ find_sport # NoConn
         /\ 0 \in SeqNo /\ 1 \in SeqNo /\ {tx_ack, nxt, una, rcvd, tx_seq} \subseteq SeqNo
<1>1. LastPort \in Nat /\ LastPort > 1 /\ SeqWrap \in Nat /\ SeqWrap > 1
  BY Constants
<1>2. sport \in 1..LastPort
  BY DEF NumbersOK
<1>3. sport # NoConn /\ find_sport # sport /\ find_sport # NoConn
  BY <1>1, <1>2 DEF find_sport, NoConn
<1>4. 0 \in SeqNo /\ 1 \in SeqNo /\ {tx_ack, nxt, una, rcvd, tx_seq} \subseteq SeqNo
  BY <1>1 DEF SeqNo, NumbersOK
<1> QED  BY <1>3, <1>4

(* A reset leaves no connection on the new port. *)
LEMMA AfterReset ==
  ASSUME NumbersOK, PortInv, usType = "ios", Working, ResetDone, UNCHANGED <<usType, ver_ok, peer>>
  PROVE  PortInv' /\ conn' # sport' /\ pc' = "connect"
<1>1. sport' # NoConn /\ sport' # sport /\ conn' = conn /\ conn \in {NoConn, sport}
  BY PortFacts DEF ResetDone, PortInv, Working, peer
<1>2. conn' # sport' /\ pc' = "connect" /\ tx_ack' = 0 /\ ver_ok /\ ver_ok' = ver_ok
  BY <1>1 DEF ResetDone, PortInv, Working
<1>3. conn' = NoConn => ~opened'
  BY DEF PortInv, peer
<1> QED  BY <1>1, <1>2, <1>3 DEF PortInv

LEMMA PortNext ==
  ASSUME TypeOK, PortInv, [Next]_vars PROVE PortInv'
<1>0. NumbersOK
  BY TypeParts
<1> SUFFICES ASSUME usType' = "ios" PROVE PortInv'
  BY DEF PortInv
<1>1. usType = "ios"
  BY DEF Next, Box, ConnectAndroid, AskVersion, GetVersion, SendSyn, GetSynAck, ConnectFails,
         Drain, DrainFails, NewPacket, RestOfPacket, NotTcp, NotAck, AoaFirst, AoaMore, RecvFails,
         Dispatch, Store, Reply, Ask, SendSegment, SendAck, SendControl, vars, phoneOnly
<1>2. CASE AskVersion
  <2>1. conn = NoConn /\ ~opened /\ pc = "connect" /\ ~ver_ok /\ sport' # NoConn /\ ver_ok' = ver_ok
    BY <1>0, <1>1, <1>2, PortFacts DEF AskVersion, PortInv
  <2>2. tx_ack' = 0 /\ conn' = NoConn /\ ~opened' /\ pc' \in {"connect", "version"}
    BY <1>2, <2>1 DEF AskVersion
  <2> QED  BY <2>1, <2>2 DEF PortInv
<1>3. CASE GetVersion
  BY <1>1, <1>3 DEF GetVersion, PortInv, Working, peer
<1>4. CASE SendSyn
  <2>1. CASE SynNotSent
    BY <1>1, <1>4, <2>1 DEF SendSyn, SynNotSent, PortInv, Working, link
  <2>2. CASE ~SynNotSent
    <3>1. /\ pc' = "synack" /\ conn' \in {NoConn, sport} /\ sport' = sport /\ ~opened' /\ ver_ok /\ ver_ok'
          /\ conn' = sport => nxt' = 1 /\ una' = 0
          /\ slipped' = slipped /\ tx_ack' = tx_ack /\ pc = "connect"
      BY <1>0, <1>4, <2>2, PortFacts DEF SendSyn, link
    <3>2. ~slipped => tx_ack = 0
      BY <1>1, <3>1 DEF PortInv, Working
    <3> QED  BY <3>1, <3>2 DEF PortInv
  <2> QED  BY <2>1, <2>2
<1>5. CASE GetSynAck
  <2>1. /\ pc = "synack" /\ conn' = conn /\ sport' = sport /\ ver_ok' = ver_ok
        /\ pc' \in {"handle", "connect"} /\ nxt' = nxt
    BY <1>5 DEF GetSynAck
  <2>2. conn \in {NoConn, sport} /\ ver_ok /\ ~opened /\ sport # NoConn
    BY <1>0, <1>1, <2>1, PortFacts DEF PortInv
  <2>3. CASE pc' = "handle"
    <3>1. opened' = (conn = sport)
      BY <1>5, <2>3 DEF GetSynAck
    <3> QED  BY <2>1, <2>2, <2>3, <3>1 DEF PortInv, Working
  <2>4. CASE pc' = "connect"
    <3>1. opened' = opened /\ una' = una /\ (slipped' \/ (slipped' = slipped /\ tx_ack' = tx_ack))
      BY <1>5, <2>4 DEF GetSynAck
    <3> QED  BY <1>1, <2>1, <2>2, <2>4, <3>1 DEF PortInv, Working
  <2> QED  BY <2>1, <2>3, <2>4
<1>6. CASE ConnectFails
  BY <1>1, <1>6 DEF ConnectFails, PortInv, Working, peer, link
<1>7. CASE Drain \/ DrainFails \/ NotAck
  <2>1. Working /\ UNCHANGED <<usType, ver_ok, peer, una>>
    BY <1>7 DEF Drain, DrainFails, NotAck, Fresh, Working
  <2>2. CASE ResetDone
    BY <1>0, <1>1, <2>1, <2>2, AfterReset
  <2>3. CASE DrainOn
    BY <1>1, <2>1, <2>3 DEF DrainOn, PortInv, Working, peer
  <2> QED  BY <1>7, <2>2, <2>3 DEF Drain, DrainFails, NotAck
<1>8. CASE NewPacket \/ RestOfPacket \/ NotTcp \/ RecvFails \/ Dispatch \/ Store \/ Reply
  <2>1. Working /\ Working' /\ UNCHANGED <<conn, sport, ver_ok, opened, slipped>> /\ pc' # "version" /\ pc' # "synack"
    BY <1>8 DEF NewPacket, RestOfPacket, NotTcp, RecvFails, Dispatch, Store, Reply, Write, Got, Lost,
                Fresh, Working, peer, link
  <2> QED  BY <1>1, <2>1 DEF PortInv, Working
<1>9. CASE Ask \/ SendSegment \/ SendAck \/ SendControl \/ UNCHANGED vars
  <2>1. UNCHANGED <<pc, conn, sport, ver_ok, opened, slipped, tx_ack, una>>
    BY <1>9 DEF Ask, SendSegment, SendAck, SendControl, vars, phoneOnly, peer, link
  <2>2. nxt' = nxt \/ opened
    BY <1>1, <1>9 DEF Ask, SendSegment, SendAck, SendControl, vars, peer
  <2> QED  BY <1>1, <2>1, <2>2 DEF PortInv, Working
<1>10. ~ConnectAndroid /\ ~AoaFirst /\ ~AoaMore
  BY <1>1 DEF ConnectAndroid, AoaFirst, AoaMore
<1> QED  BY <1>2, <1>3, <1>4, <1>5, <1>6, <1>7, <1>8, <1>9, <1>10 DEF Next, Box

LEMMA AnswerNext ==
  ASSUME TypeOK, PortInv, AnswerInv, [Next]_vars PROVE AnswerInv'
<1>0. NumbersOK /\ pipe \in Seq(Pk) /\ Len(pipe) \in Nat
  BY TypeParts DEF PipeOK
<1> SUFFICES ASSUME usType' = "ios", pc' = "synack"
             PROVE  \E j \in 1..Len(pipe') : LastAnswer(j, pipe', conn')
  BY DEF AnswerInv
<1>1. ASSUME NEW p \in Pk, pipe' = Append(pipe, p), p.k = (IF conn' = NoConn THEN "rst" ELSE "synack")
      PROVE  \E j \in 1..Len(pipe') : LastAnswer(j, pipe', conn')
  <2>1. Len(pipe') = Len(pipe) + 1 /\ pipe'[Len(pipe) + 1] = p
    BY <1>0, <1>1
  <2>2. LastAnswer(Len(pipe) + 1, pipe', conn')
    BY <1>0, <1>1, <2>1 DEF LastAnswer
  <2> QED  BY <1>0, <2>1, <2>2
<1>2. CASE SendSyn
  <2>0. sport # NoConn /\ NumbersOK'
    BY <1>0, PortFacts, NumbersNext
  <2>1. ~SynNotSent
    BY <1>2 DEF SendSyn, SynNotSent
  <2>2. \/ pipe' = Append(pipe, Bare("synack", rcvd')) /\ conn' = sport
        \/ pipe' = Append(pipe, Bare("rst", rcvd)) /\ conn' = NoConn
    BY <1>2, <2>1 DEF SendSyn
  <2>3. /\ Bare("synack", rcvd') \in Pk /\ Bare("synack", rcvd').k = "synack"
        /\ Bare("rst", rcvd) \in Pk /\ Bare("rst", rcvd).k = "rst"
    BY <1>0, <2>0, BareOK DEF Kinds, NumbersOK
  <2> QED  BY <1>1, <2>0, <2>2, <2>3
<1>3. CASE ~SendSyn
  <2>1. pc = "synack" /\ usType = "ios" /\ conn' = conn
    BY <1>3 DEF Next, Box, ConnectAndroid, AskVersion, GetVersion, GetSynAck, ConnectFails,
         Drain, DrainFails, ResetDone, DrainOn, NewPacket, RestOfPacket, NotTcp, NotAck, AoaFirst,
         AoaMore, RecvFails, Got, Lost, Dispatch, Store, Write, Reply, Ask, SendSegment, SendAck,
         SendControl, vars, phoneOnly, peer
  <2>2. ~opened /\ \E j \in 1..Len(pipe) : LastAnswer(j, pipe, conn)
    BY <2>1 DEF PortInv, AnswerInv
  <2>3. PICK j \in 1..Len(pipe) : LastAnswer(j, pipe, conn)
    BY <2>2
  <2>4. pipe' = pipe \/ pipe' = Append(pipe, Bare("ctl", 0))
    BY <1>3, <2>1, <2>2
    DEF Next, Box, ConnectAndroid, AskVersion, GetVersion, GetSynAck, ConnectFails,
        Drain, DrainFails, NewPacket, RestOfPacket, NotTcp, NotAck, AoaFirst, Fresh,
        AoaMore, RecvFails, Dispatch, Store, Reply, Ask, SendSegment, SendAck,
        SendControl, vars, phoneOnly, peer
  <2>5. CASE pipe' = Append(pipe, Bare("ctl", 0))
    <3>1. /\ Len(pipe') = Len(pipe) + 1 /\ \A i \in 1..Len(pipe) : pipe'[i] = pipe[i]
          /\ pipe'[Len(pipe) + 1] = Bare("ctl", 0)
      BY <1>0, <2>5
    <3>2. Bare("ctl", 0).n = 0 /\ ~IsAnswer(Bare("ctl", 0))
      BY DEF Bare, IsAnswer
    <3>3. \A i \in (j + 1)..Len(pipe') : i \in (j + 1)..Len(pipe) \/ i = Len(pipe) + 1
      BY <1>0, <3>1
    <3>4. LastAnswer(j, pipe', conn')
      BY <1>0, <2>1, <2>3, <3>1, <3>2, <3>3 DEF LastAnswer
    <3> QED  BY <1>0, <3>1, <3>4
  <2> QED  BY <2>1, <2>3, <2>4, <2>5
<1> QED  BY <1>2, <1>3

(* The answer taken for that to the SYN is its answer unless it is stale.  *)
LEMMA Answered ==
  ASSUME TypeOK, PortInv, AnswerInv, GetSynAck, Live'
  PROVE  Numbers(una', tx_ack', nxt', Busy', pipe')
<1> DEFINE k == IF pipe # <<>> /\ First.k = "ctl" THEN 2 ELSE 1
<1>0. NumbersOK /\ pipe \in Seq(Pk) /\ Len(pipe) \in Nat /\ SeqWrap \in Nat /\ SeqWrap > 1
  BY TypeParts, Constants DEF PipeOK
<1>1. /\ pc = "synack" /\ usType = "ios" /\ conn = sport /\ nxt' = nxt
      /\ Len(pipe) >= k /\ pipe' = Drop(k)
      /\ k \in 1..Len(pipe)
  BY <1>0 DEF GetSynAck, Live
<1>2. ~opened
  BY <1>1 DEF PortInv
<1>3. pc' = "handle" /\ pipe[k].k = "synack" /\ ~Stale(k) /\ ~slipped
  BY <1>2 DEF GetSynAck, Live
<1> HIDE DEF k
<1>4. PICK j \in 1..Len(pipe) : LastAnswer(j, pipe, conn)
  BY <1>1 DEF AnswerInv
<1>5. j = k
  <2>1. IsAnswer(pipe[j]) /\ pipe[j].k \in {"synack", "rst"} /\ pipe[k].k \in {"synack", "rst"}
    BY <1>3, <1>4 DEF LastAnswer, IsAnswer
  <2>2. ~(k < j)
    BY <1>0, <1>1, <1>3, <2>1 DEF Stale
  <2>3. ~(j < k)
    BY <1>0, <1>1, <1>4, <2>1 DEF LastAnswer, IsAnswer
  <2> QED  BY <1>1, <2>2, <2>3
<1>6. pipe' \in Seq(Pk) /\ \A i \in 1..Len(pipe') : pipe'[i].n = 0
  <2>1. /\ pipe' \in Seq(Pk) /\ Len(pipe') = Len(pipe) - k
        /\ \A i \in 1..(Len(pipe) - k) : pipe'[i] = pipe[i + k]
    BY <1>0, <1>1, Dropped DEF Drop
  <2>2. \A i \in 1..(Len(pipe) - k) : i + k \in (k + 1)..Len(pipe)
    BY <1>0, <1>1
  <2> QED  BY <1>4, <1>5, <2>1, <2>2 DEF LastAnswer
<1>7. Announced(pipe', 0)
  BY <1>6, AnnouncedNone
<1>8. nxt = 1 /\ una = 0 /\ tx_ack = 0
  BY <1>1, <1>2, <1>3 DEF PortInv, Working
<1>9. tx_ack' = 1 /\ una' = 1
  <2>1. Plus(0, 1) = 1
    <3>1. 0 \in 0..(SeqWrap - 1) /\ 1 \in 0..SeqWrap
      BY <1>0
    <3> QED  BY <1>0, <3>1, PlusIs
  <2>2. tx_ack' = Plus(tx_ack, 1) /\ una' = Acked(tx_ack')
    BY <1>1, <1>3 DEF GetSynAck, k
  <2>3. Gap(una, nxt) \in Nat
    BY <1>0, <1>8, GapIs
  <2> QED  BY <1>1, <1>8, <2>1, <2>2, <2>3 DEF Acked
<1>10. Gap(1, 1) = 0
  BY <1>0, GapIs
<1>11. Busy' = 0
  BY <1>3 DEF Busy
<1> QED  BY <1>1, <1>7, <1>8, <1>9, <1>10, <1>11, SizesArePos DEF Numbers

(* The phone's TCP takes what the box acknowledges, if it is told.         *)
LEMMA UnaNext ==
  ASSUME NumbersOK, NEW b, NEW s, Numbers(una, tx_ack, nxt, b, s), una' \in {una, Acked(tx_ack)}
  PROVE  una' \in SeqNo /\ Numbers(una', tx_ack, nxt, b, s)
<1>1. {una, tx_ack, nxt} \subseteq SeqNo
  BY PortFacts
<1>2. una' \in {una, tx_ack}
  BY DEF Acked
<1> QED  BY <1>1, <1>2, NumbersAcked

LEMMA NewPacketNumbers ==
  ASSUME TypeOK, Numbers(una, tx_ack, nxt, Busy, pipe), NewPacket, usType = "ios"
  PROVE  Numbers(una', tx_ack', nxt', Busy', pipe')
<1> DEFINE n == First.n
           m == Least(n, BufUnits)
           G == Gap(tx_ack, nxt)
<1>0. /\ NumbersOK /\ pipe \in Seq(Pk) /\ Len(pipe) \in Nat /\ BufUnits \in Nat /\ BufUnits > 0
      /\ una \in SeqNo /\ tx_ack \in SeqNo /\ nxt \in SeqNo
  BY TypeParts, PkTyped, PortFacts DEF PipeOK
<1>1. Busy = 0
  BY DEF Busy, NewPacket, Fresh
<1>2. /\ pipe # <<>> /\ First.k = "ack" /\ Len(pipe) >= m /\ nxt' = nxt
      /\ pipe' = SubSeq(pipe, (IF n = 0 THEN 1 ELSE m) + 1, Len(pipe))
      /\ pc' \in {"dispatch", "store"}
  BY DEF NewPacket, Got, peer, Drop
<1>3. n \in Nat /\ Len(pipe) >= 1
  BY <1>0, <1>2, FirstOK
<1>4. G \in Nat /\ Announced(pipe, G)
  <2>1. G \in Nat
    BY <1>0, GapIs DEF SeqNo
  <2> QED  BY <1>1, <2>1 DEF Numbers
<1> HIDE DEF G
<1>5. n <= G /\ Announced(pipe', G - n)
  <2> DEFINE d == IF n = 0 THEN 1 ELSE m
  <2>1. d \in 0..Len(pipe) /\ d > 0
    BY <1>0, <1>2, <1>3 DEF Least
  <2>2. pipe' = SubSeq(pipe, d + 1, Len(pipe)) /\ pipe[1].n = n
    BY <1>2 DEF First
  <2> HIDE DEF d, n
  <2> QED  BY <1>0, <1>4, <2>1, <2>2, AnnouncedDrop
<1>6. CASE n = 0
  <2>1. protlen' = 0 /\ tx_ack' = tx_ack /\ una' = una
    BY <1>0, <1>6 DEF NewPacket
  <2>2. Busy' = 0 /\ G - n = G /\ G - 0 = G
    BY <1>2, <1>4, <1>6, <2>1 DEF Busy
  <2> QED  BY <1>1, <1>2, <1>4, <1>5, <2>1, <2>2 DEF Numbers, G
<1>7. CASE n \in 1..BufUnits
  <2>1. protlen' = 0 /\ tx_ack' = Plus(tx_ack, n) /\ una' \in {una, Acked(tx_ack)}
    BY <1>0, <1>7 DEF NewPacket, send_tcp_ack
  <2>2. Busy' = 0
    BY <1>2, <2>1 DEF Busy
  <2>3. una' \in SeqNo /\ Numbers(una', tx_ack, nxt, 0, pipe)
    BY <1>0, <1>1, <2>1, UnaNext
  <2>4. Numbers(una', Plus(tx_ack, n), nxt, 0, pipe')
    BY <1>0, <1>3, <1>5, <2>3, NumbersOn DEF G
  <2> QED  BY <1>2, <2>1, <2>2, <2>4
<1>8. CASE n > BufUnits
  <2>1. protlen' = n /\ tx_ack' = tx_ack /\ una' = una
    BY <1>0, <1>3, <1>8 DEF NewPacket
  <2>2. Busy' = n
    BY <1>2, <2>1 DEF Busy
  <2> HIDE DEF n
  <2> QED  BY <1>1, <1>2, <1>5, <2>1, <2>2 DEF Numbers, G
<1>9. n = 0 \/ n \in 1..BufUnits \/ n > BufUnits
  BY <1>0, <1>3
<1> QED  BY <1>6, <1>7, <1>8, <1>9

LEMMA RestNumbers ==
  ASSUME TypeOK, Numbers(una, tx_ack, nxt, Busy, pipe), RestOfPacket
  PROVE  Numbers(una', tx_ack', nxt', Busy', pipe')
<1> DEFINE G == Gap(tx_ack, nxt)
<1>0. /\ NumbersOK /\ pipe \in Seq(Pk) /\ Len(pipe) \in Nat /\ BufUnits \in Nat
      /\ una \in SeqNo /\ tx_ack \in SeqNo /\ nxt \in SeqNo
      /\ protlen \in Nat /\ prohlen \in 0..protlen
  BY TypeParts, PkTyped, PortFacts DEF PipeOK, ParseOK
<1>1. Busy = protlen /\ pc' = "store" /\ nxt' = nxt
  BY DEF Busy, RestOfPacket, Got, peer
<1>2. Recvsize \in 0..Len(pipe) /\ pipe' = SubSeq(pipe, Recvsize + 1, Len(pipe))
  BY <1>0 DEF RestOfPacket, Recvsize, Least, Drop
<1>3. Numbers(una, tx_ack, nxt, protlen, pipe')
  <2>1. protlen \in 0..protlen
    BY <1>0
  <2> QED  BY <1>0, <1>1, <1>2, <2>1, NumbersTaken
<1>4. CASE prohlen + Recvsize = protlen
  <2>1. protlen' = 0 /\ tx_ack' = Plus(tx_ack, protlen) /\ una' \in {una, Acked(tx_ack)}
    BY <1>4 DEF RestOfPacket, PacketDone, send_tcp_ack
  <2>2. Busy' = 0
    BY <1>1, <2>1 DEF Busy
  <2>3. una' \in SeqNo /\ Numbers(una', tx_ack, nxt, protlen, pipe')
    BY <1>0, <1>3, <2>1, UnaNext
  <2>4. Gap(tx_ack, nxt) \in Nat /\ protlen <= Gap(tx_ack, nxt) /\ Announced(pipe', Gap(tx_ack, nxt) - protlen)
    BY <1>0, <2>3, GapIs DEF Numbers, SeqNo
  <2>5. Numbers(una', tx_ack, nxt, 0, pipe')
    <3>1. pipe' \in Seq(Pk)
      BY <1>0, <1>2, Dropped
    <3>2. Announced(pipe', Gap(tx_ack, nxt) - 0)
      <4>1. Gap(tx_ack, nxt) - protlen \in Nat /\ Gap(tx_ack, nxt) - 0 \in Nat
            /\ Gap(tx_ack, nxt) - protlen <= Gap(tx_ack, nxt) - 0
        BY <1>0, <2>4
      <4> QED  BY <2>4, <3>1, <4>1, AnnouncedMore
    <3> QED  BY <2>3, <2>4, <3>2 DEF Numbers
  <2>6. Numbers(una', Plus(tx_ack, protlen), nxt, 0, pipe')
    BY <1>0, <2>3, <2>4, <2>5, NumbersOn
  <2> QED  BY <1>1, <2>1, <2>2, <2>6
<1>5. CASE prohlen + Recvsize # protlen
  <2>1. protlen' = protlen /\ tx_ack' = tx_ack /\ una' = una
    BY <1>5 DEF RestOfPacket
  <2>2. Busy' = protlen
    BY <1>1, <2>1 DEF Busy
  <2> QED  BY <1>1, <1>3, <2>1, <2>2
<1> QED  BY <1>4, <1>5

LEMMA NumberNext ==
  ASSUME TypeOK, AckInv, [Next]_vars PROVE NumberInv'
<1>0. /\ NumbersOK /\ pipe \in Seq(Pk) /\ Len(pipe) \in Nat /\ protlen \in Nat
      /\ una \in SeqNo /\ tx_ack \in SeqNo /\ nxt \in SeqNo
  BY TypeParts, PortFacts DEF PipeOK, ParseOK
<1>1. PortInv /\ AnswerInv /\ NumberInv
  BY DEF AckInv
<1>2. Busy \in Nat /\ 0 \in 0..Busy
  BY <1>0 DEF Busy
<1> SUFFICES ASSUME Live' PROVE Numbers(una', tx_ack', nxt', Busy', pipe')
  BY DEF NumberInv
<1>3. usType = "ios"
  BY DEF Live, Next, Box, ConnectAndroid, AskVersion, GetVersion, SendSyn, GetSynAck, ConnectFails,
         Drain, DrainFails, NewPacket, RestOfPacket, NotTcp, NotAck, AoaFirst, AoaMore, RecvFails,
         Dispatch, Store, Reply, Ask, SendSegment, SendAck, SendControl, vars, phoneOnly
<1>4. CASE AskVersion \/ GetVersion \/ SendSyn \/ ConnectFails
  <2>1. conn' = sport' /\ opened' /\ ~slipped'
    BY DEF Live
  <2>2. ~AskVersion
    BY <1>0, <1>1, <1>3, <2>1, PortFacts DEF AskVersion, PortInv
  <2>3. CASE GetVersion \/ ConnectFails
    <3>1. ~Working
      BY <2>3 DEF GetVersion, ConnectFails, Working
    <3>2. UNCHANGED <<conn, sport, opened, slipped>>
      BY <2>3 DEF GetVersion, ConnectFails, peer, link
    <3> QED  BY <1>1, <1>3, <2>1, <3>1, <3>2 DEF PortInv, Working
  <2>4. CASE SendSyn
    <3>1. ~Working /\ conn = sport /\ opened /\ ~slipped
      BY <2>1, <2>4 DEF SendSyn, SynNotSent, Working, link
    <3> QED  BY <1>1, <1>3, <3>1 DEF PortInv
  <2> QED  BY <1>4, <2>2, <2>3, <2>4
<1>5. CASE GetSynAck
  BY <1>1, <1>5, Answered
<1>6. CASE Drain \/ DrainFails \/ NotAck
  <2>1. Working /\ UNCHANGED <<usType, ver_ok, peer, una>>
    BY <1>6 DEF Drain, DrainFails, NotAck, Fresh, Working
  <2>2. ~ResetDone
    <3> SUFFICES ASSUME ResetDone PROVE FALSE
      OBVIOUS
    <3>1. conn' # sport'
      BY <1>0, <1>1, <1>3, <2>1, AfterReset
    <3> QED  BY <3>1 DEF Live
  <2>3. DrainOn /\ (Drain \/ NotAck)
    BY <1>6, <2>2 DEF Drain, DrainFails, NotAck
  <2>4. Live /\ tx_ack' = tx_ack /\ nxt' = nxt /\ Busy' = 0
    BY <2>1, <2>3 DEF DrainOn, Live, Busy, peer
  <2>5. PICK m \in 0..Len(pipe) : Drops(m)
    BY <2>3, BoxDrops
  <2>6. Numbers(una, tx_ack, nxt, 0, SubSeq(pipe, m + 1, Len(pipe)))
    BY <1>0, <1>1, <1>2, <2>4, NumbersTaken DEF NumberInv
  <2> QED  BY <2>1, <2>4, <2>5, <2>6 DEF Drops
<1>7. CASE NotTcp \/ RecvFails
  <2>0. UNCHANGED <<usType, conn, sport, opened, slipped, una, tx_ack, nxt>> /\ pc' \in {"handle", "error"}
    BY <1>7 DEF NotTcp, RecvFails, Lost, Fresh, peer, link
  <2>1. Live /\ UNCHANGED <<una, tx_ack, nxt>> /\ Busy' = 0
    BY <2>0 DEF Live, Busy
  <2>2. PICK m \in 0..Len(pipe) : Drops(m)
    BY <1>7, BoxDrops
  <2>3. Numbers(una, tx_ack, nxt, 0, SubSeq(pipe, m + 1, Len(pipe)))
    BY <1>0, <1>1, <1>2, <2>1, NumbersTaken DEF NumberInv
  <2> QED  BY <2>1, <2>2, <2>3 DEF Drops
<1>8. CASE NewPacket
  <2>1. Live
    BY <1>8 DEF NewPacket, Live, peer, link
  <2> QED  BY <1>1, <1>3, <1>8, <2>1, NewPacketNumbers DEF NumberInv
<1>9. CASE RestOfPacket
  <2>1. Live
    BY <1>9 DEF RestOfPacket, Live, peer, link
  <2> QED  BY <1>1, <1>9, <2>1, RestNumbers DEF NumberInv
<1>10. CASE Dispatch \/ Store \/ Reply
  <2>1. Live /\ UNCHANGED <<tx_ack, nxt, pipe>> /\ una' \in {una, Acked(tx_ack)} /\ Busy' \in {0, Busy}
    <3>1. UNCHANGED <<usType, conn, sport, opened, slipped, tx_ack, nxt, pipe, protlen>>
      BY <1>10 DEF Dispatch, Store, Reply, peer, link, parse, handling
    <3>2. una' \in {una, Acked(tx_ack)}
      BY <1>10 DEF Dispatch, Store, Reply
    <3>3. pc' \in {"handle", "ok", "error"} \/ pc \in {"dispatch", "store", "more"}
      BY <1>10 DEF Dispatch, Store, Reply
    <3> QED  BY <3>1, <3>2, <3>3 DEF Live, Busy
  <2>2. una' \in SeqNo /\ Numbers(una', tx_ack, nxt, Busy, pipe)
    BY <1>0, <1>1, <2>1, UnaNext DEF NumberInv
  <2>3. pipe = SubSeq(pipe, 0 + 1, Len(pipe)) /\ 0 \in 0..Len(pipe)
    BY <1>0
  <2>4. Numbers(una', tx_ack, nxt, 0, pipe)
    BY <1>0, <1>2, <2>2, <2>3, NumbersTaken
  <2> QED  BY <2>1, <2>2, <2>4
<1>11. CASE SendSegment
  <2>1. PICK n \in 1..Segment, short \in BOOLEAN :
          /\ req.sent + n <= req.len /\ Gap(una, nxt) + n <= TxWin
          /\ pipe' = pipe \o Packets(n, short) /\ nxt' = Plus(nxt, n)
    BY <1>3, <1>11 DEF SendSegment
  <2>2. ReqOK /\ ControlOK /\ n \in Nat
    BY TypeParts, PkTyped
  <2>3. Packets(n, short) \in Seq(Pk) /\ IsSegment(Packets(n, short), n, req, usType)
        /\ Len(Packets(n, short)) = n
    BY <1>0, <2>1, <2>2, PacketsOK DEF ControlOK
  <2>4. \A i \in 1..Len(Packets(n, short)) :
          Packets(n, short)[i].n = 0 \/ (i = 1 /\ Packets(n, short)[i].n = n)
    BY <2>3 DEF IsSegment
  <2>5. Live /\ UNCHANGED <<una, tx_ack>> /\ Busy' = Busy
    BY <1>11 DEF SendSegment, Live, Busy, phoneOnly, handling, parse, link
  <2> QED  BY <1>0, <1>1, <1>2, <2>1, <2>2, <2>3, <2>4, <2>5, NumbersSent DEF NumberInv
<1>12. CASE SendAck \/ SendControl
  <2>1. PICK p \in Pk : p.n = 0 /\ pipe' = Append(pipe, p)
    <3>1. pipe' # pipe
      <4>1. Len(Append(pipe, Bare("ctl", 0))) # Len(pipe)
        BY <1>0
      <4>2. SendControl => pipe' = Append(pipe, Bare("ctl", 0))
        BY DEF SendControl
      <4>3. \A p : pipe' = Append(pipe, p) => pipe' # pipe
        BY <1>0
      <4>4. \E p : pipe' = Append(pipe, p)
        BY <1>12 DEF SendAck, SendControl
      <4> QED  BY <4>3, <4>4
    <3> QED  BY <1>12, <3>1, AckAdded, MarkAdded
  <2>2. <<p>> \in Seq(Pk) /\ pipe' = pipe \o <<p>> /\ \A i \in 1..Len(<<p>>) : <<p>>[i].n = 0
    BY <1>0, <2>1
  <2>3. Live /\ UNCHANGED <<una, tx_ack, nxt>> /\ Busy' = Busy
    <3>1. UNCHANGED <<usType, pc, conn, sport, opened, slipped, una, tx_ack, nxt, protlen>>
      BY <1>12 DEF SendAck, SendControl, phoneOnly, handling, parse, link, peer
    <3> QED  BY <3>1 DEF Live, Busy
  <2>4. Numbers(una, tx_ack, nxt, Busy, pipe)
    BY <1>1, <2>3 DEF NumberInv
  <2>5. Gap(una, nxt) \in Nat /\ Gap(una, nxt) + 0 <= TxWin
    BY <1>0, <2>4, GapIs DEF Numbers, SeqNo
  <2>6. Plus(nxt, 0) = nxt
    BY <1>0, PlusIs, Constants DEF SeqNo
  <2>7. Numbers(una, tx_ack, Plus(nxt, 0), Busy, pipe \o <<p>>)
    <3>1. \A i \in 1..Len(<<p>>) : <<p>>[i].n = 0 \/ (i = 1 /\ <<p>>[i].n = 0)
      BY <2>2
    <3>2. 0 \in Nat
      OBVIOUS
    <3> QED  BY <1>0, <1>2, <2>2, <2>4, <2>5, <3>1, <3>2, NumbersSent
  <2> QED  BY <2>2, <2>3, <2>6, <2>7
<1>13. CASE Ask \/ UNCHANGED vars
  <2>1. Live /\ UNCHANGED <<una, tx_ack, nxt, pipe>> /\ Busy' = Busy
    <3>1. UNCHANGED <<usType, pc, conn, sport, opened, slipped, una, tx_ack, nxt, pipe, protlen>>
      BY <1>13 DEF Ask, vars, phoneOnly, handling, parse, link, peer
    <3> QED  BY <3>1 DEF Live, Busy
  <2> QED  BY <1>1, <2>1 DEF NumberInv
<1>14. ~ConnectAndroid /\ ~AoaFirst /\ ~AoaMore
  BY <1>3 DEF ConnectAndroid, AoaFirst, AoaMore
<1> QED
  BY <1>4, <1>5, <1>6, <1>7, <1>8, <1>9, <1>10, <1>11, <1>12, <1>13, <1>14 DEF Next, Box

LEMMA AckInit == Init => AckInv
<1> SUFFICES ASSUME Init PROVE AckInv
  OBVIOUS
<1>1. PortInv /\ AnswerInv
  BY DEF Init, PortInv, AnswerInv, NoConn
<1>2. ~Live
  BY DEF Init, Live
<1> QED  BY <1>1, <1>2 DEF AckInv, NumberInv

(* The box never acknowledges to the phone's TCP what that has not sent on *)
(* this connection, whatever an earlier one has left in the pipe and       *)
(* however often the ports have come round; after a handshake that slipped *)
(* not before the next reset (tx_ack).                                     *)
THEOREM AckNotAheadAlways == Spec => []AckNotAhead
<1>1. TypeOK /\ AckInv => AckNotAhead
  <2> SUFFICES ASSUME TypeOK, AckInv, Live PROVE Gap(tx_ack, nxt) <= TxWin
    BY DEF AckNotAhead, Live
  <2>1. {una, tx_ack, nxt} \subseteq SeqNo
    BY TypeParts, PortFacts
  <2>2. Numbers(una, tx_ack, nxt, Busy, pipe)
    BY DEF AckInv, NumberInv
  <2>3. Gap(una, tx_ack) \in Nat /\ Gap(tx_ack, nxt) \in Nat /\ TxWin \in Nat
    BY <2>1, GapIs, SizesArePos DEF SeqNo
  <2> QED  BY <2>2, <2>3 DEF Numbers
<1>2. TypeOK /\ AckInv /\ [Next]_vars => AckInv'
  BY PortNext, AnswerNext, NumberNext DEF AckInv
<1> QED  BY <1>1, <1>2, AckInit, TypeCorrect, PTL DEF Spec

-----------------------------------------------------------------------------
(* The service of requests. What the box still has to read comes after     *)
(* what was taken last.                                                   *)
LastTaken == Later(taken[1], Len(taken) - 1)
NewerInv ==
  taken # <<>> =>
    /\ Sent(LastTaken, req)
    /\ \A i \in 1..Len(pipe) : Pay(pipe[i]) => Before(LastTaken, pipe[i].unit)
    /\ pc = "dispatch" /\ piece # <<>> => Before(LastTaken, piece[1])

LEMMA LastTakenOK ==
  ASSUME TypeOK, taken # <<>>
  PROVE  /\ Len(taken) \in Nat \ {0} /\ UnitOK(taken[1]) /\ UnitOK(LastTaken)
         /\ LastTaken.id = taken[1].id /\ LastTaken.len = taken[1].len
         /\ LastTaken.at = taken[1].at + (Len(taken) - 1)
<1>1. taken \in Seq(Units)
  BY TypeParts DEF ContentOK
<1>2. Len(taken) \in Nat \ {0} /\ taken[1] \in Units
  BY <1>1
<1>3. UnitOK(taken[1])
  BY <1>2, PkTyped
<1>4. /\ LastTaken.id = taken[1].id /\ LastTaken.len = taken[1].len
      /\ LastTaken.at = taken[1].at + (Len(taken) - 1)
  BY DEF LastTaken, Later
<1> QED  BY <1>2, <1>3, <1>4 DEF UnitOK

(* What the phone has sent it has sent for good. *)
LEMMA SentStays ==
  ASSUME TypeOK, [Next]_vars, NEW u, UnitOK(u), Sent(u, req)
  PROVE  Sent(u, req')
<1>1. ReqOK /\ req.id \in Nat /\ req.len \in Nat /\ req.sent \in Nat /\ req.sent <= req.len
  BY TypeParts, ReqNats
<1>2. CASE req'.id = req.id /\ req'.len = req.len /\ req'.sent \in Nat /\ req'.sent >= req.sent
  BY <1>1, <1>2 DEF Sent, UnitOK
<1>3. CASE req' = req
  BY <1>3
<1>4. CASE AskVersion \/ SendSyn
  <2>1. req' = req \/ req' = Gone
    BY <1>4 DEF AskVersion, SendSyn, SynNotSent
  <2>2. Gone.id = req.id /\ Gone.len = req.len /\ Gone.sent = req.len
    BY <1>1 DEF Gone, ReqOK
  <2> QED  BY <1>1, <1>2, <1>3, <2>1, <2>2
<1>5. CASE Reply
  <2>1. req' = req \/ req' = [req EXCEPT !.open = FALSE, !.result = pc]
    BY <1>5 DEF Reply
  <2>2. req'.id = req.id /\ req'.len = req.len /\ req'.sent = req.sent
    BY <1>1, <2>1 DEF ReqOK
  <2> QED  BY <1>1, <1>2, <2>2
<1>6. CASE SendSegment
  <2>1. PICK n \in 1..Segment : req' = [req EXCEPT !.sent = @ + n]
    BY <1>6 DEF SendSegment
  <2>2. req'.id = req.id /\ req'.len = req.len /\ req'.sent = req.sent + n /\ n \in Nat
    BY <1>1, <2>1, PkTyped DEF ReqOK
  <2> QED  BY <1>1, <1>2, <2>2
<1>7. CASE Ask
  <2>1. req'.id = req.id + 1
    BY <1>7 DEF Ask
  <2> QED  BY <1>1, <2>1 DEF Sent, UnitOK
<1> QED
  BY <1>3, <1>4, <1>5, <1>6, <1>7
  DEF Next, Box, ConnectAndroid, GetVersion, GetSynAck, ConnectFails, Drain, DrainFails, NewPacket,
      RestOfPacket, NotTcp, NotAck, AoaFirst, AoaMore, RecvFails, Dispatch, Store, SendAck,
      SendControl, vars

(* What comes into the pipe comes after everything that was sent. *)
LEMMA PipeStaysNewer ==
  ASSUME TypeOK, [Next]_vars, NEW u, UnitOK(u), Sent(u, req),
         \A i \in 1..Len(pipe) : Pay(pipe[i]) => Before(u, pipe[i].unit)
  PROVE  \A i \in 1..Len(pipe') : Pay(pipe'[i]) => Before(u, pipe'[i].unit)
<1>1. pipe \in Seq(Pk) /\ Len(pipe) \in Nat /\ ReqOK /\ NumbersOK /\ ControlOK
  BY TypeParts DEF PipeOK
<1>2. CASE pipe' = pipe
  BY <1>2
<1>3. ASSUME NEW n \in 0..Len(pipe), Drops(n)
      PROVE  \A i \in 1..Len(pipe') : Pay(pipe'[i]) => Before(u, pipe'[i].unit)
  <2>1. /\ Len(pipe') = Len(pipe) - n
        /\ \A i \in 1..(Len(pipe) - n) : i + n \in 1..Len(pipe) /\ pipe'[i] = pipe[i + n]
    BY <1>1, <1>3, Dropped DEF Drops
  <2> QED  BY <2>1
<1>4. ASSUME NEW p \in Pk, p.n = 0, p.k # "data", pipe' = Append(pipe, p)
      PROVE  \A i \in 1..Len(pipe') : Pay(pipe'[i]) => Before(u, pipe'[i].unit)
  <2>1. /\ Len(pipe') = Len(pipe) + 1 /\ pipe'[Len(pipe) + 1] = p
        /\ \A i \in 1..Len(pipe) : pipe'[i] = pipe[i]
    BY <1>1, <1>4
  <2>2. ~Pay(p)
    BY <1>4 DEF Pay
  <2>3. \A i \in 1..Len(pipe') : i \in 1..Len(pipe) \/ i = Len(pipe) + 1
    BY <1>1, <2>1
  <2> QED  BY <2>1, <2>2, <2>3
<1>5. CASE SendSegment
  <2>1. PICK n \in 1..Segment, short \in BOOLEAN :
          req.sent + n <= req.len /\ pipe' = pipe \o Packets(n, short)
    BY <1>5 DEF SendSegment
  <2> DEFINE m == Packets(n, short)
  <2>2. m \in Seq(Pk) /\ Len(m) = n /\ IsSegment(m, n, req, usType) /\ n \in Nat
    BY <1>1, <2>1, PacketsOK, PkTyped DEF ControlOK
  <2> HIDE DEF m
  <2>3. \A i \in 1..n : Before(u, m[i].unit)
    <3> SUFFICES ASSUME NEW i \in 1..n PROVE Before(u, m[i].unit)
      OBVIOUS
    <3>0. m[i].unit = [id |-> req.id, at |-> req.sent + i - 1, len |-> req.len]
      BY <2>2 DEF IsSegment
    <3>1. m[i].unit.id = req.id /\ m[i].unit.at = req.sent + i - 1
      BY <3>0
    <3>2. req.id \in Nat /\ req.sent \in Nat /\ i \in Nat /\ i >= 1
      BY <1>1, <2>2, ReqNats
    <3> QED  BY <3>1, <3>2 DEF Sent, Before, UnitOK
  <2>4. Joins(pipe', pipe, m)
    BY <1>1, <2>1, <2>2, Joined DEF m
  <2>5. ASSUME NEW i \in 1..Len(pipe') PROVE Pay(pipe'[i]) => Before(u, pipe'[i].unit)
    <3>1. CASE i \in 1..Len(pipe)
      BY <2>4, <3>1 DEF Joins
    <3>2. CASE i \notin 1..Len(pipe)
      <4>1. i - Len(pipe) \in 1..n /\ Len(pipe) + (i - Len(pipe)) = i
        BY <1>1, <2>2, <2>4, <3>2 DEF Joins
      <4>2. pipe'[i] = m[i - Len(pipe)]
        BY <2>2, <2>4, <4>1 DEF Joins
      <4> QED  BY <2>3, <4>1, <4>2
    <3> QED  BY <3>1, <3>2
  <2> QED  BY <2>5
<1>6. CASE SendAck
  <2>1. PICK p \in Pk : p.n = 0 /\ p.k = "ack" /\ pipe' = Append(pipe, p)
    BY <1>6, AckAdded
  <2> QED  BY <1>4, <2>1
<1>7. CASE AskVersion \/ SendSyn \/ SendControl
  BY <1>2, <1>4, <1>7, MarkAdded
<1>8. CASE \/ GetVersion \/ GetSynAck \/ ConnectFails \/ Drain \/ NewPacket \/ RestOfPacket
           \/ NotTcp \/ NotAck \/ AoaFirst \/ AoaMore \/ RecvFails
  BY <1>3, <1>8, BoxDrops
<1> QED
  BY <1>2, <1>5, <1>6, <1>7, <1>8
  DEF Next, Box, ConnectAndroid, DrainFails, Dispatch, Store, Reply, Ask, vars

(* A step that stores something: its units are the box's, up to LastGot.   *)
LEMMA TakenGrows ==
  ASSUME IInv, IInv', [Next]_vars, taken' # taken
  PROVE  /\ Holding /\ UNCHANGED <<req, pipe>> /\ piece' = <<>> /\ taken' # <<>>
         /\ LastTaken' = LastGot
         /\ \/ pc = "dispatch" /\ piece # <<>> /\ taken' = piece /\ piece[1].at = 0
            \/ pc = "store" /\ taken # <<>> /\ taken'[1] = taken[1] /\ Len(taken') > Len(taken)
<1> USE DEF IInv
<1>1. Dispatch \/ Store
  BY DEF Next, Box, ConnectAndroid, AskVersion, GetVersion, SendSyn, GetSynAck, ConnectFails,
         Drain, DrainFails, NewPacket, RestOfPacket, NotTcp, NotAck, AoaFirst, AoaMore, RecvFails,
         Reply, Ask, SendSegment, SendAck, SendControl, vars, phoneOnly, handling
<1>2. pc' \in {"ok", "more"} /\ UNCHANGED <<req, pipe>> /\ piece' = <<>>
  BY <1>1 DEF Dispatch, Store, Write
<1>3. /\ taken' # <<>> /\ hdr'.at = 0 /\ \A i \in 1..Len(taken') : taken'[i] = Later(hdr', i - 1)
  BY <1>2 DEF HeldInv, Serving
<1>4. piece \in Seq(Units) /\ taken \in Seq(Units) /\ Len(piece) \in Nat /\ Len(taken) \in Nat
  BY TypeParts DEF ContentOK
<1>5. UnitOK(hdr')
  <2>1. hdr' \in Units
    BY ContentNext DEF ContentOK
  <2> QED  BY <2>1, PkTyped
<1>6. CASE Dispatch
  <2>1. /\ pc = "dispatch" /\ piece # <<>> /\ piece[1].at = 0 /\ hdr' = piece[1] /\ taken' = piece
    BY <1>2, <1>6 DEF Dispatch, Write, IsRequest
  <2>2. Holding /\ Base = hdr' /\ Count = Len(taken')
    BY <2>1 DEF Holding, Serving, Base, Count
  <2>3. 1 \in 1..Len(taken')
    BY <1>4, <2>1
  <2>4. LastTaken' = LastGot
    <3>1. taken'[1] = piece[1] /\ hdr' = piece[1] /\ Base = piece[1]
      BY <2>1, <2>2
    <3> QED  BY <2>2, <3>1 DEF LastTaken, LastGot
  <2> QED  BY <1>2, <1>3, <2>1, <2>2, <2>4
<1>7. CASE Store
  <2>1. pc = "store" /\ hdr' = hdr /\ taken' = taken \o piece
    BY <1>7 DEF Store, Write
  <2>2. Holding /\ Serving /\ Base = hdr' /\ taken # <<>>
    BY <2>1 DEF Holding, Serving, Base, HeldInv
  <2>3. Count = Len(taken') /\ Len(taken') = Len(taken) + Len(piece) /\ taken'[1] = taken[1]
    BY <1>4, <2>1, <2>2 DEF Count
  <2>4. Len(piece) # 0
    BY <1>4, <2>1
  <2>5. 1 \in 1..Len(taken')
    BY <1>4, <2>2, <2>3
  <2>6. LastTaken' = LastGot
    BY <1>3, <1>5, <2>2, <2>3, <2>5 DEF LastTaken, LastGot, Later, UnitOK
  <2>7. Len(taken') > Len(taken)
    BY <1>4, <2>3, <2>4
  <2> QED  BY <1>2, <1>3, <2>1, <2>2, <2>3, <2>6, <2>7
<1> QED  BY <1>1, <1>6, <1>7

(* The pipe goes on behind what the box holds. *)
LEMMA PipeBehindHeld ==
  ASSUME IInv, Holding, NEW i \in 1..Len(pipe), Pay(pipe[i])
  PROVE  Before(LastGot, pipe[i].unit)
<1>1. PICK f : /\ Good(f, 0, Len(pipe), req, usType) /\ Shows(f, pipe) /\ Len(pipe) \in Nat
               /\ f[0] = [k |-> "data", n |-> 0, unit |-> LastGot]
  BY StreamLine
<1>2. 0 \in 0..Len(pipe) /\ i \in 0..Len(pipe) /\ 0 < i /\ f[i] = pipe[i]
  BY <1>1 DEF Shows
<1>3. Pay(f[0]) /\ f[0].unit = LastGot
  BY <1>1 DEF Pay
<1> QED  BY <1>1, <1>2, <1>3 DEF Good, Ordered

LEMMA NewerNext ==
  ASSUME IInv, IInv', NewerInv, [Next]_vars
  PROVE  NewerInv'
<1> USE DEF IInv
<1>1. CASE taken' # taken
  <2>1. /\ Holding /\ UNCHANGED <<req, pipe>> /\ piece' = <<>> /\ LastTaken' = LastGot
    BY <1>1, TakenGrows
  <2>2. Sent(LastGot, req)
    BY <2>1, HeldSent
  <2>3. \A i \in 1..Len(pipe) : Pay(pipe[i]) => Before(LastGot, pipe[i].unit)
    BY <2>1, PipeBehindHeld
  <2> QED  BY <2>1, <2>2, <2>3 DEF NewerInv
<1>2. CASE taken' = taken
  <2> SUFFICES ASSUME taken # <<>>
               PROVE  /\ Sent(LastTaken, req')
                      /\ \A i \in 1..Len(pipe') : Pay(pipe'[i]) => Before(LastTaken, pipe'[i].unit)
                      /\ pc' = "dispatch" /\ piece' # <<>> => Before(LastTaken, piece'[1])
    BY <1>2 DEF NewerInv, LastTaken
  <2>1. /\ UnitOK(LastTaken) /\ Sent(LastTaken, req)
        /\ \A i \in 1..Len(pipe) : Pay(pipe[i]) => Before(LastTaken, pipe[i].unit)
    BY LastTakenOK DEF NewerInv
  <2>2. Sent(LastTaken, req')
    BY <2>1, SentStays
  <2>3. \A i \in 1..Len(pipe') : Pay(pipe'[i]) => Before(LastTaken, pipe'[i].unit)
    BY <2>1, PipeStaysNewer
  <2>4. ASSUME pc' = "dispatch", piece' # <<>> PROVE Before(LastTaken, piece'[1])
    <3>1. \/ pc = "dispatch" /\ piece' = piece
          \/ Pay(pipe[1]) /\ 1 \in 1..Len(pipe) /\ piece'[1] = pipe[1].unit
      BY <2>4, Comes
    <3> QED  BY <2>1, <2>4, <3>1 DEF NewerInv
  <2> QED  BY <2>2, <2>3, <2>4
<1> QED  BY <1>1, <1>2

(* What the box does for the request that is the phone's newest. *)
LEMMA TakenServes ==
  ASSUME IInv, IInv', NewerInv, [Next]_vars, taken' # taken
  PROVE  [Service!SNext]_(Service!sVars)
<1> USE DEF IInv
<1>1. /\ Holding /\ UNCHANGED <<req, pipe>> /\ taken' # <<>> /\ LastTaken' = LastGot
      /\ \/ pc = "dispatch" /\ piece # <<>> /\ taken' = piece /\ piece[1].at = 0
         \/ pc = "store" /\ taken # <<>> /\ taken'[1] = taken[1] /\ Len(taken') > Len(taken)
  BY TakenGrows
<1>2. Told' = Told /\ Told \notin {"ok", "unsure"}
  <2>1. req.result # "ok"
    BY <1>1 DEF OkInv, Serving
  <2> QED  BY <1>1, <2>1 DEF Told
<1>3. /\ Len(taken') \in Nat \ {0} /\ UnitOK(taken'[1]) /\ taken'[1].at = 0
      /\ LastGot.id = taken'[1].id /\ LastGot.len = taken'[1].len
      /\ LastGot.at = taken'[1].at + (Len(taken') - 1)
  <2>1. /\ taken' \in Seq(Units)
    BY ContentNext DEF ContentOK
  <2>2. Len(taken') \in Nat \ {0} /\ taken'[1] \in Units
    BY <1>1, <2>1
  <2>3. UnitOK(taken'[1])
    BY <2>2, PkTyped
  <2>4. taken'[1].at = 0
    BY <1>1 DEF TakenInv
  <2>5. /\ LastGot.id = taken'[1].id /\ LastGot.len = taken'[1].len
        /\ LastGot.at = taken'[1].at + (Len(taken') - 1)
    BY <1>1 DEF LastTaken, Later
  <2> QED  BY <2>2, <2>3, <2>4, <2>5
<1>4. Sent(LastGot, req) /\ req.id \in Nat /\ req.len \in Nat
  BY <1>1, HeldSent, TypeParts, ReqNats
<1>5. CASE taken'[1].id # req.id
  <2>1. Newest' = 0
    BY <1>1, <1>5 DEF Newest
  <2>2. Newest = 0
    <3> SUFFICES ASSUME taken # <<>>, taken[1].id = req.id PROVE FALSE
      BY DEF Newest
    <3>1. pc = "dispatch" /\ piece # <<>> /\ taken' = piece
      BY <1>1, <1>5
    <3>2. Before(LastTaken, piece[1])
      BY <3>1 DEF NewerInv
    <3>3. UnitOK(piece[1]) /\ piece[1].id = LastGot.id /\ piece[1].id # req.id
      BY <1>3, <1>5, <3>1
    <3>4. LastTaken.id = req.id /\ UnitOK(LastTaken)
      BY LastTakenOK
    <3> QED  BY <1>4, <3>2, <3>3, <3>4 DEF Before, Sent, UnitOK
  <2> QED  BY <1>1, <1>2, <2>1, <2>2 DEF Service!sVars
<1>6. CASE taken'[1].id = req.id
  <2>1. Newest' = Len(taken')
    BY <1>1, <1>6 DEF Newest
  <2>2. Len(taken') <= req.len
    BY <1>3, <1>4, <1>6 DEF Sent, UnitOK
  <2>3. Newest \in Nat /\ Newest < Len(taken')
    <3>1. CASE taken = <<>> \/ taken[1].id # req.id
      BY <1>3, <3>1 DEF Newest
    <3>2. CASE taken # <<>> /\ taken[1].id = req.id
      <4>1. Newest = Len(taken) /\ Newest \in Nat
        BY <3>2, LastTakenOK DEF Newest
      <4>2. ~(pc = "dispatch" /\ piece # <<>> /\ taken' = piece /\ piece[1].at = 0)
        <5> SUFFICES ASSUME pc = "dispatch", piece # <<>>, taken' = piece, piece[1].at = 0
                     PROVE FALSE
          OBVIOUS
        <5>1. Before(LastTaken, piece[1])
          BY <3>2 DEF NewerInv
        <5>2. piece[1].id = req.id
          BY <1>6
        <5>3. LastTaken.id = req.id /\ LastTaken.at \in Nat
          BY <3>2, LastTakenOK DEF UnitOK
        <5> QED  BY <1>4, <5>1, <5>2, <5>3 DEF Before
      <4> QED  BY <1>1, <4>1, <4>2
    <3> QED  BY <3>1, <3>2
  <2>4. Newest' \in (Newest + 1)..req.len
    BY <1>3, <1>4, <2>1, <2>2, <2>3
  <2> QED  BY <1>1, <1>2, <2>4 DEF Service!SNext, Service!Take
<1> QED  BY <1>5, <1>6

(* No count changes once the answer was "ok". *)
LEMMA OkCounted ==
  ASSUME IInv, [Next]_vars, req.result = "ok", req' = req
  PROVE  twice' = twice
<1>1. ~Serving /\ (pc = "dispatch" => ~IsRequest(piece))
  BY DEF IInv, OkInv, IsRequest
<1>2. CASE Dispatch \/ Store
  BY <1>1, <1>2 DEF Dispatch, Store, Serving
<1> QED
  BY <1>2
  DEF Next, Box, ConnectAndroid, AskVersion, GetVersion, SendSyn, GetSynAck, ConnectFails, Drain,
      DrainFails, NewPacket, RestOfPacket, NotTcp, NotAck, AoaFirst, AoaMore, RecvFails, Reply, Ask,
      SendSegment, SendAck, SendControl, vars, phoneOnly, handling

(* The receive path and its handlers implement the service of requests:    *)
(* whatever rests and whole requests come out of the pipe late, none       *)
(* takes the place of a newer request and none is taken twice. "ok" is the *)
(* answer to the newest request; all of that has been taken by then, or    *)
(* curSize has counted pieces of it twice, it has been taken in part, and  *)
(* nothing more of it will be (usStorage_Handle, RecvPackage,              *)
(* usStorage_diskWRITE, usStorage_sendHEAD).                               *)
THEOREM ServiceImplemented == Spec => ImplementsService
<1>1. Init => Service!SInit /\ NewerInv
  BY DEF Init, Service!SInit, Newest, Told, NewerInv
<1>2. ASSUME IInv, IInv', NewerInv, [Next]_vars
      PROVE  [Service!SNext]_(Service!sVars)
  <2>1. CASE taken' # taken
    BY <1>2, <2>1, TakenServes
  <2>2. CASE taken' = taken /\ UNCHANGED req
    <3>1. Newest' = Newest
      BY <2>2 DEF Newest
    <3>2. Told' = Told
      <4>1. CASE req.result = "ok"
        BY <1>2, <2>2, <4>1, OkCounted DEF Told
      <4>2. CASE req.result # "ok"
        BY <2>2, <4>2 DEF Told
      <4> QED  BY <4>1, <4>2
    <3> QED  BY <2>2, <3>1, <3>2 DEF Service!sVars
  <2>3. CASE Ask
    <3>1. PICK l \in Lens :
            req' = [id |-> req.id + 1, len |-> l, sent |-> 0, open |-> TRUE, result |-> "none"]
      BY <2>3 DEF Ask
    <3>2. taken' = taken /\ req'.id = req.id + 1 /\ req'.len \in Nat \ {0} /\ Told' = "none"
      BY <2>3, <3>1, SizesArePos DEF Ask, phoneOnly, handling, Told
    <3>3. Newest' = 0
      <4> SUFFICES ASSUME taken # <<>> PROVE taken[1].id # req.id + 1
        BY <3>2 DEF Newest
      <4>1. Sent(LastTaken, req) /\ UnitOK(LastTaken) /\ LastTaken.id = taken[1].id
        BY <1>2, LastTakenOK DEF NewerInv, IInv
      <4>2. req.id \in Nat
        BY <1>2, TypeParts, ReqNats DEF IInv
      <4> QED  BY <4>1, <4>2 DEF Sent, UnitOK
    <3> QED  BY <3>2, <3>3 DEF Service!SNext, Service!Ask
  <2>4. CASE AskVersion \/ SendSyn
    <3>1. taken' = taken /\ (req' = req \/ req' = Gone)
      BY <2>4 DEF AskVersion, SendSyn, SynNotSent, handling
    <3>2. ASSUME req' = Gone PROVE [Service!SNext]_(Service!sVars)
      <4>1. req'.id = req.id /\ req'.len = req.len /\ ~req'.open /\ req'.result = "none"
        BY <1>2, <3>2, TypeParts DEF IInv, Gone, ReqOK
      <4>2. Newest' = Newest /\ Told' = "failed"
        BY <3>1, <4>1 DEF Newest, Told
      <4> QED  BY <4>1, <4>2 DEF Service!SNext, Service!Fail
    <3> QED  BY <2>2, <3>1, <3>2
  <2>5. CASE Reply
    <3>1. /\ taken' = taken /\ pc \in {"ok", "error"}
          /\ \/ req' = req
             \/ req.open /\ req' = [req EXCEPT !.open = FALSE, !.result = pc]
      BY <2>5 DEF Reply, handling
    <3>2. ASSUME req.open, req' = [req EXCEPT !.open = FALSE, !.result = pc]
          PROVE  [Service!SNext]_(Service!sVars)
      <4>1. req'.id = req.id /\ req'.len = req.len /\ ~req'.open /\ req'.result = pc
        BY <1>2, <3>2, TypeParts DEF IInv, ReqOK
      <4>2. Newest' = Newest /\ Told = "none"
        BY <3>1, <3>2, <4>1 DEF Newest, Told
      <4>3. CASE pc = "ok"
        <5>1. /\ taken' # <<>> /\ taken'[1].id = req'.id /\ Newest' = Len(taken')
              /\ Len(taken') = req'.len \/ twice' = 2
          BY <1>2, <4>1, <4>3 DEF IInv, OkInv, Newest
        <5>2. CASE twice' = 2
          <6>1. Told' = "unsure"
            BY <4>1, <4>3, <5>2 DEF Told
          <6>2. taken' \in Seq(Units)
            BY <1>2, TypeParts DEF IInv, TypeOK
          <6>3. Newest' > 0
            BY <5>1, <6>2
          <6> QED  BY <4>1, <4>2, <6>1, <6>3 DEF Service!SNext, Service!Miscount
        <5>3. CASE twice' # 2
          <6>1. Newest' = req.len /\ Told' = "ok"
            BY <4>1, <4>3, <5>1, <5>3 DEF Told
          <6> QED  BY <4>1, <4>2, <6>1 DEF Service!SNext, Service!Acknowledge
        <5> QED  BY <5>2, <5>3
      <4>4. CASE pc = "error"
        <5>1. Told' = "failed"
          BY <4>1, <4>4 DEF Told
        <5> QED  BY <4>1, <4>2, <5>1 DEF Service!SNext, Service!Fail
      <4> QED  BY <3>1, <4>3, <4>4
    <3> QED  BY <2>2, <3>1, <3>2
  <2>6. CASE SendSegment
    <3>1. PICK n \in 1..Segment : taken' = taken /\ req' = [req EXCEPT !.sent = @ + n]
      BY <2>6 DEF SendSegment, phoneOnly, handling
    <3>2. /\ req'.id = req.id /\ req'.len = req.len /\ req'.open = req.open
          /\ req'.result = req.result
      BY <1>2, <3>1, TypeParts DEF IInv, ReqOK
    <3>3. twice' = twice
      BY <2>6 DEF SendSegment, phoneOnly, handling
    <3> QED  BY <3>1, <3>2, <3>3 DEF Service!sVars, Newest, Told
  <2> QED
    BY <1>2, <2>1, <2>2, <2>3, <2>4, <2>5, <2>6
    DEF Next, Box, ConnectAndroid, GetVersion, GetSynAck, ConnectFails, Drain, DrainFails, NewPacket,
        RestOfPacket, NotTcp, NotAck, AoaFirst, AoaMore, RecvFails, Dispatch, Store, SendAck,
        SendControl, vars
<1>3. IInv /\ IInv' /\ NewerInv /\ [Next]_vars => NewerInv'
  BY NewerNext
<1> QED
  BY <1>1, <1>2, <1>3, InvInit, InvNext, PTL DEF Spec, ImplementsService, Service!SSpec
=============================================================================
