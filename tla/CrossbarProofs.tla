----------------------------- MODULE CrossbarProofs ----------------------------
(***************************************************************************)
(* Theorems about Crossbar, for any sizes, endpoints and traffic: between  *)
(* the two ends of an endpoint no byte is lost, repeated or misplaced, and *)
(* the packets of an IN endpoint end where its level counter says so.      *)
(***************************************************************************)
EXTENDS Crossbar, Totals, SequenceTheorems

Shifted(s, t, n) == \A i \in 1..n : t[i] = s[i + 1]

Sequences(S, t, n) == \A i \in 1..n : t[i] \in Seq(S)

--------------------------------------------------------------------------------
(* Concatenations *)

(* g has the concatenations of the sequences of s, and h those of its tail. *)
TailFlats(S, n, s, t, g, h) ==
    /\ n \in Nat /\ s[1] \in Seq(S) /\ Shifted(s, t, n) /\ Sequences(S, t, n)
    /\ Flats(g, s, n + 1) /\ Sequences(S, h, n) /\ Flats(h, t, n)

FrontAdded(g, h, p, i) == g[i + 1] = p \o h[i]

LEMMA FlatsShift ==
    ASSUME NEW S, NEW n, NEW s, NEW t, NEW g, NEW h, TailFlats(S, n, s, t, g, h)
    PROVE  \A i \in 1..n : FrontAdded(g, h, s[1], i)
<1> DEFINE Good == {i \in Nat : i \in 1..n => FrontAdded(g, h, s[1], i)}
<1>0. n \in Nat /\ s[1] \in Seq(S) /\ g[1] = s[1]
  BY DEF TailFlats, Flats, NextFlat
<1>1. 0 \in Good
  BY <1>0
<1>2. ASSUME NEW i \in Nat, i \in Good PROVE i + 1 \in Good
  <2>0. SUFFICES ASSUME NEW j, j = i + 1, j \in 1..n PROVE FrontAdded(g, h, s[1], j)
    OBVIOUS
  <2>1. j + 1 \in 1..(n + 1) /\ j + 1 # 1 /\ (j + 1) - 1 = j /\ j - 1 = i
    BY <1>0, <2>0
  <2>2. g[j + 1] = g[j] \o t[j] /\ t[j] \in Seq(S)
    <3>1. g[j + 1] = g[j] \o s[j + 1]
      BY <2>1 DEF Flats, NextFlat, TailFlats
    <3>2. t[j] = s[j + 1] /\ t[j] \in Seq(S)
      BY <2>0 DEF TailFlats, Shifted, Sequences
    <3> QED BY <3>1, <3>2
  <2>3. h[j] = IF j = 1 THEN t[j] ELSE h[i] \o t[j]
    BY <2>0, <2>1 DEF Flats, NextFlat, TailFlats
  <2>4. CASE i = 0
    <3>1. g[j] = s[1] /\ h[j] = t[j]
      BY <1>0, <2>0, <2>3, <2>4
    <3> QED BY <2>2, <3>1 DEF FrontAdded
  <2>5. CASE i # 0
    <3>1. i \in 1..n /\ j # 1
      BY <1>0, <2>0, <2>5
    <3>2. g[j] = s[1] \o h[i] /\ h[i] \in Seq(S)
      BY <1>2, <2>0, <3>1 DEF FrontAdded, TailFlats, Sequences
    <3>3. (s[1] \o h[i]) \o t[j] = s[1] \o (h[i] \o t[j])
      <4> SUFFICES ASSUME NEW p \in Seq(S), p = s[1], NEW x \in Seq(S), x = h[i],
                          NEW y \in Seq(S), y = t[j]
                   PROVE (p \o x) \o y = p \o (x \o y)
        BY <1>0, <2>2, <3>2
      <4>1. p \in Seq(S) /\ x \in Seq(S) /\ y \in Seq(S)
        OBVIOUS
      <4> QED BY ONLY <4>1, ConcatAssociative
    <3> QED BY <2>2, <2>3, <3>1, <3>2, <3>3 DEF FrontAdded
  <2> QED BY <2>4, <2>5
<1>3. Nat \subseteq Good
  <2> HIDE DEF Good
  <2> QED BY <1>1, <1>2, NaturalInduction
<1> QED BY <1>0, <1>3

LEMMA FlattenHead ==
    ASSUME NEW S, NEW s \in Seq(Seq(S)), s # <<>>
    PROVE  FlattenSeq(s) = Head(s) \o FlattenSeq(Tail(s))
<1> SUFFICES ASSUME NEW t, t = Tail(s), NEW n, n = Len(t), NEW p, p = Head(s)
             PROVE  FlattenSeq(s) = p \o FlattenSeq(t)
  OBVIOUS
<1>1. /\ p \in Seq(S) /\ t \in Seq(Seq(S)) /\ n = Len(s) - 1
      /\ \A i \in 1..n : t[i] = s[i + 1]
  BY HeadTailProperties
<1>2. /\ Len(s) = n + 1 /\ n \in Nat /\ p = s[1] /\ 1 \in 1..(n + 1)
      /\ \A i \in 1..n : t[i] \in Seq(S)
  BY <1>1, Nested
<1>3. PICK g : Flats(g, s, n + 1) /\ FlattenSeq(s) = g[n + 1]
  BY <1>2, FlattenFlats
<1>4. CASE t = <<>>
  <2>1. n = 0
    BY <1>4, EmptySeq
  <2>2. p \o FlattenSeq(t) = p
    BY <1>1, <1>4, FlattenEmpty, ConcatEmptySeq
  <2>3. g[1] = s[1] /\ n + 1 = 1
    BY <1>2, <1>3, <2>1 DEF Flats, NextFlat
  <2> QED BY <1>2, <1>3, <2>2, <2>3
<1>5. CASE t # <<>>
  <2>1. PICK h : Flats(h, t, n) /\ FlattenSeq(t) = h[n]
    BY <1>1, <1>5, FlattenFlats
  <2>2. PICK k \in [1..n -> Seq(S)] : Flats(k, t, n)
    BY <1>2, FlatsExist
  <2>3. n \in 1..n
    BY <1>1, <1>5, Nested
  <2>4. n \in Nat /\ Agree(t, t, n) /\ Flats(h, t, n) /\ Flats(k, t, n)
    BY <1>2, <2>1, <2>2 DEF Agree
  <2>5. h[n] = k[n]
    BY ONLY <2>3, <2>4, FlatsAgree
  <2>6. TailFlats(S, n, s, t, g, k)
    BY <1>1, <1>2, <1>3, <2>2 DEF TailFlats, Shifted, Sequences
  <2>7. \A i \in 1..n : FrontAdded(g, k, s[1], i)
    BY ONLY <2>6, FlatsShift
  <2>8. g[n + 1] = s[1] \o k[n]
    BY <2>3, <2>7 DEF FrontAdded
  <2> QED BY <1>2, <1>3, <2>1, <2>5, <2>8
<1> QED BY <1>4, <1>5
--------------------------------------------------------------------------------
(* Bytes in a row *)

(* The bytes g + 1, .., s of endpoint e. *)
Run(e, g, s) == [n \in 1..(s - g) |-> Byte(e, g + n)]

LEMMA RunType ==
    ASSUME NEW S, NEW e, NEW g \in Nat, NEW s \in Nat, g <= s, \A n \in 1..s : Byte(e, n) \in S
    PROVE  Run(e, g, s) \in Seq(S) /\ Len(Run(e, g, s)) = s - g
<1>1. s - g \in Nat /\ \A n \in 1..(s - g) : g + n \in 1..s
  OBVIOUS
<1>2. Run(e, g, s) \in [1..(s - g) -> S]
  BY <1>1 DEF Run
<1>3. DOMAIN Run(e, g, s) = 1..(s - g)
  BY DEF Run
<1> QED BY <1>1, <1>2, <1>3

(* Sequences of the same bytes are equal. *)
LEMMA SameRun ==
    ASSUME NEW S, NEW x \in Seq(S), NEW e, NEW g \in Nat, NEW s \in Nat, g <= s,
           Len(x) = s - g, \A n \in 1..(s - g) : x[n] = Byte(e, g + n)
    PROVE  x = Run(e, g, s)
<1>1. DOMAIN x = 1..(s - g) /\ x = [n \in DOMAIN x |-> x[n]]
  BY LenProperties
<1> QED BY <1>1 DEF Run

LEMMA RunJoins ==
    ASSUME NEW e, NEW g \in Nat, NEW s \in Nat, NEW t \in Nat, g <= s, s <= t
    PROVE  Run(e, g, s) \o Run(e, s, t) = Run(e, g, t)
<1> DEFINE S == {Byte(e, n) : n \in 1..t}
<1>0. (\A n \in 1..s : Byte(e, n) \in S) /\ g <= t /\ (\A n \in 1..t : Byte(e, n) \in S)
  OBVIOUS
<1> HIDE DEF S
<1>1. /\ Run(e, g, s) \in Seq(S) /\ Len(Run(e, g, s)) = s - g
      /\ Run(e, s, t) \in Seq(S) /\ Len(Run(e, s, t)) = t - s
  BY <1>0, RunType
<1> SUFFICES ASSUME NEW x, x = Run(e, g, s) \o Run(e, s, t) PROVE x = Run(e, g, t)
  OBVIOUS
<1>2. /\ x \in Seq(S) /\ Len(x) = (s - g) + (t - s)
      /\ \A i \in 1..((s - g) + (t - s)) :
            x[i] = IF i <= s - g THEN Run(e, g, s)[i] ELSE Run(e, s, t)[i - (s - g)]
  <2> SUFFICES ASSUME NEW v \in Seq(S), NEW w \in Seq(S), Len(v) = s - g, Len(w) = t - s, x = v \o w
               PROVE  /\ x \in Seq(S) /\ Len(x) = (s - g) + (t - s)
                      /\ \A i \in 1..((s - g) + (t - s)) :
                            x[i] = IF i <= s - g THEN v[i] ELSE w[i - (s - g)]
    BY <1>1, Zenon
  <2>1. /\ v \o w \in Seq(S) /\ Len(v \o w) = Len(v) + Len(w)
        /\ \A i \in 1..(Len(v) + Len(w)) : (v \o w)[i] = IF i <= Len(v) THEN v[i] ELSE w[i - Len(v)]
    BY ONLY v \in Seq(S), w \in Seq(S), ConcatProperties
  <2> QED BY <2>1, Zenon
<1>3. ASSUME NEW i \in 1..(t - g) PROVE x[i] = Byte(e, g + i)
  <2>1. i \in 1..((s - g) + (t - s))
    OBVIOUS
  <2>2. CASE i <= s - g
    BY <1>2, <2>1, <2>2 DEF Run
  <2>3. CASE ~(i <= s - g)
    <3>1. i - (s - g) \in 1..(t - s) /\ s + (i - (s - g)) = g + i
      BY <2>3
    <3> QED BY <1>2, <2>1, <2>3, <3>1 DEF Run
  <2> QED BY <2>2, <2>3
<1>4. Len(x) = t - g
  BY <1>2
<1> QED BY ZenonT(30), SMTT(30), <1>0, <1>2, <1>3, <1>4, SameRun

LEMMA RunOfOne ==
    ASSUME NEW e, NEW s \in Nat
    PROVE  <<Byte(e, s + 1)>> = Run(e, s, s + 1)
<1>1. (s + 1) - s = 1
  OBVIOUS
<1>2. Run(e, s, s + 1) = [n \in 1..1 |-> Byte(e, s + n)]
  BY <1>1 DEF Run
<1>3. <<Byte(e, s + 1)>> = [n \in 1..1 |-> Byte(e, s + 1)]
  OBVIOUS
<1>4. \A n \in 1..1 : n = 1
  OBVIOUS
<1> QED BY <1>2, <1>3, <1>4

Splits(S, x, a, b) == a \in Seq(S) /\ b \in Seq(S) /\ x = a \o b

IsRun(x, e, g, s) == g \in Nat /\ s \in Nat /\ g <= s /\ x = Run(e, g, s)

(* The front of a run leaves. *)
LEMMA RunDrops ==
    ASSUME NEW S, NEW x, NEW a, NEW b, NEW e, NEW g, NEW s, IsRun(x, e, g, s), Splits(S, x, a, b)
    PROVE  IsRun(b, e, g + Len(a), s)
<1>0. /\ a \in Seq(S) /\ b \in Seq(S) /\ g \in Nat /\ s \in Nat /\ g <= s
      /\ a \o b = Run(e, g, s)
  BY DEF IsRun, Splits
<1>1. Len(a) \in Nat /\ Len(b) \in Nat
  BY <1>0, LenProperties
<1>2. /\ a \o b \in Seq(S) /\ Len(a \o b) = Len(a) + Len(b)
      /\ \A i \in 1..(Len(a) + Len(b)) : (a \o b)[i] = IF i <= Len(a) THEN a[i] ELSE b[i - Len(a)]
  BY <1>0, ConcatProperties
<1>3. Len(a \o b) = s - g
  <2>1. DOMAIN (a \o b) = 1..Len(a \o b) /\ Len(a \o b) \in Nat
    BY <1>2, LenProperties
  <2>2. DOMAIN Run(e, g, s) = 1..(s - g) /\ s - g \in Nat
    BY <1>0 DEF Run
  <2> SUFFICES ASSUME NEW m \in Nat, m = Len(a \o b), NEW k \in Nat, k = s - g, 1..m = 1..k
               PROVE m = k
    BY <1>0, <2>1, <2>2
  <2> QED OBVIOUS
<1> SUFFICES ASSUME NEW m \in Nat, m = Len(a)
             PROVE  g + m \in Nat /\ g + m <= s /\ b = Run(e, g + m, s)
  BY <1>0, <1>1 DEF IsRun
<1>4. g + m <= s /\ Len(b) = s - (g + m) /\ g + m \in Nat
  <2> SUFFICES ASSUME NEW k \in Nat, k = Len(b) PROVE g + m <= s /\ k = s - (g + m) /\ g + m \in Nat
    BY <1>1
  <2>1. m \in Nat /\ k \in Nat /\ g \in Nat /\ s \in Nat /\ m + k = s - g
    BY <1>0, <1>2, <1>3
  <2> QED BY ONLY <2>1
<1>5. ASSUME NEW i \in 1..(s - (g + m)) PROVE b[i] = Byte(e, (g + m) + i)
  <2>1. /\ m + i \in 1..(Len(a) + Len(b)) /\ ~(m + i <= Len(a)) /\ (m + i) - Len(a) = i
        /\ m + i \in 1..(s - g) /\ g + (m + i) = (g + m) + i
    BY <1>0, <1>1, <1>4
  <2>2. (a \o b)[m + i] = b[i]
    BY <1>2, <2>1
  <2>3. (a \o b)[m + i] = Byte(e, g + (m + i))
    BY <1>0, <2>1 DEF Run
  <2> QED BY <2>1, <2>2, <2>3
<1> QED BY <1>0, <1>4, <1>5, SameRun
--------------------------------------------------------------------------------
(* The invariant *)

Octet == Bytes(0..3)

OutOctet == Bytes(Outs)

Pins == [addr : 0..3, slrd : BOOLEAN, slwr : BOOLEAN, pend : BOOLEAN, data : Octet]

Types ==
    /\ used \in Uses /\ addr \in 0..3 /\ addr_p \in 0..3
    /\ fsm \in {"SWITCH", "DRIVE", "SETUP", "IN-XFER", "OUT-XFER"}
    /\ pads \in Pins
    /\ slrd_p \in BOOLEAN /\ nrdy_o \subseteq Ins /\ flag \subseteq 0..3 /\ data \in OutOctet
    /\ queued \in [Ins -> 0..PacketSize] /\ pending \in [Ins -> BOOLEAN]
    /\ timer \in [Ins -> 0..Timer]
    /\ skid \in [Outs -> Seq(OutOctet)]
    /\ valid \subseteq Ins /\ room \subseteq Outs /\ lastFull \in [used \cap Ins -> BOOLEAN]
    /\ reset \in [used -> {"run", "set", "purged"}] /\ age \in 0..Settle /\ resets \in 0..MaxResets
    /\ DOMAIN fifo = 0..3 /\ (\A e \in Outs : fifo[e] \in Seq(OutOctet))
    /\ (\A e \in Ins : fifo[e] \in Seq(Seq(Octet)))
    /\ DOMAIN packet = Ins /\ (\A e \in Ins : packet[e] \in Seq(Octet))
    /\ DOMAIN sent = used /\ DOMAIN got = used

(* A write strobe or a packet end for e is on the pins. *)
Drives(e) == pads.addr = e /\ (pads.slwr \/ pads.pend)

(* Strobes only come in the states that give them, and meet the endpoint   *)
(* that they are meant for.                                                *)
BusFits ==
    /\ fsm = "IN-XFER" => addr \in Ins
    /\ fsm = "OUT-XFER" => addr \in Outs
    /\ pads.slrd => fsm = "OUT-XFER" /\ pads.addr = addr
    /\ slrd_p => fsm \in {"OUT-XFER", "SWITCH"} /\ addr_p = addr /\ addr \in Outs
    /\ pads.slwr \/ pads.pend => pads.addr \in Ins
    /\ ~(pads.slwr /\ pads.pend)

(* The flag of an IN endpoint is true unless nrdy_o hides it, and the      *)
(* endpoint that is written to has room for a packet.                      *)
RoomFits ==
    /\ \A e \in Ins : e \in flag /\ e \notin nrdy_o => NotFull(e) /\ ~Drives(e)
    /\ fsm \in {"DRIVE", "SETUP", "IN-XFER"} /\ addr \in Ins =>
          NotFull(addr) /\ ~(pads.pend /\ pads.addr = addr)
    /\ \A e \in Ins : Drives(e) => NotFull(e)
    /\ \A e \in Ins : Len(fifo[e]) <= Buffers

Exact(e) == queued[e] = IF pads.pend /\ pads.addr = e THEN 0 ELSE Len(PacketToBe(e))

Quiet(e) == queued[e] = 0 /\ ~pending[e] /\ e \notin valid

LevelFits ==
    \A e \in Ins :
        /\ Exact(e) \/ (InReset(e) /\ Quiet(e))
        /\ Len(PacketToBe(e)) <= PacketSize

CountFits ==
    /\ \A e \in used : sent[e] \in 0..MaxBytes[e] /\ got[e] \in 0..sent[e]
    /\ \A e \in valid : e \in used /\ sent[e] < MaxBytes[e]

(* What the firmware may rely on a few cycles after it has set the reset   *)
(* of an endpoint, and what remains when it has purged its FIFO.           *)
ResetQuiet ==
    \A e \in Ins : InReset(e) =>
        /\ age >= 1 \/ reset[e] = "purged" => Quiet(e)
        /\ age >= 2 \/ reset[e] = "purged" => ~Drives(e)

Purged ==
    \A e \in used : reset[e] = "purged" =>
        /\ sent[e] = 0 /\ got[e] = 0 /\ fifo[e] = <<>>
        /\ e \in Ins => packet[e] = <<>> /\ ~lastFull[e]
        /\ e \in Outs /\ age >= 1 => e \notin flag /\ skid[e] = <<>>

One(b) == IF b THEN 1 ELSE 0

(* The skid buffer has room for what the strobes under way may bring. *)
SkidFits ==
    \A e \in Outs :
        Len(skid[e]) + One(slrd_p /\ addr_p = e) + One(pads.slrd /\ pads.addr = e) <= 2

(* The packet before the one that is being written has the maximum size. *)
PrevFull(e) == IF fifo[e] = <<>> THEN lastFull[e] ELSE Len(fifo[e][Len(fifo[e])]) = PacketSize

(* What `pending` means when the packet is empty. *)
PendFits ==
    \A e \in Running \cap Ins :
        /\ queued[e] > 0 => pending[e]
        /\ pads.pend /\ pads.addr = e =>
              /\ packet[e] = <<>> => PrevFull(e)
              /\ pending[e] => Len(packet[e]) = PacketSize
        /\ pending[e] /\ ~(pads.pend /\ pads.addr = e) /\ PacketToBe(e) = <<>> => PrevFull(e)

FlowFits == \A e \in Running : Stream(e) = Run(e, got[e], sent[e])

IInv ==
    /\ Types /\ BusFits /\ RoomFits /\ LevelFits /\ CountFits /\ ResetQuiet /\ Purged
    /\ SkidFits /\ PendFits /\ ZlpAfterFull /\ FlowFits

--------------------------------------------------------------------------------
(* A clock cycle *)

LEMMA Ends == Outs \cup Ins = 0..3 /\ Outs = {0, 1} /\ Ins = {2, 3} /\ 0..3 = {0, 1, 2, 3}
  BY DEF Outs, Ins

LEMMA UsedEnds ==
    ASSUME Types
    PROVE  used \subseteq Outs \cup Ins
  BY CrossbarAssumption DEF Types

(* The strobes of a cycle. *)
Strobes(flush, slrd, slwr, pend) ==
    /\ slrd \in BOOLEAN /\ slwr \in BOOLEAN /\ pend \in BOOLEAN
    /\ slwr <=> (fsm = "IN-XFER" /\ ~CompletePacket(addr) /\ addr \in valid)
    /\ pend <=> (fsm = "IN-XFER" /\ ~slwr /\ (CompletePacket(addr) \/ PendingPacket(addr, flush)))
    /\ slrd <=> (fsm = "OUT-XFER" /\ MayRead)

TickWith(flush, slrd, slwr, pend) ==
    /\ Strobes(flush, slrd, slwr, pend)
    /\ Fsm(slrd, slwr, Ready(flush))
    /\ pads' = [addr |-> addr, slrd |-> slrd, slwr |-> slwr, pend |-> pend,
                data |-> IF slwr THEN Byte(addr, sent[addr] + 1) ELSE NoByte]
    /\ addr_p' = pads.addr /\ slrd_p' = pads.slrd
    /\ nrdy_o' = Busy(pads.addr, pads.slwr, pads.pend) \cup Busy(addr, slwr, pend)
    /\ sent' = [e \in used |-> IF e \in (IF slwr THEN {addr} ELSE {}) THEN sent[e] + 1 ELSE sent[e]]
    /\ InFifos(IF pend THEN {addr} ELSE {}, IF slwr THEN {addr} ELSE {})
    /\ Offer(IF slwr THEN {addr} ELSE {})
    /\ OutFifos(Written)
    /\ got' = [e \in used |-> IF e \in Outs /\ Delivered(e, Written) /\ ~InReset(e)
                              THEN got[e] + 1 ELSE got[e]]
    /\ FX2 /\ Capture
    /\ age' = IF age < Settle THEN age + 1 ELSE age
    /\ UNCHANGED <<used, reset, resets, lastFull>>

LEMMA TickStrobes ==
    ASSUME Tick
    PROVE  \E flush \in SUBSET (used \cap Ins), slrd, slwr, pend \in BOOLEAN :
              TickWith(flush, slrd, slwr, pend)
<1> DEFINE Write == fsm = "IN-XFER" /\ ~CompletePacket(addr) /\ addr \in valid
           End(flush) == fsm = "IN-XFER" /\ ~Write /\ (CompletePacket(addr) \/ PendingPacket(addr, flush))
           Read == fsm = "OUT-XFER" /\ MayRead
<1>1. PICK flush \in SUBSET (used \cap Ins) : TickWith(flush, Read, Write, End(flush))
  BY Zenon DEF Tick, TickWith, Strobes
<1>2. Read \in BOOLEAN /\ Write \in BOOLEAN /\ End(flush) \in BOOLEAN
  OBVIOUS
<1> HIDE DEF Read, Write, End
<1> QED BY <1>1, <1>2

(* The next address is that of a ready endpoint, if there is one. *)
LEMMA NextAddrReady ==
    ASSUME NEW ready \in SUBSET (0..3), addr \in 0..3
    PROVE  NextAddr(ready) \in 0..3 /\ (ready # {} => NextAddr(ready) \in ready)
<1>1. CASE ready = {}
  BY <1>1 DEF NextAddr
<1>2. CASE ready # {}
  <2> DEFINE D(a) == (a + 4 - addr) % 4
  <2>0. ASSUME NEW a \in ready PROVE D(a) \in Nat
    <3>1. a + 4 - addr \in Nat /\ 4 \in Nat \ {0}
      OBVIOUS
    <3> QED BY ONLY <3>1
  <2>1. {D(a) : a \in ready} \in SUBSET Nat /\ {D(a) : a \in ready} # {}
    <3> HIDE DEF D
    <3> QED BY <1>2, <2>0
  <2>2. PICK d \in {D(a) : a \in ready} : \A k \in {D(a) : a \in ready} : d <= k
    BY <2>1, LeastNatural
  <2>3. \E a \in ready : \A b \in ready : D(a) <= D(b)
    BY <2>2
  <2>4. NextAddr(ready) = CHOOSE a \in ready : \A b \in ready : D(a) <= D(b)
    BY <1>2 DEF NextAddr
  <2> HIDE DEF D
  <2> QED BY <2>3, <2>4
<1> QED BY <1>1, <1>2

LEMMA FsmSteps ==
    ASSUME Types, BusFits, NEW slrd \in BOOLEAN, NEW slwr \in BOOLEAN, NEW ready \in SUBSET (0..3),
           Fsm(slrd, slwr, ready)
    PROVE  \/ /\ fsm = "SWITCH" /\ addr' \in 0..3
              /\ \/ fsm' = "SWITCH" /\ ready = {}
                 \/ fsm' = "DRIVE" /\ addr' \in ready
           \/ fsm = "DRIVE" /\ fsm' = "SETUP" /\ addr' = addr
           \/ fsm = "SETUP" /\ fsm' = "IN-XFER" /\ addr' = addr /\ addr \in Ins
           \/ fsm = "SETUP" /\ fsm' = "OUT-XFER" /\ addr' = addr /\ addr \in Outs
           \/ fsm = "IN-XFER" /\ fsm' = (IF slwr THEN "IN-XFER" ELSE "SWITCH") /\ addr' = addr
           \/ fsm = "OUT-XFER" /\ fsm' = (IF slrd THEN "OUT-XFER" ELSE "SWITCH") /\ addr' = addr
<1>1. CASE fsm = "SWITCH"
  <2>1. addr' = NextAddr(ready) /\ fsm' = IF ready # {} THEN "DRIVE" ELSE "SWITCH"
    BY <1>1 DEF Fsm
  <2> QED BY <1>1, <2>1, NextAddrReady DEF Types
<1>2. CASE fsm = "DRIVE"
  BY <1>2 DEF Fsm
<1>3. CASE fsm = "SETUP"
  <2>1. addr' = addr /\ fsm' = IF addr \in Ins THEN "IN-XFER" ELSE "OUT-XFER"
    BY <1>3 DEF Fsm
  <2> QED BY <1>3, <2>1, Ends DEF Types
<1>4. CASE fsm = "IN-XFER"
  <2>1. addr' = addr /\ fsm' = IF slwr THEN fsm ELSE "SWITCH"
    BY <1>4 DEF Fsm
  <2> QED BY <1>4, <2>1
<1>5. CASE fsm = "OUT-XFER"
  <2>1. addr' = addr /\ fsm' = IF slrd THEN fsm ELSE "SWITCH"
    BY <1>5 DEF Fsm
  <2> QED BY <1>5, <2>1
<1> QED BY <1>1, <1>2, <1>3, <1>4, <1>5 DEF Types

(* The FX2 obeys the strobes on its pins. *)
LEMMA FX2Obeys ==
    ASSUME Types, BusFits, RoomFits, FX2
    PROVE  /\ DOMAIN fifo' = 0..3 /\ DOMAIN packet' = Ins
           /\ \A e \in Outs : fifo'[e] = IF pads.slrd /\ pads.addr = e /\ fifo[e] # <<>>
                                         THEN Tail(fifo[e]) ELSE fifo[e]
           /\ \A e \in Ins : fifo'[e] = IF pads.pend /\ pads.addr = e
                                        THEN Append(fifo[e], packet[e]) ELSE fifo[e]
           /\ \A e \in Ins : packet'[e] = IF pads.pend /\ pads.addr = e
                                          THEN <<>> ELSE PacketToBe(e)
<1> DEFINE reads == pads.slrd /\ pads.addr \in Outs /\ fifo[pads.addr] # <<>>
           writes == pads.slwr /\ pads.addr \in Ins /\ NotFull(pads.addr)
           ends == pads.pend /\ pads.addr \in Ins /\ NotFull(pads.addr)
<1>0. /\ DOMAIN fifo = 0..3 /\ DOMAIN packet = Ins /\ Outs \cup Ins = 0..3
      /\ \A e : ~(e \in Outs /\ e \in Ins)
  BY Ends DEF Types
<1>1. /\ writes <=> pads.slwr
      /\ ends <=> pads.pend
      /\ ~(pads.slwr /\ pads.pend) /\ (pads.slrd => pads.addr \in Outs)
      /\ (pads.slwr \/ pads.pend => pads.addr \in Ins)
  BY DEF BusFits, RoomFits, Drives
<1>2. CASE reads
  <2>1. ~writes /\ ~ends
    BY <1>0, <1>2
  <2>2. fifo' = [fifo EXCEPT ![pads.addr] = Tail(@)] /\ packet' = packet
    BY <1>2, <2>1, Zenon DEF FX2
  <2>3. ~pads.slwr /\ ~pads.pend /\ pads.slrd /\ pads.addr \in Outs /\ fifo[pads.addr] # <<>>
    BY <1>1, <1>2, <2>1
  <2> HIDE DEF reads, writes, ends
  <2> QED BY <1>0, <2>2, <2>3 DEF PacketToBe
<1>3. CASE writes
  <2>1. ~reads /\ ~ends
    BY <1>0, <1>1, <1>3
  <2>2. packet' = [packet EXCEPT ![pads.addr] = Append(@, pads.data)] /\ fifo' = fifo
    BY <1>3, <2>1, Zenon DEF FX2
  <2>3. pads.slwr /\ ~pads.pend /\ pads.addr \in Ins
    BY <1>1, <1>3, <2>1
  <2>4. \A e \in Outs : ~(pads.slrd /\ pads.addr = e)
    BY <1>0, <1>1, <2>3
  <2> HIDE DEF reads, writes, ends
  <2> QED BY <1>0, <2>2, <2>3, <2>4 DEF PacketToBe
<1>4. CASE ends
  <2>1. ~reads /\ ~writes
    BY <1>0, <1>1, <1>4
  <2>2. /\ fifo' = [fifo EXCEPT ![pads.addr] = Append(@, packet[pads.addr])]
        /\ packet' = [packet EXCEPT ![pads.addr] = <<>>]
    BY <1>4, <2>1, Zenon DEF FX2
  <2>3. ~pads.slwr /\ pads.pend /\ pads.addr \in Ins
    BY <1>1, <1>4, <2>1
  <2>4. \A e \in Outs : ~(pads.slrd /\ pads.addr = e)
    BY <1>0, <1>1, <2>3
  <2> HIDE DEF reads, writes, ends
  <2> QED BY <1>0, <2>2, <2>3, <2>4 DEF PacketToBe
<1>5. CASE ~reads /\ ~writes /\ ~ends
  <2>1. fifo' = fifo /\ packet' = packet
    BY <1>5, Zenon DEF FX2, fx2Vars
  <2>2. ~pads.slwr /\ ~pads.pend
    BY <1>1, <1>5
  <2>3. \A e \in Outs : ~(pads.slrd /\ pads.addr = e /\ fifo[e] # <<>>)
    BY <1>5
  <2> HIDE DEF reads, writes, ends
  <2> QED BY <1>0, <2>1, <2>2, <2>3 DEF PacketToBe
<1> QED BY <1>2, <1>3, <1>4, <1>5
(* What is on the pins in the next cycle. *)
LEMMA TickPins ==
    ASSUME NEW flush, NEW slrd, NEW slwr, NEW pend, Types, BusFits, TickWith(flush, slrd, slwr, pend)
    PROVE  /\ slrd \in BOOLEAN /\ slwr \in BOOLEAN /\ pend \in BOOLEAN
           /\ pads'.addr = addr /\ pads'.slrd = slrd /\ pads'.slwr = slwr /\ pads'.pend = pend
           /\ slwr => /\ pads'.data = Byte(addr, sent[addr] + 1) /\ fsm = "IN-XFER"
                      /\ addr \in valid /\ addr \in Ins /\ queued[addr] < PacketSize
           /\ pend => /\ fsm = "IN-XFER" /\ addr \in Ins /\ ~slwr
                      /\ queued[addr] = PacketSize \/ pending[addr]
           /\ slrd => fsm = "OUT-XFER" /\ addr \in Outs /\ addr \in flag /\ WReady(addr)
           /\ ~(slwr /\ pend)
<1>1. Strobes(flush, slrd, slwr, pend)
  BY DEF TickWith
<1>2. /\ slrd \in BOOLEAN /\ slwr \in BOOLEAN /\ pend \in BOOLEAN
      /\ pads' = [addr |-> addr, slrd |-> slrd, slwr |-> slwr, pend |-> pend,
                  data |-> IF slwr THEN Byte(addr, sent[addr] + 1) ELSE NoByte]
  BY <1>1 DEF TickWith, Strobes
<1>3. /\ pads'.addr = addr /\ pads'.slrd = slrd /\ pads'.slwr = slwr /\ pads'.pend = pend
      /\ slwr => pads'.data = Byte(addr, sent[addr] + 1)
  BY <1>2
<1>4. fsm = "IN-XFER" => addr \in Ins /\ queued[addr] \in 0..PacketSize
  BY DEF BusFits, Types
<1>5. slwr => /\ fsm = "IN-XFER" /\ addr \in valid /\ addr \in Ins /\ queued[addr] < PacketSize
  BY <1>1, <1>4, CrossbarAssumption DEF Strobes, CompletePacket
<1>6. pend => /\ fsm = "IN-XFER" /\ addr \in Ins /\ ~slwr
              /\ queued[addr] = PacketSize \/ pending[addr]
  BY <1>1, <1>4, CrossbarAssumption DEF Strobes, CompletePacket, PendingPacket
<1>7. slrd => fsm = "OUT-XFER" /\ addr \in Outs /\ addr \in flag /\ WReady(addr)
  BY <1>1 DEF Strobes, MayRead, BusFits
<1> QED BY <1>2, <1>3, <1>5, <1>6, <1>7

(* A byte comes in for the endpoint that is selected, or none does. *)
LEMMA WrittenIs ==
    ASSUME Types, BusFits
    PROVE  Written = IF slrd_p /\ addr \in flag THEN {addr} ELSE {}
<1>1. CASE slrd_p
  <2>1. addr_p = addr /\ addr \in Outs
    BY <1>1 DEF BusFits
  <2>2. addr_p % 2 = addr
    <3>1. addr = 0 \/ addr = 1
      BY <2>1, Ends
    <3> QED BY <2>1, <3>1
  <2> QED BY <1>1, <2>1, <2>2 DEF Written
<1>2. CASE ~slrd_p
  BY <1>2 DEF Written
<1> QED BY <1>1, <1>2

LEMMA TickReady ==
    ASSUME NEW flush, NEW slrd, NEW slwr, NEW pend, Types, BusFits, TickWith(flush, slrd, slwr, pend)
    PROVE  /\ Ready(flush) \in SUBSET (0..3) /\ Fsm(slrd, slwr, Ready(flush))
           /\ \A e \in Ready(flush) : e \in flag /\ e \notin nrdy_o
  BY DEF TickWith, Ready, Types

LEMMA TickBus ==
    ASSUME NEW flush, NEW slrd, NEW slwr, NEW pend, Types, BusFits, TickWith(flush, slrd, slwr, pend)
    PROVE  BusFits'
<1>1. /\ slrd \in BOOLEAN /\ slwr \in BOOLEAN /\ pend \in BOOLEAN
      /\ pads'.addr = addr /\ pads'.slrd = slrd /\ pads'.slwr = slwr /\ pads'.pend = pend
      /\ slwr \/ pend => addr \in Ins
      /\ slrd => fsm = "OUT-XFER"
      /\ ~(slwr /\ pend)
  BY TickPins
<1>2. addr_p' = pads.addr /\ slrd_p' = pads.slrd
  BY DEF TickWith
<1>3. pads.slrd => fsm = "OUT-XFER" /\ pads.addr = addr /\ addr \in Outs
  BY DEF BusFits
<1>4. /\ fsm = "OUT-XFER" => fsm' = (IF slrd THEN "OUT-XFER" ELSE "SWITCH") /\ addr' = addr
      /\ fsm' = "OUT-XFER" => addr' \in Outs
      /\ fsm' = "IN-XFER" => addr' \in Ins
  BY TickReady, FsmSteps, <1>1 DEF BusFits
<1> QED BY <1>1, <1>2, <1>3, <1>4 DEF BusFits

LEMMA TickRoom ==
    ASSUME NEW flush, NEW slrd, NEW slwr, NEW pend, Types, BusFits, RoomFits,
           TickWith(flush, slrd, slwr, pend)
    PROVE  RoomFits'
<1>1. /\ slrd \in BOOLEAN /\ slwr \in BOOLEAN /\ pend \in BOOLEAN
      /\ pads'.addr = addr /\ pads'.slrd = slrd /\ pads'.slwr = slwr /\ pads'.pend = pend
      /\ slwr \/ pend => fsm = "IN-XFER" /\ addr \in Ins
      /\ ~(slwr /\ pend)
  BY TickPins
<1>2. \A e \in Ins : Drives(e)' <=> addr = e /\ (slwr \/ pend)
  BY <1>1 DEF Drives
<1>3. FX2 /\ flag' = Flags
      /\ nrdy_o' = Busy(pads.addr, pads.slwr, pads.pend) \cup Busy(addr, slwr, pend)
  BY DEF TickWith, Capture
<1>4. \A e \in Ins : fifo'[e] = IF pads.pend /\ pads.addr = e
                                THEN Append(fifo[e], packet[e]) ELSE fifo[e]
  BY <1>3, FX2Obeys
<1>5. ASSUME NEW e \in Ins
      PROVE  /\ Len(fifo'[e]) = IF pads.pend /\ pads.addr = e THEN Len(fifo[e]) + 1 ELSE Len(fifo[e])
             /\ Len(fifo[e]) \in Nat /\ Len(fifo'[e]) \in Nat
  <2>1. fifo[e] \in Seq(Seq(Octet)) /\ packet[e] \in Seq(Octet)
    BY DEF Types
  <2>2. ASSUME NEW x \in Seq(Seq(Octet)), NEW p \in Seq(Octet)
        PROVE  Len(Append(x, p)) = Len(x) + 1 /\ Len(Append(x, p)) \in Nat /\ Len(x) \in Nat
    <3>1. Len(Append(x, p)) = Len(x) + 1
      BY ONLY x \in Seq(Seq(Octet)), p \in Seq(Octet), AppendProperties
    <3>2. Len(x) \in Nat
      BY ONLY x \in Seq(Seq(Octet)), LenProperties
    <3> QED BY <3>1, <3>2
  <2>3. CASE pads.pend /\ pads.addr = e
    <3>1. fifo'[e] = Append(fifo[e], packet[e])
      BY <1>4, <2>3
    <3> QED BY <2>1, <2>2, <2>3, <3>1
  <2>4. CASE ~(pads.pend /\ pads.addr = e)
    <3>1. fifo'[e] = fifo[e]
      BY <1>4, <2>4
    <3> QED BY <2>1, <2>2, <2>4, <3>1
  <2> QED BY <2>3, <2>4
<1>6. \A e \in Ins : ~(pads.pend /\ pads.addr = e) /\ NotFull(e) => NotFull(e)'
  BY <1>5 DEF NotFull
<1>7. ASSUME NEW e \in Ins, e \in flag', e \notin nrdy_o' PROVE NotFull(e)' /\ ~Drives(e)'
  <2>1. NotFull(e)
    BY <1>3, <1>7, Ends DEF Flags
  <2>2. ~Drives(e) /\ ~Drives(e)'
    BY <1>2, <1>3, <1>7 DEF Busy, Drives
  <2> QED BY <1>6, <2>1, <2>2 DEF Drives
<1>8. ASSUME fsm' \in {"DRIVE", "SETUP", "IN-XFER"}, addr' \in Ins
      PROVE  NotFull(addr)' /\ ~(pads'.pend /\ pads'.addr = addr')
  <2>1. CASE fsm = "SWITCH" /\ addr' \in Ready(flush)
    <3>1. addr' \in flag /\ addr' \notin nrdy_o /\ ~pend
      BY <1>1, <2>1, TickReady
    <3>2. NotFull(addr') /\ ~Drives(addr')
      BY <1>8, <3>1 DEF RoomFits
    <3> SUFFICES ASSUME NEW a \in Ins, a = addr', NotFull(a), ~Drives(a)
                 PROVE  NotFull(a)' /\ ~(pads'.pend /\ pads'.addr = a)
      BY <1>8, <3>2 DEF NotFull
    <3> QED BY <1>1, <1>6, <3>1 DEF Drives
  <2>2. CASE fsm \in {"DRIVE", "SETUP"} /\ addr' = addr
    <3>1. NotFull(addr) /\ ~(pads.pend /\ pads.addr = addr) /\ ~pend /\ addr \in Ins
      BY <1>1, <1>8, <2>2 DEF RoomFits
    <3>2. Len(fifo'[addr]) < Buffers
      BY <1>6, <3>1 DEF NotFull
    <3> QED BY <1>1, <2>2, <3>1, <3>2 DEF NotFull
  <2>3. CASE fsm = "IN-XFER" /\ addr' = addr /\ slwr
    <3>1. NotFull(addr) /\ ~(pads.pend /\ pads.addr = addr) /\ ~pend /\ addr \in Ins
      BY <1>1, <1>8, <2>3 DEF RoomFits
    <3>2. Len(fifo'[addr]) < Buffers
      BY <1>6, <3>1 DEF NotFull
    <3> QED BY <1>1, <2>3, <3>1, <3>2 DEF NotFull
  <2> QED BY <1>1, <1>8, <2>1, <2>2, <2>3, TickReady, FsmSteps
<1>9. ASSUME NEW e \in Ins, Drives(e)' PROVE NotFull(e)'
  <2>1. e = addr /\ fsm = "IN-XFER"
    BY <1>1, <1>2, <1>9
  <2>2. NotFull(addr) /\ ~(pads.pend /\ pads.addr = addr)
    BY <2>1 DEF RoomFits
  <2> QED BY <1>6, <2>1, <2>2
<1>10. ASSUME NEW e \in Ins PROVE Len(fifo'[e]) <= Buffers
  <2>1. CASE pads.pend /\ pads.addr = e
    <3>1. NotFull(e)
      BY <2>1 DEF RoomFits, Drives
    <3> QED BY <1>5, <3>1, CrossbarAssumption DEF NotFull
  <2>2. CASE ~(pads.pend /\ pads.addr = e)
    BY <1>5, <2>2 DEF RoomFits
  <2> QED BY <2>1, <2>2
<1> QED BY <1>7, <1>8, <1>9, <1>10 DEF RoomFits
(* What the endpoints count in a cycle, and what their Queues offer. *)
LEMMA TickCounters ==
    ASSUME NEW flush, NEW slrd, NEW slwr, NEW pend, Types, BusFits, TickWith(flush, slrd, slwr, pend)
    PROVE  /\ \A e : InReset(e)' <=> InReset(e)
           /\ \A e \in Ins : queued'[e] = IF InReset(e) \/ (pend /\ e = addr) THEN 0
                                          ELSE IF slwr /\ e = addr THEN queued[e] + 1 ELSE queued[e]
           /\ \A e \in Ins : pending'[e] = (~InReset(e) /\ IF pend /\ e = addr THEN AfterFlush(e)
                                                           ELSE pending[e] \/ (slwr /\ e = addr))
           /\ \A e \in used : sent'[e] = IF slwr /\ e = addr THEN sent[e] + 1 ELSE sent[e]
           /\ \A e \in valid' : /\ ~InReset(e) /\ e \in Ins
                                /\ \/ e \in valid /\ ~(slwr /\ e = addr)
                                   \/ e \in used /\ sent'[e] < MaxBytes[e]
           /\ DOMAIN sent' = used
<1>1. /\ slrd \in BOOLEAN /\ slwr \in BOOLEAN /\ pend \in BOOLEAN /\ ~(slwr /\ pend)
  BY TickPins
<1> DEFINE taken == IF slwr THEN {addr} ELSE {}
           flushed == IF pend THEN {addr} ELSE {}
<1>2. \A e : (e \in taken <=> slwr /\ e = addr) /\ (e \in flushed <=> pend /\ e = addr)
  BY <1>1
<1>3. /\ sent' = [e \in used |-> IF e \in taken THEN sent[e] + 1 ELSE sent[e]]
      /\ InFifos(flushed, taken) /\ Offer(taken) /\ used' = used /\ reset' = reset
  BY DEF TickWith
<1> HIDE DEF taken, flushed
<1>4. \A e : InReset(e)' <=> InReset(e)
  BY <1>3 DEF InReset
<1>5. /\ queued' = [e \in Ins |-> IF InReset(e) THEN 0
                                  ELSE IF e \in flushed THEN 0
                                  ELSE IF e \in taken THEN queued[e] + 1 ELSE queued[e]]
      /\ pending' = [e \in Ins |->
            ~InReset(e) /\ IF e \in flushed THEN AfterFlush(e) ELSE pending[e] \/ e \in taken]
  BY <1>3 DEF InFifos, LevelAfterFlush
<1>6. PICK offered \in SUBSET {e \in used \cap Ins : sent'[e] < MaxBytes[e]} :
         valid' = {e \in (valid \ taken) \cup offered : ~InReset(e)}
  BY <1>3 DEF Offer
<1>7. ASSUME NEW e \in Ins
      PROVE  queued'[e] = IF InReset(e) \/ (pend /\ e = addr) THEN 0
                          ELSE IF slwr /\ e = addr THEN queued[e] + 1 ELSE queued[e]
  BY <1>2, <1>5
<1>8. ASSUME NEW e \in Ins
      PROVE  pending'[e] = (~InReset(e) /\ IF pend /\ e = addr THEN AfterFlush(e)
                                           ELSE pending[e] \/ (slwr /\ e = addr))
  <2>1. CASE e \in flushed
    BY <1>2, <1>5, <2>1
  <2>2. CASE e \notin flushed
    BY <1>2, <1>5, <2>2
  <2> QED BY <2>1, <2>2
<1>9. ASSUME NEW e \in used PROVE sent'[e] = IF slwr /\ e = addr THEN sent[e] + 1 ELSE sent[e]
  BY <1>2, <1>3
<1>10. ASSUME NEW e \in valid'
       PROVE  /\ ~InReset(e) /\ e \in Ins
              /\ \/ e \in valid /\ ~(slwr /\ e = addr)
                 \/ e \in used /\ sent'[e] < MaxBytes[e]
  BY <1>2, <1>6 DEF Types
<1> QED BY <1>3, <1>4, <1>7, <1>8, <1>9, <1>10

(* A byte that an endpoint may number is a byte. *)
LEMMA ByteType ==
    ASSUME NEW S, NEW e \in S, NEW n \in 0..MaxBytes[e]
    PROVE  Byte(e, n) \in Bytes(S)
<1>1. Byte(e, n) \in {e} \X (0..MaxBytes[e])
  BY DEF Byte
<1> QED BY <1>1 DEF Bytes

LEMMA MaxNat == \A e \in 0..3 : MaxBytes[e] \in Nat
  BY CrossbarAssumption, Ends

LEMMA NoByteType == NoByte \in OutOctet /\ NoByte \in Octet
<1>1. 0 \in Outs /\ 0 \in 0..3 /\ 0 \in 0..MaxBytes[0]
  BY MaxNat, Ends
<1>2. Byte(0, 0) \in Bytes(Outs) /\ Byte(0, 0) \in Bytes(0..3)
  BY <1>1, ByteType
<1> QED BY <1>2 DEF Byte, NoByte, OutOctet, Octet

(* The byte that an endpoint that is offered one would write. *)
LEMMA NextByteType ==
    ASSUME Types, CountFits, NEW e \in Ins, e \in valid
    PROVE  /\ e \in used /\ sent[e] \in Nat /\ sent[e] + 1 \in 0..MaxBytes[e]
           /\ Byte(e, sent[e] + 1) \in Octet
<1>1. e \in 0..3 /\ MaxBytes[e] \in Nat
  BY MaxNat, Ends
<1>2. e \in used /\ sent[e] \in 0..MaxBytes[e] /\ sent[e] < MaxBytes[e]
  BY DEF CountFits
<1>3. sent[e] \in Nat /\ sent[e] + 1 \in 0..MaxBytes[e]
  BY <1>1, <1>2
<1>4. Byte(e, sent[e] + 1) \in Bytes(0..3)
  BY <1>1, <1>3, ByteType
<1> QED BY <1>2, <1>3, <1>4 DEF Octet

(* What comes into a skid buffer, and what it is after a cycle. *)
LEMMA SkidTypes ==
    ASSUME Types, NEW e \in Outs, NEW written
    PROVE  /\ Arrives(e, written) \in Seq(OutOctet) /\ SkidNext(e, written) \in Seq(OutOctet)
           /\ skid[e] \in Seq(OutOctet) /\ Len(skid[e]) \in Nat
<1>1. skid[e] \in Seq(OutOctet) /\ Len(skid[e]) \in Nat /\ data \in OutOctet
  BY LenProperties DEF Types
<1>2. Arrives(e, written) \in Seq(OutOctet)
  BY <1>1 DEF Arrives
<1>3. skid[e] # <<>> => Tail(skid[e]) \in Seq(OutOctet)
  BY <1>1, HeadTailProperties
<1>4. \A a, b \in Seq(OutOctet) : a \o b \in Seq(OutOctet)
  BY ConcatProperties
<1>5. SkidNext(e, written) \in Seq(OutOctet)
  <2> SUFFICES ASSUME NEW s \in Seq(OutOctet), s = skid[e], NEW a \in Seq(OutOctet), a = Arrives(e, written),
                      s # <<>> => Tail(s) \in Seq(OutOctet)
               PROVE  SkidNext(e, written) \in Seq(OutOctet)
    BY <1>1, <1>2, <1>3
  <2>1. <<>> \in Seq(OutOctet)
    OBVIOUS
  <2>2. (IF SkidFull(e) THEN <<>> ELSE a) \in Seq(OutOctet)
    BY <2>1
  <2> QED BY <1>4, <2>1, <2>2 DEF SkidNext
<1> QED BY <1>1, <1>2, <1>5

(* An IN packet, with the write that is on the pins. *)
LEMMA PacketToBeType ==
    ASSUME Types, NEW e \in Ins
    PROVE  PacketToBe(e) \in Seq(Octet) /\ packet[e] \in Seq(Octet) /\ pads.data \in Octet
<1>1. packet[e] \in Seq(Octet) /\ pads.data \in Octet
  BY DEF Types, Pins
<1>2. Append(packet[e], pads.data) \in Seq(Octet)
  BY <1>1, AppendProperties
<1> QED BY <1>1, <1>2 DEF PacketToBe
LEMMA TickTypes ==
    ASSUME NEW flush, NEW slrd, NEW slwr, NEW pend, Types, BusFits, RoomFits, LevelFits, CountFits,
           TickWith(flush, slrd, slwr, pend)
    PROVE  Types'
<1>1. /\ slrd \in BOOLEAN /\ slwr \in BOOLEAN /\ pend \in BOOLEAN
      /\ slwr => addr \in valid /\ addr \in Ins /\ queued[addr] < PacketSize
  BY TickPins
<1>2. addr' \in 0..3 /\ fsm' \in {"SWITCH", "DRIVE", "SETUP", "IN-XFER", "OUT-XFER"}
  <2>1. Ready(flush) \in SUBSET (0..3) /\ Fsm(slrd, slwr, Ready(flush)) /\ addr \in 0..3
    BY TickReady DEF Types
  <2> QED BY <1>1, <2>1, FsmSteps
<1>3. pads' \in Pins
  <2>1. pads' = [addr |-> addr, slrd |-> slrd, slwr |-> slwr, pend |-> pend,
                 data |-> IF slwr THEN Byte(addr, sent[addr] + 1) ELSE NoByte]
    BY DEF TickWith
  <2>2. (IF slwr THEN Byte(addr, sent[addr] + 1) ELSE NoByte) \in Octet
    BY <1>1, NextByteType, NoByteType
  <2> QED BY <1>1, <2>1, <2>2 DEF Pins, Types
<1>4. addr_p' \in 0..3 /\ slrd_p' \in BOOLEAN /\ nrdy_o' \subseteq Ins
  <2>1. addr_p' = pads.addr /\ slrd_p' = pads.slrd
    BY DEF TickWith
  <2>2. nrdy_o' = Busy(pads.addr, pads.slwr, pads.pend) \cup Busy(addr, slwr, pend)
    BY DEF TickWith
  <2>3. Busy(pads.addr, pads.slwr, pads.pend) \subseteq Ins
    BY DEF Busy, BusFits
  <2>4. Busy(addr, slwr, pend) \subseteq Ins
    BY TickPins DEF Busy
  <2> QED BY <2>1, <2>2, <2>3, <2>4 DEF Types, Pins
<1>5. flag' \subseteq 0..3 /\ data' \in OutOctet
  <2>1. flag' = Flags
    BY DEF TickWith, Capture
  <2>2. data' = IF pads.addr \in Outs /\ fifo[pads.addr] # <<>> THEN Head(fifo[pads.addr]) ELSE NoByte
    BY DEF TickWith, Capture
  <2>3. CASE pads.addr \in Outs /\ fifo[pads.addr] # <<>>
    <3>1. fifo[pads.addr] \in Seq(OutOctet)
      BY <2>3 DEF Types
    <3>2. Head(fifo[pads.addr]) \in OutOctet
      BY <2>3, <3>1, HeadTailProperties
    <3> QED BY <2>1, <2>2, <2>3, <3>2, Ends DEF Flags
  <2>4. CASE ~(pads.addr \in Outs /\ fifo[pads.addr] # <<>>)
    BY <2>1, <2>2, <2>4, NoByteType, Ends DEF Flags
  <2> QED BY <2>3, <2>4
<1>6. queued' \in [Ins -> 0..PacketSize]
  <2>1. \A e \in Ins : queued'[e] = IF InReset(e) \/ (pend /\ e = addr) THEN 0
                                    ELSE IF slwr /\ e = addr THEN queued[e] + 1 ELSE queued[e]
    BY TickCounters
  <2>2. queued' = [e \in Ins |-> queued'[e]]
    BY DEF TickWith, InFifos
  <2>3. \A e \in Ins : queued[e] \in 0..PacketSize
    BY DEF Types
  <2>4. ASSUME NEW e \in Ins PROVE queued'[e] \in 0..PacketSize
    BY <1>1, <2>1, <2>3, CrossbarAssumption
  <2> HIDE DEF TickWith
  <2> QED BY <2>2, <2>4
<1>7. pending' \in [Ins -> BOOLEAN]
  <2>1. pending' = [e \in Ins |-> ~InReset(e) /\ IF e \in (IF pend THEN {addr} ELSE {}) THEN AfterFlush(e)
                                     ELSE pending[e] \/ e \in (IF slwr THEN {addr} ELSE {})]
    BY Zenon DEF TickWith, InFifos
  <2>2. ASSUME NEW b, NEW c PROVE (~b /\ c) \in BOOLEAN
    OBVIOUS
  <2> QED BY <2>1, <2>2
<1>8. timer' \in [Ins -> 0..Timer]
  <2>1. timer' = [e \in Ins |-> IF InReset(e) \/ e \in valid THEN Timer
                                ELSE IF timer[e] # 0 THEN timer[e] - 1 ELSE 0]
    BY DEF TickWith, InFifos
  <2>2. ASSUME NEW e \in Ins PROVE (IF InReset(e) \/ e \in valid THEN Timer
                                    ELSE IF timer[e] # 0 THEN timer[e] - 1 ELSE 0) \in 0..Timer
    BY CrossbarAssumption DEF Types
  <2> QED BY <2>1, <2>2
<1>9. OutFifos(Written)
  BY DEF TickWith
<1>10. skid' \in [Outs -> Seq(OutOctet)] /\ room' \subseteq Outs
  <2>1. \A e \in Outs : SkidNext(e, Written) \in Seq(OutOctet)
    BY SkidTypes
  <2> QED BY <1>9, <2>1 DEF OutFifos, Types
<1>11. valid' \subseteq Ins
  BY TickCounters
<1>12. FX2 /\ DOMAIN sent' = used /\ DOMAIN got' = used /\ UNCHANGED <<used, reset, resets, lastFull>>
       /\ age' = IF age < Settle THEN age + 1 ELSE age
  BY DEF TickWith
<1>13. age' \in 0..Settle
  BY <1>12, CrossbarAssumption DEF Types
<1>14. DOMAIN fifo' = 0..3 /\ DOMAIN packet' = Ins
  BY <1>12, FX2Obeys
<1>15. ASSUME NEW e \in Outs PROVE fifo'[e] \in Seq(OutOctet)
  <2>1. fifo[e] \in Seq(OutOctet)
    BY DEF Types
  <2>2. fifo'[e] = IF pads.slrd /\ pads.addr = e /\ fifo[e] # <<>> THEN Tail(fifo[e]) ELSE fifo[e]
    BY <1>12, FX2Obeys
  <2>3. fifo[e] # <<>> => Tail(fifo[e]) \in Seq(OutOctet)
    BY <2>1, HeadTailProperties
  <2> QED BY <2>1, <2>2, <2>3
<1>16. ASSUME NEW e \in Ins PROVE fifo'[e] \in Seq(Seq(Octet)) /\ packet'[e] \in Seq(Octet)
  <2>1. fifo[e] \in Seq(Seq(Octet)) /\ packet[e] \in Seq(Octet) /\ PacketToBe(e) \in Seq(Octet)
    BY PacketToBeType DEF Types
  <2>2. /\ fifo'[e] = IF pads.pend /\ pads.addr = e THEN Append(fifo[e], packet[e]) ELSE fifo[e]
        /\ packet'[e] = IF pads.pend /\ pads.addr = e THEN <<>> ELSE PacketToBe(e)
    BY <1>12, FX2Obeys
  <2>3. ASSUME NEW x \in Seq(Seq(Octet)), NEW p \in Seq(Octet) PROVE Append(x, p) \in Seq(Seq(Octet))
    BY ONLY x \in Seq(Seq(Octet)), p \in Seq(Octet), AppendProperties
  <2>4. Append(fifo[e], packet[e]) \in Seq(Seq(Octet)) /\ <<>> \in Seq(Octet)
    BY <2>1, <2>3
  <2> QED BY <2>1, <2>2, <2>4
<1> QED BY <1>2, <1>3, <1>4, <1>5, <1>6, <1>7, <1>8, <1>10, <1>11, <1>12, <1>13, <1>14, <1>15, <1>16
        DEF Types

(* The bytes that are under way are bytes. *)
LEMMA RunFits ==
    ASSUME Types, CountFits, NEW e \in used
    PROVE  /\ sent[e] \in Nat /\ got[e] \in Nat /\ got[e] <= sent[e] /\ sent[e] <= MaxBytes[e]
           /\ MaxBytes[e] \in Nat
           /\ \A n \in 1..sent[e] : Byte(e, n) \in Octet
           /\ e \in Outs => \A n \in 1..sent[e] : Byte(e, n) \in OutOctet
<1>1. e \in 0..3 /\ MaxBytes[e] \in Nat
  BY UsedEnds, MaxNat, Ends
<1>2. sent[e] \in Nat /\ got[e] \in Nat /\ got[e] <= sent[e] /\ sent[e] <= MaxBytes[e]
  BY <1>1 DEF CountFits
<1>3. \A n \in 1..sent[e] : n \in 0..MaxBytes[e]
  BY <1>1, <1>2
<1>4. \A n \in 1..sent[e] : Byte(e, n) \in Octet
  BY <1>1, <1>3, ByteType DEF Octet
<1>5. e \in Outs => \A n \in 1..sent[e] : Byte(e, n) \in OutOctet
  BY <1>3, ByteType DEF OutOctet
<1> QED BY <1>1, <1>2, <1>4, <1>5

LEMMA RunLength ==
    ASSUME NEW e, NEW g \in Nat, NEW s \in Nat, g <= s
    PROVE  Len(Run(e, g, s)) = s - g
<1> DEFINE S == {Byte(e, n) : n \in 1..s}
<1>1. \A n \in 1..s : Byte(e, n) \in S
  OBVIOUS
<1> HIDE DEF S
<1> QED BY <1>1, RunType

(* A byte that is delivered to the application has been sent. *)
LEMMA DeliveredWasSent ==
    ASSUME Types, BusFits, CountFits, FlowFits, NEW e \in Running, e \in Outs, Delivered(e, Written)
    PROVE  got[e] < sent[e]
<1>1. e \in used
  BY DEF Running
<1>2. /\ sent[e] \in Nat /\ got[e] \in Nat /\ got[e] <= sent[e]
      /\ \A n \in 1..sent[e] : Byte(e, n) \in OutOctet
  BY <1>1, RunFits
<1>3. Len(Run(e, got[e], sent[e])) = sent[e] - got[e]
  BY <1>2, RunLength
<1>4. (skid[e] \o Arrives(e, Written)) \o fifo[e] = Run(e, got[e], sent[e])
  BY DEF FlowFits, Stream
<1>5. /\ skid[e] \in Seq(OutOctet) /\ Arrives(e, Written) \in Seq(OutOctet) /\ fifo[e] \in Seq(OutOctet)
      /\ skid[e] # <<>> \/ Arrives(e, Written) # <<>>
  BY SkidTypes DEF Types, Delivered, Arrives
<1>6. ASSUME NEW s \in Seq(OutOctet), NEW a \in Seq(OutOctet), NEW f \in Seq(OutOctet),
             s # <<>> \/ a # <<>>
      PROVE  Len((s \o a) \o f) >= 1 /\ Len((s \o a) \o f) \in Nat
  <2>1. s \o a \in Seq(OutOctet) /\ Len(s \o a) = Len(s) + Len(a)
    BY ConcatProperties
  <2>2. Len((s \o a) \o f) = Len(s \o a) + Len(f)
    BY <2>1, ConcatProperties
  <2>3. Len(s) \in Nat /\ Len(a) \in Nat /\ Len(f) \in Nat
    BY LenProperties
  <2>4. s # <<>> => Len(s) > 0
    BY EmptySeq
  <2>5. a # <<>> => Len(a) > 0
    BY EmptySeq
  <2> QED BY <1>6, <2>1, <2>2, <2>3, <2>4, <2>5
<1>7. sent[e] - got[e] >= 1
  BY <1>3, <1>4, <1>5, <1>6
<1> QED BY <1>2, <1>7

LEMMA TickCount ==
    ASSUME NEW flush, NEW slrd, NEW slwr, NEW pend, Types, BusFits, CountFits, FlowFits,
           TickWith(flush, slrd, slwr, pend)
    PROVE  CountFits'
<1>1. /\ \A e \in used : sent'[e] = IF slwr /\ e = addr THEN sent[e] + 1 ELSE sent[e]
      /\ \A e \in valid' : \/ e \in valid /\ ~(slwr /\ e = addr)
                           \/ e \in used /\ sent'[e] < MaxBytes[e]
      /\ slwr \in BOOLEAN /\ slwr => addr \in valid /\ addr \in Ins
  BY TickPins, TickCounters
<1>2. used' = used
      /\ got' = [e \in used |-> IF e \in Outs /\ Delivered(e, Written) /\ ~InReset(e)
                                THEN got[e] + 1 ELSE got[e]]
  BY DEF TickWith
<1>3. ASSUME NEW e \in used PROVE sent'[e] \in 0..MaxBytes[e] /\ got'[e] \in 0..sent'[e]
  <2>1. /\ sent[e] \in Nat /\ got[e] \in Nat /\ got[e] <= sent[e] /\ sent[e] <= MaxBytes[e]
        /\ MaxBytes[e] \in Nat
    BY RunFits
  <2>2. slwr /\ e = addr => sent[e] + 1 <= MaxBytes[e]
    BY <1>1, NextByteType
  <2>3. \/ got'[e] = got[e]
        \/ got'[e] = got[e] + 1 /\ e \in Running /\ e \in Outs /\ Delivered(e, Written)
    BY <1>2 DEF Running, InReset
  <2>4. got'[e] \in Nat /\ got'[e] <= sent[e]
    BY <2>1, <2>3, DeliveredWasSent
  <2>5. sent'[e] = IF slwr /\ e = addr THEN sent[e] + 1 ELSE sent[e]
    BY <1>1
  <2> QED BY <1>1, <2>1, <2>2, <2>4, <2>5
<1>4. ASSUME NEW e \in valid' PROVE e \in used /\ sent'[e] < MaxBytes[e]
  <2>1. CASE e \in valid /\ ~(slwr /\ e = addr)
    BY <1>1, <2>1 DEF CountFits
  <2> QED BY <1>1, <2>1
<1> QED BY <1>2, <1>3, <1>4 DEF CountFits

LEMMA TickLevel ==
    ASSUME NEW flush, NEW slrd, NEW slwr, NEW pend, Types, BusFits, RoomFits, LevelFits,
           TickWith(flush, slrd, slwr, pend)
    PROVE  LevelFits'
<1>1. /\ slrd \in BOOLEAN /\ slwr \in BOOLEAN /\ pend \in BOOLEAN
      /\ pads'.addr = addr /\ pads'.slwr = slwr /\ pads'.pend = pend
      /\ slwr => /\ pads'.data = Byte(addr, sent[addr] + 1)
                 /\ addr \in valid /\ addr \in Ins /\ queued[addr] < PacketSize
      /\ ~(slwr /\ pend)
  BY TickPins
<1>2. FX2
  BY DEF TickWith
<1>3. ASSUME NEW e \in Ins
      PROVE  (Exact(e) \/ (InReset(e) /\ Quiet(e)))' /\ Len(PacketToBe(e)') <= PacketSize
  <2>1. /\ InReset(e)' <=> InReset(e)
        /\ queued'[e] = IF InReset(e) \/ (pend /\ e = addr) THEN 0
                        ELSE IF slwr /\ e = addr THEN queued[e] + 1 ELSE queued[e]
    BY TickCounters
  <2>0. InReset(e) => ~pending'[e] /\ e \notin valid'
    <3>1. pending'[e] = (~InReset(e) /\ IF pend /\ e = addr THEN AfterFlush(e)
                                       ELSE pending[e] \/ (slwr /\ e = addr))
      BY TickCounters
    <3>2. \A i \in valid' : ~InReset(i)
      BY TickCounters
    <3> QED BY <3>1, <3>2
  <2>2. packet'[e] = IF pads.pend /\ pads.addr = e THEN <<>> ELSE PacketToBe(e)
    BY <1>2, FX2Obeys
  <2>3. /\ Len(PacketToBe(e)) \in Nat /\ Len(PacketToBe(e)) <= PacketSize /\ queued[e] \in 0..PacketSize
        /\ PacketToBe(e) \in Seq(Octet) /\ (Exact(e) \/ (InReset(e) /\ Quiet(e)))
    BY PacketToBeType, LenProperties DEF LevelFits, Types
  <2>4. PICK p \in Seq(Octet) : p = packet'[e]
    <3>1. packet'[e] \in Seq(Octet)
      BY <2>2, <2>3
    <3> QED BY <3>1
  <2>5. Len(p) \in Nat /\ Len(p) <= PacketSize /\ (Exact(e) => queued[e] = Len(p))
    <3>1. CASE pads.pend /\ pads.addr = e
      BY <2>2, <2>4, <3>1, CrossbarAssumption DEF Exact
    <3>2. CASE ~(pads.pend /\ pads.addr = e)
      BY <2>2, <2>3, <2>4, <3>2 DEF Exact
    <3> QED BY <3>1, <3>2
  <2>6. CASE slwr /\ e = addr
    <3>1. Exact(e)
      BY <1>1, <2>3, <2>6 DEF Quiet
    <3>2. PacketToBe(e)' = Append(p, pads'.data)
      BY <1>1, <2>4, <2>6 DEF PacketToBe
    <3>3. Len(PacketToBe(e)') = Len(p) + 1
      <4>1. ASSUME NEW d PROVE Len(Append(p, d)) = Len(p) + 1
        OBVIOUS
      <4> QED BY <3>2, <4>1
    <3>4. queued[e] < PacketSize /\ PacketSize \in Nat /\ queued[e] = Len(p)
      BY <1>1, <2>5, <2>6, <3>1, CrossbarAssumption
    <3>5. Len(PacketToBe(e)') <= PacketSize
      BY <2>5, <3>3, <3>4
    <3>6. CASE InReset(e)
      BY <2>0, <2>1, <3>5, <3>6 DEF Quiet
    <3>7. CASE ~InReset(e)
      <4>1. queued'[e] = Len(PacketToBe(e)') /\ ~pads'.pend
        BY <1>1, <2>1, <2>6, <3>3, <3>4, <3>7
      <4> QED BY <3>5, <4>1 DEF Exact
    <3> QED BY <3>6, <3>7
  <2>7. CASE ~(slwr /\ e = addr)
    <3>1. PacketToBe(e)' = p
      BY <1>1, <2>4, <2>7 DEF PacketToBe
    <3>2. CASE InReset(e)
      BY <2>0, <2>1, <2>5, <3>1, <3>2 DEF Quiet
    <3>3. CASE ~InReset(e) /\ pend /\ e = addr
      BY <1>1, <2>1, <2>5, <3>1, <3>3 DEF Exact
    <3>4. CASE ~InReset(e) /\ ~(pend /\ e = addr)
      <4>1. queued'[e] = Len(p)
        BY <2>1, <2>3, <2>5, <2>7, <3>4
      <4> QED BY <1>1, <2>5, <3>1, <3>4, <4>1 DEF Exact
    <3> QED BY <3>2, <3>3, <3>4
  <2> QED BY <2>6, <2>7
<1> QED BY <1>3 DEF LevelFits

LEMMA TickResetQuiet ==
    ASSUME NEW flush, NEW slrd, NEW slwr, NEW pend, Types, BusFits, ResetQuiet,
           TickWith(flush, slrd, slwr, pend)
    PROVE  ResetQuiet'
<1>1. /\ slwr \in BOOLEAN /\ pend \in BOOLEAN
      /\ pads'.addr = addr /\ pads'.slwr = slwr /\ pads'.pend = pend
      /\ slwr => addr \in valid
      /\ pend => addr \in Ins /\ (queued[addr] = PacketSize \/ pending[addr])
  BY TickPins
<1>2. used' = used /\ reset' = reset /\ age' = (IF age < Settle THEN age + 1 ELSE age) /\ age \in 0..Settle
  BY DEF TickWith, Types
<1>3. ASSUME NEW e \in Ins, InReset(e)'
      PROVE  Quiet(e)' /\ (age' >= 2 \/ reset'[e] = "purged" => ~Drives(e)')
  <2>1. InReset(e) /\ queued'[e] = 0 /\ ~pending'[e] /\ e \notin valid'
    BY <1>3, TickCounters
  <2>2. ASSUME age' >= 2 \/ reset'[e] = "purged" PROVE ~Drives(e)'
    <3>1. age >= 1 \/ reset[e] = "purged"
      BY <1>2, <2>2, CrossbarAssumption
    <3>2. queued[e] = 0 /\ ~pending[e] /\ e \notin valid
      BY <2>1, <3>1 DEF ResetQuiet, Quiet
    <3> QED BY <1>1, <3>2, CrossbarAssumption DEF Drives
  <2> QED BY <2>1, <2>2 DEF Quiet
<1> QED BY <1>3 DEF ResetQuiet

LEMMA TickPurged ==
    ASSUME NEW flush, NEW slrd, NEW slwr, NEW pend, Types, BusFits, RoomFits, ResetQuiet, Purged,
           TickWith(flush, slrd, slwr, pend)
    PROVE  Purged'
<1>1. slwr \in BOOLEAN /\ (slwr => addr \in valid /\ addr \in Ins)
  BY TickPins
<1>2. /\ used' = used /\ reset' = reset /\ lastFull' = lastFull /\ FX2 /\ flag' = Flags
      /\ skid' = [e \in Outs |-> SkidNext(e, Written)]
      /\ got' = [e \in used |-> IF e \in Outs /\ Delivered(e, Written) /\ ~InReset(e)
                                THEN got[e] + 1 ELSE got[e]]
  BY DEF TickWith, OutFifos, Capture
<1>3. ASSUME NEW e \in used, reset[e] = "purged"
      PROVE  /\ sent'[e] = 0 /\ got'[e] = 0 /\ fifo'[e] = <<>>
             /\ e \in Ins => packet'[e] = <<>> /\ ~lastFull'[e]
             /\ e \in Outs => e \notin flag' /\ skid'[e] = <<>>
  <2>1. /\ InReset(e) /\ sent[e] = 0 /\ got[e] = 0 /\ fifo[e] = <<>>
        /\ e \in Ins => packet[e] = <<>> /\ ~lastFull[e] /\ ~Drives(e) /\ e \notin valid
    BY <1>3 DEF Purged, InReset, ResetQuiet, Quiet
  <2>2. sent'[e] = 0
    BY <1>1, <2>1, TickCounters
  <2>3. got'[e] = 0
    BY <1>2, <2>1
  <2>4. CASE e \in Ins
    <3>1. e \notin Outs /\ ~(pads.addr = e /\ (pads.slwr \/ pads.pend))
      BY <2>1, <2>4, Ends DEF Drives
    <3>2. fifo'[e] = fifo[e] /\ packet'[e] = packet[e]
      BY <1>2, <2>4, <3>1, FX2Obeys DEF PacketToBe
    <3> QED BY <1>2, <2>1, <2>2, <2>3, <2>4, <3>1, <3>2
  <2>5. CASE e \in Outs
    <3>1. e \notin Ins /\ e \notin flag'
      BY <1>2, <2>1, <2>5, Ends DEF Flags
    <3>2. fifo'[e] = <<>>
      BY <1>2, <2>1, <2>5, FX2Obeys
    <3>3. skid'[e] = <<>>
      BY <1>2, <2>1, <2>5 DEF SkidNext
    <3> QED BY <2>2, <2>3, <3>1, <3>2, <3>3
  <2> QED BY <2>4, <2>5, UsedEnds
<1> QED BY <1>2, <1>3 DEF Purged

LEMMA TickSkid ==
    ASSUME NEW flush, NEW slrd, NEW slwr, NEW pend, Types, BusFits, SkidFits,
           TickWith(flush, slrd, slwr, pend)
    PROVE  SkidFits'
<1>1. /\ slrd \in BOOLEAN /\ pads'.addr = addr /\ pads'.slrd = slrd
      /\ slrd => WReady(addr)
  BY TickPins
<1>2. /\ addr_p' = pads.addr /\ slrd_p' = pads.slrd
      /\ skid' = [e \in Outs |-> SkidNext(e, Written)]
  BY DEF TickWith, OutFifos
<1>3. ASSUME NEW e \in Outs
      PROVE  Len(skid'[e]) + One(slrd_p' /\ addr_p' = e) + One(pads'.slrd /\ pads'.addr = e) <= 2
  <2>1. Len(skid[e]) + One(slrd_p /\ addr_p = e) + One(pads.slrd /\ pads.addr = e) <= 2
    BY DEF SkidFits
  <2>2. Len(skid[e]) \in Nat /\ skid[e] \in Seq(OutOctet) /\ Arrives(e, Written) \in Seq(OutOctet)
    BY SkidTypes
  <2>3. e \in Written => slrd_p /\ addr_p = e
    BY WrittenIs DEF BusFits
  <2>4. Len(Arrives(e, Written)) <= One(slrd_p /\ addr_p = e) /\ Len(Arrives(e, Written)) \in Nat
    BY <2>3 DEF Arrives, One
  <2>5. /\ Len(SkidNext(e, Written)) \in Nat
        /\ Len(SkidNext(e, Written)) <= Len(skid[e]) + Len(Arrives(e, Written))
        /\ WReady(e) => SkidNext(e, Written) = <<>>
    <3> SUFFICES ASSUME NEW s \in Seq(OutOctet), s = skid[e],
                        NEW a \in Seq(OutOctet), a = Arrives(e, Written)
                 PROVE  /\ Len(SkidNext(e, Written)) \in Nat
                        /\ Len(SkidNext(e, Written)) <= Len(s) + Len(a)
                        /\ WReady(e) => SkidNext(e, Written) = <<>>
      BY <2>2
    <3>1. WReady(e) => SkidNext(e, Written) = <<>>
      BY DEF SkidNext, WReady
    <3>0. (IF SkidFull(e) THEN <<>> ELSE a) \in Seq(OutOctet)
      OBVIOUS
    <3>2. PICK k \in Seq(OutOctet) : k = IF SkidFull(e) THEN <<>> ELSE a
      BY <3>0
    <3>3. Len(k) \in Nat /\ Len(k) <= Len(a) /\ Len(a) \in Nat /\ Len(s) \in Nat
      BY <3>2, LenProperties
    <3>4. Len(<<>>) = 0
      OBVIOUS
    <3>5. Len(s \o k) = Len(s) + Len(k)
      BY ConcatProperties
    <3>6. s # <<>> => Tail(s) \in Seq(OutOctet) /\ Len(Tail(s)) = Len(s) - 1 /\ Len(s) > 0
      BY HeadTailProperties, EmptySeq
    <3>7. s # <<>> => Len(Tail(s) \o k) = (Len(s) - 1) + Len(k)
      BY <3>6, ConcatProperties
    <3>8. \/ SkidNext(e, Written) = <<>>
          \/ SkidNext(e, Written) = k
          \/ SkidNext(e, Written) = s \o k
          \/ s # <<>> /\ SkidNext(e, Written) = Tail(s) \o k
      BY <3>2 DEF SkidNext
    <3>9. CASE s # <<>> /\ SkidNext(e, Written) = Tail(s) \o k
      <4>1. Len(SkidNext(e, Written)) = (Len(s) - 1) + Len(k)
        BY <3>7, <3>9
      <4> QED BY <3>1, <3>3, <3>6, <3>9, <4>1
    <3> QED BY <3>1, <3>3, <3>4, <3>5, <3>8, <3>9
  <2>6. skid'[e] = SkidNext(e, Written)
    BY <1>2
  <2>7. \A b : One(b) \in {0, 1}
    BY DEF One
  <2>8. CASE slrd /\ addr = e
    <3>1. skid'[e] = <<>> /\ Len(<<>>) = 0
      BY <1>1, <2>5, <2>6, <2>8
    <3> QED BY <2>7, <3>1
  <2>9. CASE ~(slrd /\ addr = e)
    <3>1. One(pads'.slrd /\ pads'.addr = e) = 0
      BY <1>1, <2>9 DEF One
    <3>2. One(slrd_p' /\ addr_p' = e) = One(pads.slrd /\ pads.addr = e)
      BY <1>2
    <3>3. Len(skid'[e]) \in Nat /\ Len(skid'[e]) <= Len(skid[e]) + Len(Arrives(e, Written))
      BY <2>5, <2>6
    <3> SUFFICES ASSUME NEW n \in Nat, NEW k \in Nat, NEW a \in Nat, NEW b \in {0, 1}, NEW c \in {0, 1},
                        n <= k + a, a <= c, k + c + b <= 2
                 PROVE  n + b + 0 <= 2
      BY <2>1, <2>2, <2>4, <2>7, <3>1, <3>2, <3>3
    <3> QED OBVIOUS
  <2> QED BY <2>8, <2>9
<1> QED BY <1>3 DEF SkidFits
(* The packet before the one that is being written, after a cycle. *)
LEMMA TickPrev ==
    ASSUME Types, BusFits, RoomFits, FX2, lastFull' = lastFull, NEW e \in Ins
    PROVE  /\ pads.pend /\ pads.addr = e => (PrevFull(e)' <=> Len(packet[e]) = PacketSize)
           /\ ~(pads.pend /\ pads.addr = e) => (PrevFull(e)' <=> PrevFull(e))
<1>1. fifo'[e] = IF pads.pend /\ pads.addr = e THEN Append(fifo[e], packet[e]) ELSE fifo[e]
  BY FX2Obeys
<1>2. fifo[e] \in Seq(Seq(Octet)) /\ packet[e] \in Seq(Octet)
  BY DEF Types
<1>3. CASE pads.pend /\ pads.addr = e
  <2>1. ASSUME NEW x \in Seq(Seq(Octet)), NEW p \in Seq(Octet)
        PROVE  Append(x, p) # <<>> /\ Append(x, p)[Len(Append(x, p))] = p
    BY ONLY x \in Seq(Seq(Octet)), p \in Seq(Octet), AppendProperties
  <2>2. fifo'[e] # <<>> /\ fifo'[e][Len(fifo'[e])] = packet[e]
    BY SMTT(30), ZenonT(30), <1>1, <1>2, <1>3, <2>1
  <2> QED BY <1>3, <2>2 DEF PrevFull
<1>4. CASE ~(pads.pend /\ pads.addr = e)
  BY <1>1, <1>4 DEF PrevFull
<1> QED BY <1>3, <1>4

LEMMA TickPend ==
    ASSUME NEW flush, NEW slrd, NEW slwr, NEW pend, Types, BusFits, RoomFits, LevelFits, PendFits,
           TickWith(flush, slrd, slwr, pend)
    PROVE  PendFits'
<1>1. /\ slrd \in BOOLEAN /\ slwr \in BOOLEAN /\ pend \in BOOLEAN
      /\ pads'.addr = addr /\ pads'.slwr = slwr /\ pads'.pend = pend
      /\ pend => /\ fsm = "IN-XFER" /\ addr \in Ins
                 /\ queued[addr] = PacketSize \/ pending[addr]
      /\ ~(slwr /\ pend)
  BY TickPins
<1>2. used' = used /\ reset' = reset /\ lastFull' = lastFull /\ FX2
  BY DEF TickWith
<1>3. ASSUME NEW e \in Ins, e \in used, reset[e] = "run"
      PROVE  /\ queued'[e] > 0 => pending'[e]
             /\ pads'.pend /\ pads'.addr = e =>
                   /\ packet'[e] = <<>> => PrevFull(e)'
                   /\ pending'[e] => Len(packet'[e]) = PacketSize
             /\ pending'[e] /\ ~(pads'.pend /\ pads'.addr = e) /\ PacketToBe(e)' = <<>> => PrevFull(e)'
  <2>1. ~InReset(e) /\ e \in Running \cap Ins
    BY <1>3 DEF InReset, Running
  <2>2. queued'[e] = IF InReset(e) \/ (pend /\ e = addr) THEN 0
                     ELSE IF slwr /\ e = addr THEN queued[e] + 1 ELSE queued[e]
    BY TickCounters
  <2>3. pending'[e] = (~InReset(e) /\ IF pend /\ e = addr THEN AfterFlush(e)
                                      ELSE pending[e] \/ (slwr /\ e = addr))
    BY TickCounters
  <2>4. packet'[e] = IF pads.pend /\ pads.addr = e THEN <<>> ELSE PacketToBe(e)
    BY <1>2, FX2Obeys
  <2>5. /\ Exact(e) /\ queued[e] \in 0..PacketSize /\ PacketToBe(e) \in Seq(Octet)
        /\ PacketSize \in Nat \ {0} /\ Len(PacketToBe(e)) <= PacketSize
    BY <2>1, PacketToBeType, CrossbarAssumption DEF LevelFits, Types
  <2>6. /\ queued[e] > 0 => pending[e]
        /\ pads.pend /\ pads.addr = e =>
              /\ packet[e] = <<>> => PrevFull(e)
              /\ pending[e] => Len(packet[e]) = PacketSize
        /\ pending[e] /\ ~(pads.pend /\ pads.addr = e) /\ PacketToBe(e) = <<>> => PrevFull(e)
    BY <2>1 DEF PendFits
  <2>7. /\ pads.pend /\ pads.addr = e => (PrevFull(e)' <=> Len(packet[e]) = PacketSize)
        /\ ~(pads.pend /\ pads.addr = e) => (PrevFull(e)' <=> PrevFull(e))
    BY <1>2, TickPrev
  <2>8. CASE pend /\ e = addr
    <3>1. ~(pads.pend /\ pads.addr = e)
      BY <1>1, <2>8 DEF RoomFits
    <3>2. queued'[e] = 0 /\ pads'.pend /\ pads'.addr = e
      BY <1>1, <2>2, <2>8
    <3>3. packet'[e] = PacketToBe(e) /\ queued[e] = Len(packet'[e]) /\ (PrevFull(e)' <=> PrevFull(e))
      BY <2>4, <2>5, <2>7, <3>1 DEF Exact
    <3>4. packet'[e] = <<>> => PrevFull(e)'
      <4>1. packet'[e] = <<>> => queued[e] = 0
        BY <3>3
      <4>2. queued[e] = 0 => pending[e]
        BY <1>1, <2>5, <2>8
      <4> QED BY <2>6, <3>1, <3>3, <4>1, <4>2
    <3>5. pending'[e] => Len(packet'[e]) = PacketSize
      <4>1. pending'[e] => queued[e] >= PacketSize
        BY <2>3, <2>8, Zenon DEF AfterFlush
      <4>2. queued[e] >= PacketSize => queued[e] = PacketSize
        BY <2>5
      <4> QED BY <3>3, <4>1, <4>2
    <3> QED BY <3>2, <3>4, <3>5
  <2>9. CASE slwr /\ e = addr
    <3>1. pending'[e] /\ ~(pads'.pend /\ pads'.addr = e)
      <4>1. ~pend
        BY <1>1, <2>9
      <4>2. pending'[e]
        BY <2>1, <2>3, <2>9, <4>1, Zenon
      <4> QED BY <1>1, <4>1, <4>2
    <3>2. PacketToBe(e)' = Append(packet'[e], pads'.data)
      BY <1>1, <2>9 DEF PacketToBe
    <3>3. PacketToBe(e)' # <<>>
      <4>1. packet'[e] \in Seq(Octet)
        BY <2>4, <2>5
      <4>2. ASSUME NEW p \in Seq(Octet), NEW d PROVE Append(p, d) # <<>>
        <5>1. Len(Append(p, d)) = Len(p) + 1 /\ Len(p) \in Nat
          OBVIOUS
        <5>2. Len(Append(p, d)) # Len(<<>>)
          BY <5>1
        <5> QED BY <5>2
      <4> QED BY <3>2, <4>1, <4>2
    <3> QED BY <3>1, <3>3
  <2>10. CASE ~(pend /\ e = addr) /\ ~(slwr /\ e = addr)
    <3>1. queued'[e] = queued[e] /\ ~(pads'.pend /\ pads'.addr = e) /\ PacketToBe(e)' = packet'[e]
      BY <1>1, <2>1, <2>2, <2>10 DEF PacketToBe
    <3>2. pending'[e] <=> pending[e]
      BY <2>1, <2>3, <2>10, Zenon
    <3>3. pending[e] /\ packet'[e] = <<>> => PrevFull(e)'
      BY <2>4, <2>6, <2>7
    <3> QED BY <2>6, <3>1, <3>2, <3>3
  <2> QED BY <2>8, <2>9, <2>10
<1> QED BY <1>2, <1>3 DEF PendFits, Running

(* Packets of zero length that follow one of the maximum size only. *)
ZlpsFit(x, last) ==
    \A i \in 1..Len(x) :
        x[i] = <<>> => IF i = 1 THEN last ELSE Len(x[i - 1]) = PacketSize

LEMMA ZlpsAppend ==
    ASSUME NEW S, NEW x \in Seq(S), NEW last, ZlpsFit(x, last), NEW p \in S,
           p = <<>> => IF x = <<>> THEN last ELSE Len(x[Len(x)]) = PacketSize
    PROVE  ZlpsFit(Append(x, p), last)
<1> SUFFICES ASSUME NEW y, y = Append(x, p), NEW n, n = Len(x)
             PROVE  ZlpsFit(y, last)
  OBVIOUS
<1>1. /\ n \in Nat /\ Len(y) = n + 1 /\ y[n + 1] = p
      /\ \A i \in 1..n : y[i] = x[i]
  BY AppendProperties, LenProperties
<1>2. x = <<>> <=> n = 0
  BY EmptySeq
<1>3. ASSUME NEW i \in 1..(n + 1), y[i] = <<>>
      PROVE  IF i = 1 THEN last ELSE Len(y[i - 1]) = PacketSize
  <2>1. CASE i = n + 1
    <3>1. p = <<>>
      BY <1>1, <1>3, <2>1
    <3>2. CASE n = 0
      BY <1>2, <2>1, <3>1, <3>2
    <3>3. CASE n # 0
      <4>1. i # 1 /\ i - 1 = n /\ n \in 1..n
        BY <1>1, <2>1, <3>3
      <4>2. Len(x[n]) = PacketSize
        BY <1>2, <3>1, <3>3
      <4> QED BY <1>1, <4>1, <4>2
    <3> QED BY <3>2, <3>3
  <2>2. CASE i # n + 1
    <3>1. i \in 1..n /\ (i # 1 => i - 1 \in 1..n)
      BY <1>1, <2>2
    <3>2. x[i] = <<>> /\ (i # 1 => y[i - 1] = x[i - 1])
      BY <1>1, <1>3, <3>1
    <3> QED BY <3>1, <3>2 DEF ZlpsFit
  <2> QED BY <2>1, <2>2
<1> QED BY <1>1, <1>3 DEF ZlpsFit

LEMMA TickZlp ==
    ASSUME NEW flush, NEW slrd, NEW slwr, NEW pend, Types, BusFits, RoomFits, PendFits, ZlpAfterFull,
           TickWith(flush, slrd, slwr, pend)
    PROVE  ZlpAfterFull'
<1>1. used' = used /\ reset' = reset /\ lastFull' = lastFull /\ FX2
  BY DEF TickWith
<1>2. ASSUME NEW e \in Ins, e \in Running PROVE ZlpsFit(fifo'[e], lastFull[e])
  <2>1. ZlpsFit(fifo[e], lastFull[e])
    BY <1>2 DEF ZlpAfterFull, ZlpsFit
  <2>2. fifo'[e] = IF pads.pend /\ pads.addr = e THEN Append(fifo[e], packet[e]) ELSE fifo[e]
    BY <1>1, FX2Obeys
  <2>3. pads.pend /\ pads.addr = e /\ packet[e] = <<>> =>
           IF fifo[e] = <<>> THEN lastFull[e] ELSE Len(fifo[e][Len(fifo[e])]) = PacketSize
    BY <1>2 DEF PendFits, PrevFull
  <2>4. CASE pads.pend /\ pads.addr = e
    <3> SUFFICES ASSUME NEW x, x = fifo[e], NEW p, p = packet[e], NEW l, l = lastFull[e]
                 PROVE  ZlpsFit(Append(x, p), l)
      BY <2>2, <2>4
    <3>1. /\ x \in Seq(Seq(Octet)) /\ p \in Seq(Octet) /\ ZlpsFit(x, l)
          /\ p = <<>> => IF x = <<>> THEN l ELSE Len(x[Len(x)]) = PacketSize
      BY <2>1, <2>3, <2>4 DEF Types
    <3> QED BY ONLY <3>1, ZlpsAppend
  <2>5. CASE ~(pads.pend /\ pads.addr = e)
    BY <2>1, <2>2, <2>5
  <2> QED BY <2>4, <2>5
<1> QED BY <1>1, <1>2 DEF ZlpAfterFull, ZlpsFit, Running
(* A sequence is its head and its tail. *)
LEMMA HeadFirst ==
    ASSUME NEW S, NEW s \in Seq(S), s # <<>>
    PROVE  s = <<Head(s)>> \o Tail(s) /\ <<Head(s)>> \in Seq(S) /\ Tail(s) \in Seq(S)
<1>1. /\ Head(s) \in S /\ Tail(s) \in Seq(S) /\ Len(Tail(s)) = Len(s) - 1
      /\ \A i \in 1..Len(Tail(s)) : Tail(s)[i] = s[i + 1]
  BY HeadTailProperties
<1>2. Len(s) \in Nat /\ Len(s) >= 1 /\ Head(s) = s[1]
  BY EmptySeq, LenProperties
<1>0. <<Head(s)>> \in Seq(S)
  BY <1>1
<1> SUFFICES ASSUME NEW h, h = <<Head(s)>>, NEW t, t = Tail(s), NEW n, n = Len(s)
             PROVE  s = h \o t
  BY <1>0, <1>1
<1>9. h \in Seq(S) /\ t \in Seq(S)
  BY <1>0, <1>1
<1>3. Len(h) = 1 /\ h[1] = s[1] /\ Len(t) = n - 1 /\ n \in Nat
  BY <1>1, <1>2
<1> SUFFICES ASSUME NEW y, y = h \o t PROVE s = y
  OBVIOUS
<1>4. /\ y \in Seq(S) /\ Len(y) = Len(h) + Len(t)
      /\ \A i \in 1..(Len(h) + Len(t)) : y[i] = IF i <= Len(h) THEN h[i] ELSE t[i - Len(h)]
  BY <1>9, ConcatProperties
<1>5. Len(y) = n /\ Len(h) + Len(t) = n
  BY <1>3, <1>4
<1>6. ASSUME NEW i \in 1..n PROVE y[i] = s[i]
  <2>1. y[i] = IF i <= Len(h) THEN h[i] ELSE t[i - Len(h)]
    BY <1>4, <1>5, <1>6
  <2>2. CASE i = 1
    BY <1>3, <2>1, <2>2
  <2>3. CASE i # 1
    <3>1. i - 1 \in 1..Len(t) /\ (i - 1) + 1 = i /\ ~(i <= 1)
      BY <1>3, <2>3
    <3>2. t[i - 1] = s[i]
      BY <1>1, <3>1
    <3> QED BY <1>3, <2>1, <3>1, <3>2
  <2> QED BY <2>2, <2>3
<1> QED BY <1>4, <1>5, <1>6, SeqEqual

LEMMA Associative ==
    ASSUME NEW S, NEW p \in Seq(S), NEW x \in Seq(S), NEW y \in Seq(S)
    PROVE  (p \o x) \o y = p \o (x \o y)
  BY ConcatAssociative

AllSeqs(S, d, k, b, g) == d \in Seq(S) /\ k \in Seq(S) /\ b \in Seq(S) /\ g \in Seq(S)

(* What leaves the front of a skid buffer and the FIFO behind it. *)
LEMMA Passed ==
    ASSUME NEW S, NEW d, NEW k, NEW b, NEW g, AllSeqs(S, d, k, b, g)
    PROVE  (d \o k) \o (b \o g) = d \o ((k \o b) \o g) /\ (k \o b) \o g \in Seq(S)
<1>0. d \in Seq(S) /\ k \in Seq(S) /\ b \in Seq(S) /\ g \in Seq(S)
  BY DEF AllSeqs
<1>1. b \o g \in Seq(S) /\ k \o b \in Seq(S)
  BY <1>0, ConcatProperties
<1>2. (k \o b) \o g \in Seq(S)
  BY <1>0, <1>1, ConcatProperties
<1>3. (k \o b) \o g = k \o (b \o g)
  <2>1. k \in Seq(S) /\ b \in Seq(S) /\ g \in Seq(S)
    BY <1>0
  <2> QED BY ONLY <2>1, Associative
<1>4. ASSUME NEW f, f \in Seq(S) PROVE (d \o k) \o f = d \o (k \o f)
  <2>1. d \in Seq(S) /\ k \in Seq(S) /\ f \in Seq(S)
    BY <1>0, <1>4
  <2> QED BY ONLY <2>1, Associative
<1> QED BY <1>1, <1>2, <1>3, <1>4

(* The bytes of an OUT endpoint between the FX2 and the skid buffer. *)
LEMMA TickArrives ==
    ASSUME NEW flush, NEW slrd, NEW slwr, NEW pend, Types, BusFits, RoomFits,
           TickWith(flush, slrd, slwr, pend), NEW e \in Outs
    PROVE  /\ fifo[e] = Arrives(e, Written)' \o fifo'[e]
           /\ Arrives(e, Written)' \in Seq(OutOctet) /\ fifo'[e] \in Seq(OutOctet)
<1>1. /\ addr_p' = pads.addr /\ slrd_p' = pads.slrd /\ FX2 /\ flag' = Flags
      /\ data' = IF pads.addr \in Outs /\ fifo[pads.addr] # <<>> THEN Head(fifo[pads.addr]) ELSE NoByte
  BY DEF TickWith, Capture
<1>2. pads.slrd => addr' = addr /\ pads.addr = addr /\ addr \in Outs
  <2> SUFFICES ASSUME pads.slrd PROVE addr' = addr /\ pads.addr = addr /\ addr \in Outs
    OBVIOUS
  <2>1. fsm = "OUT-XFER" /\ pads.addr = addr /\ addr \in Outs
    BY DEF BusFits
  <2>2. Ready(flush) \in SUBSET (0..3) /\ Fsm(slrd, slwr, Ready(flush))
        /\ slrd \in BOOLEAN /\ slwr \in BOOLEAN
    BY TickReady, TickPins
  <2> QED BY <2>1, <2>2, FsmSteps
<1>3. Written' = IF pads.slrd /\ fifo[pads.addr] # <<>> THEN {pads.addr} ELSE {}
  <2>1. Written' = IF addr' \in Outs /\ slrd_p' /\ addr' \in flag' THEN {addr_p' % 2} ELSE {}
    BY DEF Written
  <2>2. CASE pads.slrd
    <3>1. addr' = pads.addr /\ pads.addr \in Outs
      BY <1>2, <2>2
    <3>2. pads.addr % 2 = pads.addr
      <4>1. pads.addr = 0 \/ pads.addr = 1
        BY <3>1, Ends
      <4> QED BY <4>1
    <3>3. addr' \in flag' <=> fifo[pads.addr] # <<>>
      BY <1>1, <3>1, Ends DEF Flags
    <3> QED BY <1>1, <2>1, <2>2, <3>1, <3>2, <3>3
  <2>3. CASE ~pads.slrd
    BY <1>1, <2>1, <2>3
  <2> QED BY <2>2, <2>3
<1>4. fifo'[e] = IF pads.slrd /\ pads.addr = e /\ fifo[e] # <<>> THEN Tail(fifo[e]) ELSE fifo[e]
  BY <1>1, FX2Obeys
<1>5. fifo[e] \in Seq(OutOctet) /\ <<>> \in Seq(OutOctet)
  BY DEF Types
<1>6. CASE pads.slrd /\ pads.addr = e /\ fifo[e] # <<>>
  <2>1. Arrives(e, Written)' = <<Head(fifo[e])>>
    BY <1>1, <1>3, <1>6 DEF Arrives
  <2> QED BY <1>4, <1>5, <1>6, <2>1, HeadFirst
<1>7. CASE ~(pads.slrd /\ pads.addr = e /\ fifo[e] # <<>>)
  <2>1. Arrives(e, Written)' = <<>>
    BY <1>3, <1>7 DEF Arrives
  <2> QED BY <1>4, <1>5, <1>7, <2>1, ConcatEmptySeq
<1> QED BY <1>6, <1>7

(* What the skid buffer of an OUT endpoint in use delivers in a cycle. *)
LEMMA Delivers ==
    ASSUME Types, BusFits, SkidFits, NEW e \in Outs, ~InReset(e)
    PROVE  \E d \in Seq(OutOctet) :
              /\ skid[e] \o Arrives(e, Written) = d \o SkidNext(e, Written)
              /\ Len(d) = One(Delivered(e, Written))
<1>1. /\ skid[e] \in Seq(OutOctet) /\ Arrives(e, Written) \in Seq(OutOctet)
      /\ SkidNext(e, Written) \in Seq(OutOctet)
  BY SkidTypes
<1>2. (IF SkidFull(e) THEN <<>> ELSE Arrives(e, Written)) = Arrives(e, Written)
  <2>1. CASE e \in Written
    <3>1. slrd_p /\ addr_p = e
      BY <2>1, WrittenIs DEF BusFits
    <3>2. Len(skid[e]) + One(slrd_p /\ addr_p = e) + One(pads.slrd /\ pads.addr = e) <= 2
      BY DEF SkidFits
    <3>3. One(slrd_p /\ addr_p = e) = 1 /\ One(pads.slrd /\ pads.addr = e) \in {0, 1}
      BY <3>1 DEF One
    <3>4. Len(skid[e]) <= 1
      BY <3>2, <3>3, SkidTypes
    <3>5. SkidDepth \in Nat /\ SkidDepth >= 2
      BY CrossbarAssumption
    <3>6. ~SkidFull(e)
      BY <3>4, <3>5, SkidTypes DEF SkidFull
    <3> QED BY <3>6
  <2>2. CASE e \notin Written
    BY <2>2 DEF Arrives
  <2> QED BY <2>1, <2>2
<1>3. Arrives(e, Written) # <<>> <=> e \in Written
  BY DEF Arrives
<1> DEFINE Gone(s, a, k, n) == \E d \in Seq(OutOctet) : s \o a = d \o k /\ Len(d) = n
<1> SUFFICES Gone(skid[e], Arrives(e, Written), SkidNext(e, Written), One(Delivered(e, Written)))
  OBVIOUS
<1> HIDE DEF Gone
<1> SUFFICES ASSUME NEW s, s = skid[e], NEW a, a = Arrives(e, Written), NEW k, k = SkidNext(e, Written),
                    NEW n, n = One(Delivered(e, Written))
             PROVE  Gone(s, a, k, n)
  OBVIOUS
<1> USE DEF Gone
<1>0. s \in Seq(OutOctet) /\ a \in Seq(OutOctet) /\ k \in Seq(OutOctet)
  BY <1>1
<1>4. k = IF s = <<>> THEN IF e \in room THEN <<>> ELSE a
          ELSE (IF e \in room THEN Tail(s) ELSE s) \o a
  BY <1>2 DEF SkidNext
<1>5. n = IF e \in room /\ (s # <<>> \/ a # <<>>) THEN 1 ELSE 0
  BY <1>3 DEF Delivered, One
<1>6. /\ s \o <<>> = s /\ <<>> \o s = s /\ a \o <<>> = a /\ <<>> \o a = a
      /\ <<>> \in Seq(OutOctet) /\ Len(<<>>) = 0
  BY <1>0, ConcatEmptySeq
<1>7. CASE e \notin room
  <2>1. k = s \o a /\ n = 0
    BY <1>4, <1>5, <1>6, <1>7
  <2>2. <<>> \o k = k
    BY <1>0, ConcatEmptySeq
  <2> QED BY <1>6, <2>1, <2>2
<1>8. CASE e \in room /\ s = <<>>
  <2>1. s \o a = a /\ k = <<>> /\ a \o k = a
    BY <1>4, <1>6, <1>8
  <2>2. Len(a) = n
    <3>1. a = IF e \in Written THEN <<data>> ELSE <<>>
      BY DEF Arrives
    <3>2. Len(<<data>>) = 1 /\ <<data>> # <<>>
      OBVIOUS
    <3> QED BY <1>5, <1>6, <1>8, <3>1, <3>2
  <2> QED BY <1>0, <2>1, <2>2
<1>9. CASE e \in room /\ s # <<>>
  <2>1. k = Tail(s) \o a /\ n = 1
    BY <1>4, <1>5, <1>9
  <2>2. s = <<Head(s)>> \o Tail(s) /\ <<Head(s)>> \in Seq(OutOctet) /\ Tail(s) \in Seq(OutOctet)
    BY <1>0, <1>9, HeadFirst
  <2>3. (<<Head(s)>> \o Tail(s)) \o a = <<Head(s)>> \o (Tail(s) \o a)
    <3> SUFFICES ASSUME NEW h, h = <<Head(s)>>, NEW t, t = Tail(s) PROVE (h \o t) \o a = h \o (t \o a)
      OBVIOUS
    <3>1. h \in Seq(OutOctet) /\ t \in Seq(OutOctet) /\ a \in Seq(OutOctet)
      BY <1>0, <2>2
    <3> QED BY ONLY <3>1, Associative
  <2>4. Len(<<Head(s)>>) = 1
    OBVIOUS
  <2> QED BY <2>1, <2>2, <2>3, <2>4
<1> QED BY <1>7, <1>8, <1>9
LEMMA FlowOut ==
    ASSUME NEW flush, NEW slrd, NEW slwr, NEW pend, Types, BusFits, RoomFits, CountFits, SkidFits, FlowFits,
           TickWith(flush, slrd, slwr, pend), NEW e \in Outs, e \in Running
    PROVE  Stream(e)' = Run(e, got'[e], sent'[e])
<1>1. e \in used /\ ~InReset(e) /\ e \notin Ins
  BY Ends DEF Running, InReset
<1>2. got'[e] = got[e] + One(Delivered(e, Written)) /\ sent'[e] = sent[e]
  <2>1. got' = [i \in used |-> IF i \in Outs /\ Delivered(i, Written) /\ ~InReset(i)
                               THEN got[i] + 1 ELSE got[i]]
    BY DEF TickWith
  <2>2. sent'[e] = IF slwr /\ e = addr THEN sent[e] + 1 ELSE sent[e]
    BY <1>1, TickCounters
  <2>3. slwr \in BOOLEAN /\ (slwr => addr \in Ins)
    BY TickPins
  <2>4. got[e] \in Nat
    BY <1>1, RunFits
  <2> QED BY <1>1, <2>1, <2>2, <2>3, <2>4 DEF One
<1>3. Stream(e) = Run(e, got[e], sent[e]) /\ Stream(e) = (skid[e] \o Arrives(e, Written)) \o fifo[e]
  BY DEF FlowFits, Stream
<1>4. Stream(e)' = (SkidNext(e, Written) \o Arrives(e, Written)') \o fifo'[e]
  <2>1. skid'[e] = SkidNext(e, Written)
    BY DEF TickWith, OutFifos
  <2>2. Stream(e)' = (skid'[e] \o Arrives(e, Written)') \o fifo'[e]
    BY DEF Stream
  <2> QED BY <2>1, <2>2
<1>5. PICK d \in Seq(OutOctet) : /\ skid[e] \o Arrives(e, Written) = d \o SkidNext(e, Written)
                                 /\ Len(d) = One(Delivered(e, Written))
  BY <1>1, Delivers
<1>6. /\ fifo[e] = Arrives(e, Written)' \o fifo'[e]
      /\ Arrives(e, Written)' \in Seq(OutOctet) /\ fifo'[e] \in Seq(OutOctet)
  BY TickArrives
<1>7. SkidNext(e, Written) \in Seq(OutOctet) /\ got[e] \in Nat /\ sent[e] \in Nat /\ got[e] <= sent[e]
  BY <1>1, SkidTypes, RunFits
<1> DEFINE Fits(k, b, f, n, s) == (k \o b) \o f = Run(e, n, s)
<1> SUFFICES Fits(SkidNext(e, Written), Arrives(e, Written)', fifo'[e], got'[e], sent[e])
  BY <1>2, <1>4
<1> HIDE DEF Fits
<1> SUFFICES ASSUME NEW k, k = SkidNext(e, Written), NEW b, b = Arrives(e, Written)', NEW f, f = fifo'[e],
                    NEW n, n = got'[e], NEW s, s = sent[e]
             PROVE  Fits(k, b, f, n, s)
  OBVIOUS
<1> DEFINE g == got[e]
           y == (k \o b) \o f
           x == Run(e, g, s)
<1>8. AllSeqs(OutOctet, d, k, b, f)
  BY <1>6, <1>7 DEF AllSeqs
<1>9. x = (d \o k) \o (b \o f)
  BY <1>3, <1>5, <1>6
<1>10. (d \o k) \o (b \o f) = d \o y /\ y \in Seq(OutOctet)
  BY ONLY <1>8, Passed
<1>11. n = g + Len(d)
  BY <1>2, <1>5
<1>12. IsRun(x, e, g, s)
  BY <1>7 DEF IsRun
<1>13. Splits(OutOctet, x, d, y)
  BY <1>9, <1>10 DEF Splits
<1> HIDE DEF x, y, g
<1>14. IsRun(y, e, g + Len(d), s)
  BY ONLY <1>12, <1>13, RunDrops
<1> QED BY <1>11, <1>14 DEF Fits, IsRun, y

LEMMA FlowIn ==
    ASSUME NEW flush, NEW slrd, NEW slwr, NEW pend, Types, BusFits, RoomFits, CountFits, FlowFits,
           TickWith(flush, slrd, slwr, pend), NEW e \in Ins, e \in Running
    PROVE  Stream(e)' = Run(e, got'[e], sent'[e])
<1>1. e \in used /\ e \notin Outs
  BY Ends DEF Running
<1>2. got'[e] = got[e]
  <2>1. got' = [i \in used |-> IF i \in Outs /\ Delivered(i, Written) /\ ~InReset(i)
                               THEN got[i] + 1 ELSE got[i]]
    BY DEF TickWith
  <2> QED BY <1>1, <2>1
<1>3. sent'[e] = IF slwr /\ e = addr THEN sent[e] + 1 ELSE sent[e]
  BY <1>1, TickCounters
<1>4. /\ slwr \in BOOLEAN /\ pads'.addr = addr /\ pads'.slwr = slwr
      /\ slwr => pads'.data = Byte(addr, sent[addr] + 1) /\ addr \in valid /\ addr \in Ins
  BY TickPins
<1>5. Stream(e) = Run(e, got[e], sent[e]) /\ Stream(e) = FlattenSeq(fifo[e]) \o PacketToBe(e)
      /\ Stream(e)' = FlattenSeq(fifo'[e]) \o PacketToBe(e)'
  BY <1>1 DEF FlowFits, Stream
<1>6. /\ FX2 /\ fifo[e] \in Seq(Seq(Octet)) /\ packet[e] \in Seq(Octet) /\ PacketToBe(e) \in Seq(Octet)
  BY PacketToBeType DEF TickWith, Types
<1>7. /\ fifo'[e] = IF pads.pend /\ pads.addr = e THEN Append(fifo[e], packet[e]) ELSE fifo[e]
      /\ packet'[e] = IF pads.pend /\ pads.addr = e THEN <<>> ELSE PacketToBe(e)
  BY <1>6, FX2Obeys
<1>8. FlattenSeq(fifo[e]) \in Seq(Octet)
  BY <1>6, FlattenType
<1>9. /\ FlattenSeq(fifo'[e]) \o packet'[e] = Run(e, got[e], sent[e])
      /\ FlattenSeq(fifo'[e]) \in Seq(Octet) /\ packet'[e] \in Seq(Octet)
  <2>1. CASE pads.pend /\ pads.addr = e
    <3>1. PacketToBe(e) = packet[e]
      BY <2>1 DEF BusFits, PacketToBe
    <3>2. FlattenSeq(fifo'[e]) = FlattenSeq(fifo[e]) \o packet[e]
      BY ZenonT(30), SMTT(30), <1>6, <1>7, <2>1, FlattenAppend
    <3>3. FlattenSeq(fifo'[e]) \in Seq(Octet)
      BY <1>6, <1>8, <3>2, ConcatProperties
    <3>4. FlattenSeq(fifo'[e]) \o <<>> = FlattenSeq(fifo'[e])
      BY <3>3, ConcatEmptySeq
    <3>5. packet'[e] = <<>> /\ <<>> \in Seq(Octet)
      BY <1>7, <2>1
    <3> QED BY <1>5, <3>1, <3>2, <3>3, <3>4, <3>5
  <2>2. CASE ~(pads.pend /\ pads.addr = e)
    BY <1>5, <1>6, <1>7, <1>8, <2>2
  <2> QED BY <2>1, <2>2
<1>10. CASE slwr /\ e = addr
  <2>1. sent[e] \in Nat /\ got[e] \in Nat /\ got[e] <= sent[e] /\ Byte(e, sent[e] + 1) \in Octet
    BY <1>1, <1>4, <1>10, RunFits, NextByteType
  <2>2. PacketToBe(e)' = Append(packet'[e], Byte(e, sent[e] + 1))
    BY <1>4, <1>10 DEF PacketToBe
  <2> DEFINE Fits(x, p, g, s) == x \o Append(p, Byte(e, s + 1)) = Run(e, g, s + 1)
  <2> SUFFICES Fits(FlattenSeq(fifo'[e]), packet'[e], got[e], sent[e])
    BY <1>2, <1>3, <1>5, <1>10, <2>2
  <2> HIDE DEF Fits
  <2> SUFFICES ASSUME NEW x, x = FlattenSeq(fifo'[e]), NEW p, p = packet'[e],
                      NEW g, g = got[e], NEW s, s = sent[e]
               PROVE  Fits(x, p, g, s)
    OBVIOUS
  <2>3. /\ x \in Seq(Octet) /\ p \in Seq(Octet) /\ g \in Nat /\ s \in Nat /\ g <= s
        /\ x \o p = Run(e, g, s) /\ Byte(e, s + 1) \in Octet
    BY <1>9, <2>1
  <2>4. <<Byte(e, s + 1)>> = Run(e, s, s + 1)
    BY ONLY <2>3, RunOfOne
  <2>5. Append(p, Byte(e, s + 1)) = p \o <<Byte(e, s + 1)>>
    BY ONLY <2>3, AppendIsConcat
  <2>6. (x \o p) \o <<Byte(e, s + 1)>> = x \o (p \o <<Byte(e, s + 1)>>)
    <3> SUFFICES ASSUME NEW b, b = <<Byte(e, s + 1)>> PROVE (x \o p) \o b = x \o (p \o b)
      OBVIOUS
    <3>1. x \in Seq(Octet) /\ p \in Seq(Octet) /\ b \in Seq(Octet)
      BY <2>3
    <3> QED BY ONLY <3>1, Associative
  <2>7. Run(e, g, s) \o Run(e, s, s + 1) = Run(e, g, s + 1)
    <3> SUFFICES ASSUME NEW t, t = s + 1 PROVE Run(e, g, s) \o Run(e, s, t) = Run(e, g, t)
      OBVIOUS
    <3>1. g \in Nat /\ s \in Nat /\ t \in Nat /\ g <= s /\ s <= t
      BY <2>3
    <3> QED BY ONLY <3>1, RunJoins
  <2> QED BY <2>3, <2>4, <2>5, <2>6, <2>7 DEF Fits
<1>11. CASE ~(slwr /\ e = addr)
  <2>1. PacketToBe(e)' = packet'[e]
    BY <1>4, <1>11 DEF PacketToBe
  <2> QED BY <1>2, <1>3, <1>5, <1>9, <1>11, <2>1
<1> QED BY <1>10, <1>11

LEMMA TickKeeps ==
    ASSUME IInv, Tick
    PROVE  IInv'
<1>1. PICK flush \in SUBSET (used \cap Ins), slrd \in BOOLEAN, slwr \in BOOLEAN, pend \in BOOLEAN :
         TickWith(flush, slrd, slwr, pend)
  BY TickStrobes
<1>2. Types /\ BusFits /\ RoomFits /\ LevelFits /\ CountFits /\ ResetQuiet /\ Purged
      /\ SkidFits /\ PendFits /\ ZlpAfterFull /\ FlowFits
  BY DEF IInv
<1>3. Types' /\ BusFits' /\ RoomFits' /\ LevelFits' /\ CountFits'
  BY <1>1, <1>2, TickTypes, TickBus, TickRoom, TickLevel, TickCount
<1>4. ResetQuiet' /\ Purged' /\ SkidFits' /\ PendFits' /\ ZlpAfterFull'
  BY <1>1, <1>2, TickResetQuiet, TickPurged, TickSkid, TickPend, TickZlp
<1>5. FlowFits'
  <2>1. used' = used /\ reset' = reset
    BY <1>1 DEF TickWith
  <2>2. ASSUME NEW e \in Running PROVE Stream(e)' = Run(e, got'[e], sent'[e])
    <3>1. e \in Outs \/ e \in Ins
      BY <1>2, UsedEnds DEF Running
    <3> QED BY <1>1, <1>2, <2>2, <3>1, FlowOut, FlowIn
  <2> QED BY <2>1, <2>2 DEF FlowFits, Running
<1> QED BY <1>3, <1>4, <1>5 DEF IInv
--------------------------------------------------------------------------------
(* The application, the host and the firmware *)

(* What only the gateware changes. *)
Still ==
    /\ used' = used /\ fsm' = fsm /\ addr' = addr /\ pads' = pads /\ addr_p' = addr_p /\ slrd_p' = slrd_p
    /\ nrdy_o' = nrdy_o /\ flag' = flag /\ data' = data /\ queued' = queued /\ pending' = pending
    /\ timer' = timer /\ skid' = skid /\ valid' = valid

LEMMA StillKeeps ==
    ASSUME Still
    PROVE  /\ BusFits => BusFits'
           /\ SkidFits => SkidFits'
           /\ \A e : Drives(e)' <=> Drives(e)
           /\ \A e : Quiet(e)' <=> Quiet(e)
           /\ \A e : packet'[e] = packet[e] => PacketToBe(e)' = PacketToBe(e)
           /\ \A e : Arrives(e, Written)' = Arrives(e, Written)
           /\ \A e : fifo'[e] = fifo[e] /\ packet'[e] = packet[e] => Stream(e)' = Stream(e)
<1>1. BusFits => BusFits'
  BY DEF Still, BusFits
<1>2. SkidFits => SkidFits'
  BY DEF Still, SkidFits
<1>3. \A e : (Drives(e)' <=> Drives(e)) /\ (Quiet(e)' <=> Quiet(e))
  BY DEF Still, Drives, Quiet
<1>4. ASSUME NEW e, packet'[e] = packet[e] PROVE PacketToBe(e)' = PacketToBe(e)
  BY <1>4 DEF Still, PacketToBe
<1>5. Written' = Written
  BY DEF Still, Written
<1>6. \A e : Arrives(e, Written)' = Arrives(e, Written)
  BY <1>5 DEF Still, Arrives
<1>7. ASSUME NEW e, fifo'[e] = fifo[e], packet'[e] = packet[e] PROVE Stream(e)' = Stream(e)
  BY <1>4, <1>6, <1>7 DEF Still, Stream
<1> QED BY <1>1, <1>2, <1>3, <1>4, <1>6, <1>7

LEMMA DrainKeeps ==
    ASSUME IInv, NEW e \in used \cap Outs, Drain(e)
    PROVE  IInv'
<1>1. /\ Still /\ room' = room \cup {e}
      /\ reset' = reset /\ age' = age /\ resets' = resets
      /\ fifo' = fifo /\ packet' = packet /\ sent' = sent /\ got' = got /\ lastFull' = lastFull
  BY DEF Drain, Still, busVars, inVars, fx2Vars, envVars
<1>2. Types /\ BusFits /\ RoomFits /\ LevelFits /\ CountFits /\ ResetQuiet /\ Purged
      /\ SkidFits /\ PendFits /\ ZlpAfterFull /\ FlowFits
  BY DEF IInv
<1>3. Types'
  BY <1>1, <1>2 DEF Types, Still
<1>4. RoomFits' /\ CountFits' /\ ZlpAfterFull' /\ Purged'
  BY <1>1, <1>2 DEF RoomFits, NotFull, Drives, CountFits, ZlpAfterFull, Running, Purged, Still
<1>5. LevelFits' /\ ResetQuiet' /\ PendFits'
  BY <1>1, <1>2 DEF LevelFits, ResetQuiet, PendFits, Exact, Quiet, PacketToBe, PrevFull, InReset, Drives,
                    Running, Still
<1>6. FlowFits'
  <2>1. \A i : Stream(i)' = Stream(i)
    BY <1>1, StillKeeps
  <2> QED BY <1>1, <1>2, <2>1 DEF FlowFits, Running, Still
<1> QED BY <1>1, <1>2, <1>3, <1>4, <1>5, <1>6, StillKeeps DEF IInv

LEMMA SetResetKeeps ==
    ASSUME IInv, NEW e \in used, SetReset(e)
    PROVE  IInv'
<1>1. /\ Still /\ room' = room
      /\ reset[e] = "run" /\ reset' = [reset EXCEPT ![e] = "set"] /\ age' = 0
      /\ resets' = resets + 1 /\ resets < MaxResets
      /\ fifo' = fifo /\ packet' = packet /\ sent' = sent /\ got' = got /\ lastFull' = lastFull
  BY DEF SetReset, FirmwareStep, Still, gateVars, busVars, inVars, fx2Vars, envVars
<1>2. Types /\ BusFits /\ RoomFits /\ LevelFits /\ CountFits /\ ResetQuiet /\ Purged
      /\ SkidFits /\ PendFits /\ ZlpAfterFull /\ FlowFits
  BY DEF IInv
<1>3. /\ \A i \in used : reset'[i] = IF i = e THEN "set" ELSE reset[i]
      /\ \A i : i \in Running' => i \in Running
      /\ \A i : InReset(i) => InReset(i)'
      /\ \A i : InReset(i)' => reset'[i] = "set" \/ (InReset(i) /\ reset'[i] = reset[i])
  BY <1>1, <1>2 DEF Types, Running, InReset, Still
<1>4. Types'
  BY <1>1, <1>2, CrossbarAssumption DEF Types, Still
<1>5. RoomFits' /\ CountFits'
  BY <1>1, <1>2 DEF RoomFits, NotFull, Drives, CountFits, Still
<1>6. Purged' /\ ZlpAfterFull'
  BY <1>1, <1>2, <1>3 DEF Purged, ZlpAfterFull, Still
<1>7. LevelFits'
  BY <1>1, <1>2, <1>3 DEF LevelFits, Exact, Quiet, PacketToBe, Still
<1>8. ResetQuiet'
  BY <1>1, <1>2, <1>3 DEF ResetQuiet, Quiet, Drives, Still
<1>9. PendFits'
  BY <1>1, <1>2, <1>3 DEF PendFits, PacketToBe, PrevFull, Still
<1>10. FlowFits'
  <2>1. \A i : Stream(i)' = Stream(i)
    BY <1>1, StillKeeps
  <2> QED BY <1>1, <1>2, <1>3, <2>1 DEF FlowFits
<1> QED BY <1>1, <1>2, <1>4, <1>5, <1>6, <1>7, <1>8, <1>9, <1>10, StillKeeps DEF IInv

LEMMA ResetFifoKeeps ==
    ASSUME IInv, NEW e \in used, ResetFifo(e)
    PROVE  IInv'
<1>1. /\ Still /\ room' = room /\ resets' = resets
      /\ reset[e] = "set" /\ reset' = [reset EXCEPT ![e] = "purged"] /\ age = Settle /\ age' = 0
      /\ fifo' = [fifo EXCEPT ![e] = <<>>]
      /\ packet' = [i \in Ins |-> IF i = e THEN <<>> ELSE packet[i]]
      /\ sent' = [sent EXCEPT ![e] = 0] /\ got' = [got EXCEPT ![e] = 0]
      /\ lastFull' = [i \in used \cap Ins |-> i # e /\ lastFull[i]]
  BY DEF ResetFifo, FirmwareStep, Still, gateVars, busVars, inVars
<1>2. Types /\ BusFits /\ RoomFits /\ LevelFits /\ CountFits /\ ResetQuiet /\ Purged
      /\ SkidFits /\ PendFits /\ ZlpAfterFull /\ FlowFits
  BY DEF IInv
<1>3. /\ \A i \in used : reset'[i] = IF i = e THEN "purged" ELSE reset[i]
      /\ \A i : i \in Running' <=> i \in Running
      /\ e \notin Running
      /\ \A i : InReset(i)' <=> InReset(i)
  BY <1>1, <1>2 DEF Types, Running, InReset, Still
<1>4. InReset(e) /\ e \in 0..3 /\ used \subseteq 0..3
  BY <1>1, <1>2, UsedEnds, Ends DEF InReset
<1>5. /\ \A i \in 0..3 : fifo'[i] = IF i = e THEN <<>> ELSE fifo[i]
      /\ \A i \in Ins : packet'[i] = IF i = e THEN <<>> ELSE packet[i]
      /\ \A i \in used : sent'[i] = IF i = e THEN 0 ELSE sent[i]
      /\ \A i \in used : got'[i] = IF i = e THEN 0 ELSE got[i]
  BY <1>1, <1>2 DEF Types
<1>6. ASSUME NEW i \in used \cap Ins PROVE IF i = e THEN ~lastFull'[i] ELSE lastFull'[i] = lastFull[i]
  <2>1. lastFull[i] \in BOOLEAN /\ lastFull'[i] = (i # e /\ lastFull[i])
    BY <1>1, <1>2 DEF Types
  <2> QED BY <2>1
<1>7. e \in Ins => Quiet(e) /\ ~Drives(e)
  <2>1. age >= 1 /\ age >= 2
    BY <1>1, CrossbarAssumption
  <2> QED BY <1>2, <1>4, <2>1 DEF ResetQuiet
<1>8. /\ \A i : Drives(i)' <=> Drives(i)
      /\ \A i : Quiet(i)' <=> Quiet(i)
      /\ \A i \in Ins : i # e => PacketToBe(i)' = PacketToBe(i)
      /\ \A i \in used : i # e => Stream(i)' = Stream(i)
  <2>1. \A i \in Ins : i # e => packet'[i] = packet[i]
    BY <1>5
  <2>2. ASSUME NEW i \in used, i # e PROVE Stream(i)' = Stream(i)
    <3>1. fifo'[i] = fifo[i]
      BY <1>4, <1>5, <2>2
    <3>2. CASE i \in Ins
      BY <1>1, <2>1, <2>2, <3>1, <3>2, StillKeeps
    <3>3. CASE i \in Outs
      <4>1. Arrives(i, Written)' = Arrives(i, Written) /\ skid' = skid
        BY <1>1, StillKeeps DEF Still
      <4> QED BY <3>1, <3>3, <4>1 DEF Stream
    <3> QED BY <1>2, <3>2, <3>3, UsedEnds
  <2> QED BY <1>1, <2>1, <2>2, StillKeeps
<1>9. Types'
  <2>1. DOMAIN fifo' = 0..3 /\ DOMAIN sent' = used /\ DOMAIN got' = used /\ DOMAIN packet' = Ins
    BY <1>1, <1>2 DEF Types
  <2>2. lastFull' \in [used \cap Ins -> BOOLEAN]
    BY <1>1
  <2>3. reset' \in [used -> {"run", "set", "purged"}] /\ age' \in 0..Settle
    BY <1>1, <1>2, CrossbarAssumption DEF Types
  <2>4. ASSUME NEW i \in Ins PROVE fifo'[i] \in Seq(Seq(Octet)) /\ packet'[i] \in Seq(Octet)
    <3>1. <<>> \in Seq(Seq(Octet)) /\ <<>> \in Seq(Octet)
      OBVIOUS
    <3> QED BY <1>2, <1>5, <3>1, Ends DEF Types
  <2>5. ASSUME NEW i \in Outs PROVE fifo'[i] \in Seq(OutOctet)
    <3>1. <<>> \in Seq(OutOctet)
      OBVIOUS
    <3> QED BY <1>2, <1>5, <3>1, Ends DEF Types
  <2> QED BY <1>1, <1>2, <2>1, <2>2, <2>3, <2>4, <2>5 DEF Types, Still
<1>10. RoomFits'
  <2>1. Len(<<>>) = 0 /\ Buffers \in Nat \ {0}
    BY CrossbarAssumption
  <2>2. \A i \in Ins : /\ NotFull(i) => NotFull(i)'
                       /\ Len(fifo'[i]) <= Buffers
    BY <1>2, <1>5, <2>1, Ends DEF NotFull, RoomFits
  <2>3. ASSUME fsm \in {"DRIVE", "SETUP", "IN-XFER"}, addr \in Ins
        PROVE  Len(fifo'[addr]) < Buffers /\ ~(pads.pend /\ pads.addr = addr)
    BY <1>2, <2>2, <2>3 DEF RoomFits, NotFull
  <2> QED BY <1>1, <1>2, <1>8, <2>2, <2>3 DEF RoomFits, NotFull, Still
<1>11. LevelFits'
  <2>1. ASSUME NEW i \in Ins PROVE (Exact(i) \/ (InReset(i) /\ Quiet(i)))' /\ Len(PacketToBe(i)') <= PacketSize
    <3>1. CASE i = e
      <4>1. PacketToBe(i)' = <<>>
        BY <1>1, <1>5, <1>7, <3>1 DEF PacketToBe, Drives, Still
      <4> QED BY <1>3, <1>4, <1>7, <1>8, <3>1, <4>1, CrossbarAssumption
    <3>2. CASE i # e
      <4>1. PacketToBe(i)' = PacketToBe(i) /\ pads' = pads /\ queued' = queued
        BY <1>1, <1>8, <3>2 DEF Still
      <4> QED BY <1>2, <1>3, <1>8, <4>1 DEF LevelFits, Exact
    <3> QED BY <3>1, <3>2
  <2> QED BY <2>1 DEF LevelFits
<1>12. CountFits'
  <2>1. e \notin valid
    BY <1>2, <1>7 DEF Quiet, Types
  <2>2. \A i \in used : MaxBytes[i] \in Nat
    BY <1>4, MaxNat
  <2> QED BY <1>1, <1>2, <1>5, <2>1, <2>2 DEF CountFits, Still
<1>13. ResetQuiet'
  <2>1. ~(age' >= 1) /\ ~(age' >= 2)
    BY <1>1
  <2>2. ASSUME NEW i \in Ins, InReset(i)', reset'[i] = "purged" PROVE Quiet(i)' /\ ~Drives(i)'
    <3>1. i \in used
      BY <1>1, <2>2 DEF InReset, Still
    <3>2. CASE i = e
      BY <1>7, <1>8, <3>2
    <3>3. CASE i # e
      BY <1>2, <1>3, <1>8, <2>2, <3>1, <3>3 DEF ResetQuiet
    <3> QED BY <3>2, <3>3
  <2> QED BY <2>1, <2>2 DEF ResetQuiet
<1>14. Purged'
  <2>1. ASSUME NEW i \in used, reset'[i] = "purged"
        PROVE  /\ sent'[i] = 0 /\ got'[i] = 0 /\ fifo'[i] = <<>>
               /\ i \in Ins => packet'[i] = <<>> /\ ~lastFull'[i]
    <3>1. CASE i = e
      BY <1>4, <1>5, <1>6, <3>1
    <3>2. CASE i # e
      <4>1. reset[i] = "purged" /\ fifo'[i] = fifo[i] /\ sent'[i] = sent[i] /\ got'[i] = got[i]
        BY <1>3, <1>4, <1>5, <2>1, <3>2
      <4>2. i \in Ins => packet'[i] = packet[i] /\ lastFull'[i] = lastFull[i]
        BY <1>5, <1>6, <3>2
      <4> QED BY <1>2, <4>1, <4>2 DEF Purged
    <3> QED BY <3>1, <3>2
  <2>2. used' = used /\ ~(age' >= 1)
    BY <1>1 DEF Still
  <2> QED BY <2>1, <2>2 DEF Purged
<1>15. ASSUME NEW i \in Running'
       PROVE  /\ i \in Running /\ i # e /\ i \in used /\ fifo'[i] = fifo[i]
              /\ sent'[i] = sent[i] /\ got'[i] = got[i]
              /\ i \in Ins => packet'[i] = packet[i] /\ lastFull'[i] = lastFull[i]
                              /\ PacketToBe(i)' = PacketToBe(i)
  <2>1. i \in Running /\ i # e /\ i \in used
    BY <1>3, <1>15 DEF Running
  <2> QED BY <1>4, <1>5, <1>6, <1>8, <2>1
<1>16. PendFits'
  <2>1. pads' = pads /\ queued' = queued /\ pending' = pending
    BY <1>1 DEF Still
  <2> QED BY <1>2, <1>15, <2>1 DEF PendFits, PrevFull
<1>17. ZlpAfterFull'
  BY <1>2, <1>15 DEF ZlpAfterFull
<1>18. FlowFits'
  BY <1>2, <1>8, <1>15 DEF FlowFits
<1> QED BY <1>1, <1>2, <1>9, <1>10, <1>11, <1>12, <1>13, <1>14, <1>16, <1>17, <1>18, StillKeeps DEF IInv
LEMMA RunOfNone ==
    ASSUME NEW e, NEW g \in Nat
    PROVE  Run(e, g, g) = <<>>
<1>1. Len(Run(e, g, g)) = g - g /\ g - g = 0
  BY RunLength
<1>2. \A n \in 1..g : Byte(e, n) \in {Byte(e, i) : i \in 1..g}
  OBVIOUS
<1>3. Run(e, g, g) \in Seq({Byte(e, i) : i \in 1..g})
  <2> SUFFICES ASSUME NEW S, \A n \in 1..g : Byte(e, n) \in S PROVE Run(e, g, g) \in Seq(S)
    BY <1>2
  <2>1. g <= g
    OBVIOUS
  <2> QED BY <2>1, RunType
<1> QED BY <1>1, <1>3, EmptySeq

LEMMA ClearResetKeeps ==
    ASSUME IInv, NEW e \in used, ClearReset(e)
    PROVE  IInv'
<1>1. /\ Still /\ room' = room /\ resets' = resets
      /\ reset[e] = "purged" /\ reset' = [reset EXCEPT ![e] = "run"] /\ age = Settle /\ age' = Settle
      /\ fifo' = fifo /\ packet' = packet /\ sent' = sent /\ got' = got /\ lastFull' = lastFull
  BY DEF ClearReset, FirmwareStep, Still, gateVars, busVars, inVars, fx2Vars, envVars
<1>2. Types /\ BusFits /\ RoomFits /\ LevelFits /\ CountFits /\ ResetQuiet /\ Purged
      /\ SkidFits /\ PendFits /\ ZlpAfterFull /\ FlowFits
  BY DEF IInv
<1>3. /\ \A i \in used : reset'[i] = IF i = e THEN "run" ELSE reset[i]
      /\ \A i : i \in Running' <=> i \in Running \/ i = e
      /\ \A i : InReset(i)' <=> InReset(i) /\ i # e
      /\ InReset(e)
  BY <1>1, <1>2 DEF Types, Running, InReset, Still
<1>4. age' = age /\ age >= 1
  BY <1>1, CrossbarAssumption
<1>5. /\ sent[e] = 0 /\ got[e] = 0 /\ fifo[e] = <<>>
      /\ e \in Ins => packet[e] = <<>> /\ ~lastFull[e] /\ Quiet(e) /\ ~Drives(e)
      /\ e \in Outs => e \notin flag /\ skid[e] = <<>>
  BY <1>1, <1>2, <1>3, <1>4 DEF Purged, ResetQuiet
<1>6. e \in Ins => PacketToBe(e) = <<>> /\ Exact(e)
  <2>1. Len(<<>>) = 0
    OBVIOUS
  <2> QED BY <1>5, <2>1 DEF PacketToBe, Drives, Quiet, Exact
<1>7. Types'
  BY <1>1, <1>2, CrossbarAssumption DEF Types, Still
<1>8. RoomFits' /\ CountFits'
  BY <1>1, <1>2 DEF RoomFits, NotFull, Drives, CountFits, Still
<1>9. Purged'
  BY <1>1, <1>2, <1>3, <1>4 DEF Purged, Still
<1>10. ResetQuiet'
  <2>1. ASSUME NEW i \in Ins, InReset(i)'
        PROVE  InReset(i) /\ reset'[i] = reset[i]
    BY <1>1, <1>3, <2>1 DEF InReset, Still
  <2> QED BY <1>1, <1>2, <1>4, <2>1, StillKeeps DEF ResetQuiet
<1>11. \A i : Stream(i)' = Stream(i) /\ PacketToBe(i)' = PacketToBe(i)
  BY <1>1, StillKeeps
<1>12. pads' = pads /\ queued' = queued /\ pending' = pending /\ used' = used
  BY <1>1 DEF Still
<1>13. LevelFits'
  <2>1. \A i : Exact(i)' <=> Exact(i)
    BY <1>11, <1>12 DEF Exact
  <2>2. \A i : Quiet(i)' <=> Quiet(i)
    BY <1>1, StillKeeps
  <2> QED BY <1>2, <1>3, <1>6, <1>11, <2>1, <2>2 DEF LevelFits
<1>14. PendFits'
  <2>1. ASSUME NEW i \in Ins, i \in Running'
        PROVE  /\ queued[i] > 0 => pending[i]
               /\ pads.pend /\ pads.addr = i =>
                     /\ packet[i] = <<>> => PrevFull(i)
                     /\ pending[i] => Len(packet[i]) = PacketSize
               /\ pending[i] /\ ~(pads.pend /\ pads.addr = i) /\ PacketToBe(i) = <<>> => PrevFull(i)
    <3>1. CASE i = e
      BY <1>5, <2>1, <3>1 DEF Quiet, Drives
    <3>2. CASE i # e
      BY <1>2, <1>3, <2>1, <3>2 DEF PendFits
    <3> QED BY <3>1, <3>2
  <2>2. \A i : PrevFull(i)' <=> PrevFull(i)
    BY <1>1 DEF PrevFull
  <2> QED BY <1>1, <1>11, <1>12, <2>1, <2>2 DEF PendFits
<1>15. ZlpAfterFull'
  <2>1. 1..Len(fifo[e]) = {}
    BY <1>5
  <2> QED BY <1>1, <1>2, <1>3, <2>1 DEF ZlpAfterFull
<1>16. FlowFits'
  <2>1. Stream(e) = <<>>
    <3>1. CASE e \in Ins
      <4>0. e \notin Outs
        BY <3>1, Ends
      <4>1. Stream(e) = FlattenSeq(<<>>) \o <<>>
        BY <1>5, <1>6, <3>1, <4>0 DEF Stream
      <4>2. <<>> \o <<>> = <<>>
        OBVIOUS
      <4> QED BY <4>1, <4>2, FlattenEmpty
    <3>2. CASE e \in Outs
      <4>1. Arrives(e, Written) = <<>>
        BY <1>2, <1>5, <3>2, WrittenIs DEF Arrives
      <4>2. Stream(e) = (<<>> \o <<>>) \o <<>>
        BY <1>5, <3>2, <4>1 DEF Stream
      <4>3. (<<>> \o <<>>) \o <<>> = <<>>
        OBVIOUS
      <4> QED BY <4>2, <4>3
    <3> QED BY <1>2, <3>1, <3>2, UsedEnds
  <2>2. Stream(e) = Run(e, got[e], sent[e])
    <3>1. Run(e, 0, 0) = <<>>
      BY RunOfNone
    <3> QED BY <1>5, <2>1, <3>1
  <2> QED BY <1>1, <1>2, <1>3, <1>11, <2>2 DEF FlowFits
<1> QED BY <1>1, <1>2, <1>7, <1>8, <1>9, <1>10, <1>13, <1>14, <1>15, <1>16, StillKeeps DEF IInv

LEMMA HostSendsKeeps ==
    ASSUME IInv, NEW e \in used \cap Outs, HostSends(e)
    PROVE  IInv'
<1>1. PICK n \in 1..PacketSize :
         /\ sent[e] + n <= MaxBytes[e]
         /\ fifo' = [fifo EXCEPT ![e] = @ \o [i \in 1..n |-> Byte(e, sent[e] + i)]]
         /\ sent' = [sent EXCEPT ![e] = @ + n]
  BY DEF HostSends
<1>2. /\ Still /\ room' = room /\ resets' = resets /\ age' = age
      /\ reset[e] = "run" /\ reset' = reset
      /\ packet' = packet /\ got' = got /\ lastFull' = lastFull
  BY DEF HostSends, Still, gateVars, busVars, inVars
<1>3. Types /\ BusFits /\ RoomFits /\ LevelFits /\ CountFits /\ ResetQuiet /\ Purged
      /\ SkidFits /\ PendFits /\ ZlpAfterFull /\ FlowFits
  BY DEF IInv
<1>4. e \in Outs /\ e \notin Ins /\ e \in 0..3 /\ e \in used /\ n \in Nat /\ e \in Running
  BY <1>2, Ends, CrossbarAssumption DEF Running
<1>5. /\ sent[e] \in Nat /\ got[e] \in Nat /\ got[e] <= sent[e] /\ MaxBytes[e] \in Nat
  BY <1>3, <1>4, RunFits
<1>6. [i \in 1..n |-> Byte(e, sent[e] + i)] = Run(e, sent[e], sent[e] + n)
  <2>1. (sent[e] + n) - sent[e] = n
    BY <1>4, <1>5
  <2> QED BY <2>1 DEF Run
<1>7. /\ \A i \in 0..3 : i # e => fifo'[i] = fifo[i]
      /\ \A i \in used : sent'[i] = IF i = e THEN sent[e] + n ELSE sent[i]
      /\ fifo'[e] = fifo[e] \o Run(e, sent[e], sent[e] + n)
  BY <1>1, <1>3, <1>4, <1>6 DEF Types
<1>8. Run(e, sent[e], sent[e] + n) \in Seq(OutOctet)
  <2>1. ASSUME NEW i \in 1..(sent[e] + n) PROVE Byte(e, i) \in OutOctet
    <3>1. i \in 0..MaxBytes[e]
      BY <1>1, <1>4, <1>5
    <3> QED BY <1>4, <3>1, ByteType DEF OutOctet
  <2> DEFINE s == sent[e]
             t == sent[e] + n
  <2>2. s \in Nat /\ t \in Nat /\ s <= t /\ \A i \in 1..t : Byte(e, i) \in OutOctet
    BY <1>4, <1>5, <2>1
  <2> HIDE DEF s, t
  <2>3. Run(e, s, t) \in Seq(OutOctet)
    BY ONLY <2>2, RunType
  <2> QED BY <2>3 DEF s, t
<1>9. fifo[e] \in Seq(OutOctet) /\ fifo'[e] \in Seq(OutOctet)
  <2>1. fifo[e] \in Seq(OutOctet)
    BY <1>3, <1>4 DEF Types
  <2> QED BY <1>7, <1>8, <2>1, ConcatProperties
<1>10. Types'
  <2>1. DOMAIN fifo' = 0..3 /\ DOMAIN sent' = used
    BY <1>1, <1>3 DEF Types
  <2>2. \A i \in Ins : fifo'[i] = fifo[i]
    BY <1>4, <1>7, Ends
  <2>3. \A i \in Outs : fifo'[i] \in Seq(OutOctet)
    BY <1>3, <1>7, <1>9, Ends DEF Types
  <2> QED BY <1>2, <1>3, <2>1, <2>2, <2>3 DEF Types, Still
<1>11. \A i \in Ins : fifo'[i] = fifo[i]
  BY <1>4, <1>7, Ends
<1>12. RoomFits'
  BY <1>2, <1>3, <1>11 DEF RoomFits, NotFull, Drives, Still
<1>13. LevelFits' /\ ResetQuiet'
  BY <1>2, <1>3 DEF LevelFits, Exact, ResetQuiet, Quiet, Drives, InReset, PacketToBe, Still
<1>14. CountFits'
  <2>1. ASSUME NEW i \in used PROVE sent'[i] \in 0..MaxBytes[i] /\ got'[i] \in 0..sent'[i]
    BY <1>1, <1>2, <1>3, <1>4, <1>5, <1>7 DEF CountFits
  <2>2. ASSUME NEW i \in valid PROVE i \in used /\ sent'[i] < MaxBytes[i]
    <3>1. i # e /\ i \in used /\ sent[i] < MaxBytes[i]
      BY <1>3, <1>4 DEF CountFits, Types
    <3> QED BY <1>7, <3>1
  <2> QED BY <1>2, <2>1, <2>2 DEF CountFits, Still
<1>15. Purged'
  <2>1. ASSUME NEW i \in used, reset[i] = "purged" PROVE i # e /\ fifo'[i] = fifo[i] /\ sent'[i] = sent[i]
    <3>1. i # e /\ i \in 0..3
      BY <1>2, <1>3, <2>1, UsedEnds, Ends
    <3> QED BY <1>7, <3>1
  <2> QED BY <1>2, <1>3, <2>1 DEF Purged, Still
<1>16. PendFits' /\ ZlpAfterFull'
  BY <1>2, <1>3, <1>11 DEF PendFits, ZlpAfterFull, PrevFull, PacketToBe, Running, Still
<1>17. FlowFits'
  <2>1. ASSUME NEW i \in Running, i # e PROVE Stream(i)' = Run(i, got'[i], sent'[i])
    <3>1. i \in used /\ i \in 0..3
      BY <1>3, UsedEnds, Ends DEF Running
    <3>2. fifo'[i] = fifo[i] /\ sent'[i] = sent[i] /\ packet'[i] = packet[i]
      BY <1>2, <1>7, <2>1, <3>1
    <3>3. Stream(i)' = Stream(i)
      BY <1>2, <3>2, StillKeeps
    <3> QED BY <1>2, <1>3, <3>2, <3>3 DEF FlowFits
  <2>2. Stream(e)' = Run(e, got'[e], sent'[e])
    <3> DEFINE x == skid[e] \o Arrives(e, Written)
               f == fifo[e]
               g == got[e]
               s == sent[e]
               t == sent[e] + n
    <3>1. Stream(e)' = x \o (f \o Run(e, s, t))
      <4>1. Arrives(e, Written)' = Arrives(e, Written) /\ skid' = skid
        BY <1>2, StillKeeps DEF Still
      <4> QED BY <1>4, <1>7, <4>1 DEF Stream
    <3>2. x \o f = Run(e, g, s)
      BY <1>3, <1>4 DEF FlowFits, Stream
    <3>3. x \in Seq(OutOctet) /\ f \in Seq(OutOctet) /\ Run(e, s, t) \in Seq(OutOctet)
      BY <1>3, <1>4, <1>8, <1>9, SkidTypes, ConcatProperties
    <3>4. g \in Nat /\ s \in Nat /\ t \in Nat /\ g <= s /\ s <= t /\ got'[e] = g /\ sent'[e] = t
      BY <1>2, <1>4, <1>5, <1>7
    <3> HIDE DEF x, f, g, s, t
    <3>5. (x \o f) \o Run(e, s, t) = x \o (f \o Run(e, s, t))
      BY ONLY <3>3, Associative
    <3>6. Run(e, g, s) \o Run(e, s, t) = Run(e, g, t)
      BY ONLY ZenonT(30), SMTT(30), <3>4, RunJoins
    <3> QED BY <3>1, <3>2, <3>4, <3>5, <3>6
  <2> QED BY <1>2, <2>1, <2>2 DEF FlowFits, Running, Still
<1> QED BY <1>2, <1>3, <1>10, <1>12, <1>13, <1>14, <1>15, <1>16, <1>17, StillKeeps DEF IInv
(* The packet before the one that is being written, and the packets of     *)
(* zero length, when the first packet leaves.                              *)
LEMMA ZlpsTail ==
    ASSUME NEW S, NEW x \in Seq(S), x # <<>>, NEW last, ZlpsFit(x, last)
    PROVE  /\ ZlpsFit(Tail(x), Len(Head(x)) = PacketSize)
           /\ Tail(x) = <<>> => Head(x) = x[Len(x)]
           /\ Tail(x) # <<>> => Tail(x)[Len(Tail(x))] = x[Len(x)]
<1> SUFFICES ASSUME NEW y, y = Tail(x), NEW n, n = Len(y)
             PROVE  /\ ZlpsFit(y, Len(Head(x)) = PacketSize)
                    /\ y = <<>> => Head(x) = x[Len(x)]
                    /\ y # <<>> => y[Len(y)] = x[Len(x)]
  OBVIOUS
<1>1. /\ Len(x) \in Nat /\ n = Len(x) - 1 /\ Len(x) >= 1 /\ Head(x) = x[1]
      /\ \A i \in 1..n : y[i] = x[i + 1]
  BY HeadTailProperties, LenProperties, EmptySeq
<1>2. y \in Seq(S)
  BY HeadTailProperties
<1>3. y = <<>> <=> n = 0
  BY <1>2, EmptySeq
<1>4. ASSUME NEW i \in 1..n, y[i] = <<>>
      PROVE  IF i = 1 THEN Len(Head(x)) = PacketSize ELSE Len(y[i - 1]) = PacketSize
  <2>1. i + 1 \in 1..Len(x) /\ i + 1 # 1 /\ (i + 1) - 1 = i /\ x[i + 1] = <<>>
    BY <1>1, <1>4
  <2>2. Len(x[i]) = PacketSize
    BY <2>1 DEF ZlpsFit
  <2>3. i # 1 => i - 1 \in 1..n /\ (i - 1) + 1 = i
    BY <1>1
  <2>4. i # 1 => y[i - 1] = x[i]
    BY <1>1, <2>3
  <2> QED BY <1>1, <2>2, <2>4
<1>5. n # 0 => n \in 1..n /\ n + 1 = Len(x)
  BY <1>1
<1> QED BY <1>1, <1>3, <1>4, <1>5 DEF ZlpsFit

LEMMA HostTakesKeeps ==
    ASSUME IInv, NEW e \in used \cap Ins, HostTakes(e)
    PROVE  IInv'
<1>1. /\ Still /\ room' = room /\ resets' = resets /\ age' = age
      /\ reset[e] = "run" /\ reset' = reset /\ fifo[e] # <<>>
      /\ packet' = packet /\ sent' = sent
      /\ fifo' = [fifo EXCEPT ![e] = Tail(@)]
      /\ got' = [got EXCEPT ![e] = @ + Len(Head(fifo[e]))]
      /\ lastFull' = [lastFull EXCEPT ![e] = Len(Head(fifo[e])) = PacketSize]
  BY DEF HostTakes, Still, gateVars, busVars, inVars
<1>2. Types /\ BusFits /\ RoomFits /\ LevelFits /\ CountFits /\ ResetQuiet /\ Purged
      /\ SkidFits /\ PendFits /\ ZlpAfterFull /\ FlowFits
  BY DEF IInv
<1>3. e \in Ins /\ e \notin Outs /\ e \in 0..3 /\ e \in used /\ e \in Running
  BY <1>1, Ends DEF Running
<1>4. /\ \A i \in 0..3 : fifo'[i] = IF i = e THEN Tail(fifo[e]) ELSE fifo[i]
      /\ \A i \in used : i # e => got'[i] = got[i]
      /\ got'[e] = got[e] + Len(Head(fifo[e]))
      /\ lastFull'[e] = (Len(Head(fifo[e])) = PacketSize)
      /\ \A i \in used \cap Ins : i # e => lastFull'[i] = lastFull[i]
  BY <1>1, <1>2, <1>3 DEF Types
<1>5. fifo[e] \in Seq(Seq(Octet)) /\ PacketToBe(e) \in Seq(Octet)
  BY <1>2, <1>3, PacketToBeType DEF Types
<1>6. /\ Head(fifo[e]) \in Seq(Octet) /\ Tail(fifo[e]) \in Seq(Seq(Octet))
      /\ Len(Tail(fifo[e])) = Len(fifo[e]) - 1 /\ Len(fifo[e]) \in Nat
  <2> SUFFICES ASSUME NEW x, x = fifo[e]
               PROVE  /\ Head(x) \in Seq(Octet) /\ Tail(x) \in Seq(Seq(Octet))
                      /\ Len(Tail(x)) = Len(x) - 1 /\ Len(x) \in Nat
    OBVIOUS
  <2>1. x \in Seq(Seq(Octet)) /\ x # <<>>
    BY <1>1, <1>5
  <2>2. Len(x) \in Nat
    BY ONLY <2>1, LenProperties
  <2>3. Head(x) \in Seq(Octet) /\ Tail(x) \in Seq(Seq(Octet)) /\ Len(Tail(x)) = Len(x) - 1
    BY ONLY <2>1, HeadTailProperties
  <2> QED BY <2>2, <2>3
<1>7. IsRun(Stream(e)', e, got'[e], sent[e])
  <2> DEFINE h == Head(fifo[e])
             f == FlattenSeq(Tail(fifo[e]))
             p == PacketToBe(e)
             x == Stream(e)
             y == Stream(e)'
  <2>1. x = FlattenSeq(fifo[e]) \o p
    BY <1>3 DEF Stream
  <2>2. FlattenSeq(fifo[e]) = h \o f
    BY <1>1, <1>5, FlattenHead
  <2>3. y = f \o p
    <3>1. PacketToBe(e)' = p
      BY <1>1, StillKeeps
    <3>2. fifo'[e] = Tail(fifo[e])
      BY <1>3, <1>4
    <3> QED BY <1>3, <3>1, <3>2 DEF Stream
  <2>4. h \in Seq(Octet) /\ f \in Seq(Octet) /\ p \in Seq(Octet)
    BY <1>5, <1>6, FlattenType
  <2>5. IsRun(x, e, got[e], sent[e])
    BY <1>2, <1>3, RunFits DEF IsRun, FlowFits
  <2>6. got'[e] = got[e] + Len(h)
    BY <1>4
  <2> HIDE DEF h, f, p, x, y
  <2>7. (h \o f) \o p = h \o (f \o p)
    BY ONLY <2>4, Associative
  <2>8. f \o p \in Seq(Octet)
    BY ONLY <2>4, ConcatProperties
  <2>9. Splits(Octet, x, h, y)
    BY <2>1, <2>2, <2>3, <2>4, <2>7, <2>8 DEF Splits
  <2>10. IsRun(y, e, got[e] + Len(h), sent[e])
    BY ONLY <2>5, <2>9, RunDrops
  <2> QED BY <2>6, <2>10 DEF y
<1>8. Types'
  <2>1. DOMAIN fifo' = 0..3 /\ DOMAIN got' = used /\ lastFull' \in [used \cap Ins -> BOOLEAN]
    BY <1>1, <1>2, <1>3 DEF Types
  <2>2. ASSUME NEW i \in Ins PROVE fifo'[i] \in Seq(Seq(Octet))
    BY <1>2, <1>4, <1>6, Ends DEF Types
  <2>3. ASSUME NEW i \in Outs PROVE fifo'[i] \in Seq(OutOctet)
    <3>1. fifo'[i] = fifo[i]
      BY <1>3, <1>4, Ends
    <3> QED BY <1>2, <3>1 DEF Types
  <2> QED BY <1>1, <1>2, <2>1, <2>2, <2>3 DEF Types, Still
<1>9. RoomFits'
  <2>1. \A i \in Ins : /\ NotFull(i) => NotFull(i)'
                       /\ Len(fifo'[i]) <= Buffers
    <3>1. ASSUME NEW i \in Ins PROVE (NotFull(i) => NotFull(i)') /\ Len(fifo'[i]) <= Buffers
      <4>1. Buffers \in Nat /\ Len(fifo[i]) <= Buffers /\ i \in 0..3
        BY <1>2, CrossbarAssumption, Ends DEF RoomFits
      <4>2. CASE i = e
        <5>1. fifo'[i] = Tail(fifo[i]) /\ Len(Tail(fifo[i])) = Len(fifo[i]) - 1 /\ Len(fifo[i]) \in Nat
          BY <1>4, <1>6, <4>1, <4>2
        <5> SUFFICES ASSUME NEW m \in Nat, m = Len(fifo[i]), NEW k, k = Len(fifo'[i]), k = m - 1,
                            NEW b \in Nat, b = Buffers, m <= b
                     PROVE  (m < b => k < b) /\ k <= b
          BY <4>1, <5>1 DEF NotFull
        <5> QED OBVIOUS
      <4>3. CASE i # e
        BY <1>4, <4>1, <4>3 DEF NotFull
      <4> QED BY <4>2, <4>3
    <3> QED BY <3>1
  <2>2. ASSUME fsm \in {"DRIVE", "SETUP", "IN-XFER"}, addr \in Ins
        PROVE  Len(fifo'[addr]) < Buffers /\ ~(pads.pend /\ pads.addr = addr)
    BY <1>2, <2>1, <2>2 DEF RoomFits, NotFull
  <2> QED BY <1>1, <1>2, <2>1, <2>2 DEF RoomFits, NotFull, Drives, Still
<1>10. LevelFits' /\ ResetQuiet'
  BY <1>1, <1>2 DEF LevelFits, Exact, ResetQuiet, Quiet, Drives, InReset, PacketToBe, Still
<1>11. CountFits'
  <2>1. ASSUME NEW i \in used PROVE sent'[i] \in 0..MaxBytes[i] /\ got'[i] \in 0..sent'[i]
    <3>1. CASE i = e
      BY <1>1, <1>2, <1>7, <3>1 DEF CountFits, IsRun
    <3>2. CASE i # e
      BY <1>1, <1>2, <1>4, <3>2 DEF CountFits
    <3> QED BY <3>1, <3>2
  <2> QED BY <1>1, <1>2, <2>1 DEF CountFits, Still
<1>12. Purged'
  <2>1. ASSUME NEW i \in used, reset[i] = "purged"
        PROVE  /\ i # e /\ fifo'[i] = fifo[i] /\ got'[i] = got[i]
               /\ i \in Ins => lastFull'[i] = lastFull[i]
    <3>1. i # e /\ i \in 0..3
      BY <1>1, <1>2, <2>1, UsedEnds, Ends
    <3> QED BY <1>4, <3>1
  <2> QED BY <1>1, <1>2, <2>1 DEF Purged, Still
<1>13. /\ ZlpsFit(fifo'[e], lastFull'[e])
       /\ PrevFull(e)' <=> PrevFull(e)
  <2> DEFINE x == fifo[e]
             l == lastFull[e]
  <2>1. x \in Seq(Seq(Octet)) /\ x # <<>> /\ ZlpsFit(x, l)
    BY <1>1, <1>2, <1>3, <1>5 DEF ZlpsFit, ZlpAfterFull
  <2>2. fifo'[e] = Tail(x) /\ lastFull'[e] = (Len(Head(x)) = PacketSize)
    BY <1>3, <1>4
  <2>3. PrevFull(e) <=> Len(x[Len(x)]) = PacketSize
    BY <2>1 DEF PrevFull
  <2>4. PrevFull(e)' <=> IF fifo'[e] = <<>> THEN lastFull'[e] ELSE Len(fifo'[e][Len(fifo'[e])]) = PacketSize
    BY DEF PrevFull
  <2> HIDE DEF x, l
  <2>5. /\ ZlpsFit(Tail(x), Len(Head(x)) = PacketSize)
        /\ Tail(x) = <<>> => Head(x) = x[Len(x)]
        /\ Tail(x) # <<>> => Tail(x)[Len(Tail(x))] = x[Len(x)]
    BY ONLY <2>1, ZlpsTail
  <2>6. PrevFull(e)' <=> PrevFull(e)
    <3>1. CASE Tail(x) = <<>>
      BY <2>2, <2>3, <2>4, <2>5, <3>1
    <3>2. CASE Tail(x) # <<>>
      BY <2>2, <2>3, <2>4, <2>5, <3>2
    <3> QED BY <3>1, <3>2
  <2> QED BY <2>2, <2>5, <2>6
<1>14. ASSUME NEW i \in Ins, i \in Running, i # e
       PROVE  fifo'[i] = fifo[i] /\ lastFull'[i] = lastFull[i] /\ got'[i] = got[i]
  <2>1. i \in 0..3 /\ i \in used
    BY <1>14, Ends DEF Running
  <2> QED BY <1>4, <1>14, <2>1
<1>15. ZlpAfterFull'
  <2>1. ASSUME NEW i \in Ins, i \in Running PROVE ZlpsFit(fifo'[i], lastFull'[i])
    <3>1. CASE i = e
      BY <1>13, <3>1
    <3>2. CASE i # e
      BY <1>2, <1>14, <2>1, <3>2 DEF ZlpAfterFull, ZlpsFit
    <3> QED BY <3>1, <3>2
  <2> QED BY <1>1, <2>1 DEF ZlpAfterFull, ZlpsFit, Running, Still
<1>16. PendFits'
  <2>1. ASSUME NEW i \in Ins, i \in Running PROVE PrevFull(i)' <=> PrevFull(i)
    <3>1. CASE i = e
      BY <1>13, <3>1
    <3>2. CASE i # e
      BY <1>14, <2>1, <3>2 DEF PrevFull
    <3> QED BY <3>1, <3>2
  <2>2. \A i : PacketToBe(i)' = PacketToBe(i)
    BY <1>1, StillKeeps
  <2> QED BY <1>1, <1>2, <2>1, <2>2 DEF PendFits, Running, Still
<1>17. FlowFits'
  <2>1. ASSUME NEW i \in Running, i # e PROVE Stream(i)' = Run(i, got'[i], sent'[i])
    <3>1. i \in used /\ i \in 0..3
      BY <1>2, UsedEnds, Ends DEF Running
    <3>2. fifo'[i] = fifo[i] /\ got'[i] = got[i] /\ packet'[i] = packet[i] /\ sent'[i] = sent[i]
      BY <1>1, <1>4, <2>1, <3>1
    <3>3. Stream(i)' = Stream(i)
      BY <1>1, <3>2, StillKeeps
    <3> QED BY <1>1, <1>2, <3>2, <3>3 DEF FlowFits
  <2>2. Stream(e)' = Run(e, got'[e], sent'[e])
    BY <1>1, <1>7 DEF IsRun
  <2> QED BY <1>1, <2>1, <2>2 DEF FlowFits, Running, Still
<1> QED BY <1>1, <1>2, <1>8, <1>9, <1>10, <1>11, <1>12, <1>15, <1>16, <1>17, StillKeeps DEF IInv
LEMMA InitFits ==
    ASSUME Init
    PROVE  IInv
<1>1. /\ used \in Uses
      /\ fsm = "SWITCH" /\ addr = 0
      /\ pads = Idle /\ addr_p = 0 /\ slrd_p = FALSE /\ nrdy_o = {}
      /\ flag = {} /\ data = NoByte
      /\ queued = [e \in Ins |-> 0] /\ pending = [e \in Ins |-> FALSE]
      /\ timer = [e \in Ins |-> Timer]
      /\ skid = [e \in Outs |-> <<>>]
      /\ valid = {} /\ room = Outs
      /\ reset = [e \in used |-> "run"] /\ age = Settle /\ resets = 0
      /\ fifo = [e \in Outs \cup Ins |-> <<>>] /\ packet = [e \in Ins |-> <<>>]
      /\ sent = [e \in used |-> 0] /\ got = [e \in used |-> 0]
      /\ lastFull = [e \in used \cap Ins |-> FALSE]
  BY DEF Init
<1>2. /\ pads.addr = 0 /\ ~pads.slrd /\ ~pads.slwr /\ ~pads.pend /\ pads \in Pins
  BY <1>1, NoByteType, Ends DEF Idle, Pins
<1>3. /\ \A e \in 0..3 : fifo[e] = <<>>
      /\ \A e \in Ins : packet[e] = <<>> /\ queued[e] = 0 /\ ~pending[e]
      /\ \A e \in Outs : skid[e] = <<>>
      /\ \A e \in used : sent[e] = 0 /\ got[e] = 0 /\ reset[e] = "run"
      /\ DOMAIN fifo = 0..3
  BY <1>1, Ends
<1>4. Types
  <2>1. <<>> \in Seq(OutOctet) /\ <<>> \in Seq(Octet) /\ <<>> \in Seq(Seq(Octet))
    OBVIOUS
  <2>2. queued \in [Ins -> 0..PacketSize] /\ timer \in [Ins -> 0..Timer] /\ age \in 0..Settle
        /\ resets \in 0..MaxResets
    BY <1>1, CrossbarAssumption
  <2>3. skid \in [Outs -> Seq(OutOctet)] /\ pending \in [Ins -> BOOLEAN]
        /\ lastFull \in [used \cap Ins -> BOOLEAN] /\ reset \in [used -> {"run", "set", "purged"}]
    BY <1>1, <2>1
  <2> QED BY <1>1, <1>2, <1>3, <2>1, <2>2, <2>3, NoByteType, Ends DEF Types
<1>5. used \subseteq 0..3 /\ (\A e : ~InReset(e)) /\ (\A e : ~Drives(e))
  BY <1>2, <1>3, <1>4, UsedEnds, Ends DEF InReset, Drives
<1>6. Len(<<>>) = 0 /\ Buffers \in Nat \ {0} /\ PacketSize \in Nat \ {0}
  BY CrossbarAssumption
<1>7. BusFits
  BY <1>1, <1>2 DEF BusFits
<1>8. RoomFits
  BY <1>1, <1>2, <1>3, <1>5, <1>6, Ends DEF RoomFits
<1>9. \A e \in Ins : PacketToBe(e) = <<>>
  BY <1>2, <1>3 DEF PacketToBe
<1>10. LevelFits
  BY <1>2, <1>3, <1>6, <1>9 DEF LevelFits, Exact
<1>11. CountFits
  BY <1>1, <1>3, <1>5, MaxNat DEF CountFits
<1>12. ResetQuiet /\ Purged
  BY <1>3, <1>5 DEF ResetQuiet, Purged
<1>13. SkidFits
  BY <1>1, <1>2, <1>3, <1>6 DEF SkidFits, One
<1>14. PendFits
  BY <1>2, <1>3 DEF PendFits
<1>15. ZlpAfterFull
  BY <1>3, <1>6, Ends DEF ZlpAfterFull
<1>16. FlowFits
  <2>1. ASSUME NEW e \in Running PROVE Stream(e) = Run(e, got[e], sent[e])
    <3>1. e \in used /\ e \in 0..3
      BY <1>5 DEF Running
    <3>2. Run(e, got[e], sent[e]) = <<>>
      <4>1. Run(e, 0, 0) = <<>>
        BY RunOfNone
      <4> QED BY <1>3, <3>1, <4>1
    <3>3. CASE e \in Outs
      <4>1. Arrives(e, Written) = <<>>
        BY <1>1, <3>3 DEF Arrives, Written
      <4>2. Stream(e) = (<<>> \o <<>>) \o <<>>
        BY <1>3, <3>1, <3>3, <4>1 DEF Stream
      <4>3. (<<>> \o <<>>) \o <<>> = <<>>
        OBVIOUS
      <4> QED BY <3>2, <4>2, <4>3
    <3>4. CASE e \in Ins
      <4>0. e \notin Outs
        BY <3>4, Ends
      <4>1. Stream(e) = FlattenSeq(<<>>) \o <<>>
        BY <1>3, <1>9, <3>1, <3>4, <4>0 DEF Stream
      <4>2. <<>> \o <<>> = <<>>
        OBVIOUS
      <4> QED BY <3>2, <4>1, <4>2, FlattenEmpty
    <3> QED BY <3>1, <3>3, <3>4, Ends
  <2> QED BY <2>1 DEF FlowFits
<1> QED BY <1>4, <1>7, <1>8, <1>10, <1>11, <1>12, <1>13, <1>14, <1>15, <1>16 DEF IInv

LEMMA StepKeeps ==
    ASSUME IInv, [Next]_vars
    PROVE  IInv'
<1>1. CASE Tick
  BY <1>1, TickKeeps
<1>2. ASSUME NEW e \in used \cap Outs, Drain(e) PROVE IInv'
  BY <1>2, DrainKeeps
<1>3. ASSUME NEW e \in used \cap Outs, HostSends(e) PROVE IInv'
  BY <1>3, HostSendsKeeps
<1>4. ASSUME NEW e \in used \cap Ins, HostTakes(e) PROVE IInv'
  BY <1>4, HostTakesKeeps
<1>5. ASSUME NEW e \in used, SetReset(e) PROVE IInv'
  BY <1>5, SetResetKeeps
<1>6. ASSUME NEW e \in used, ResetFifo(e) PROVE IInv'
  BY <1>6, ResetFifoKeeps
<1>7. ASSUME NEW e \in used, ClearReset(e) PROVE IInv'
  BY <1>7, ClearResetKeeps
<1>8. CASE UNCHANGED vars
  <2>1. /\ Still /\ room' = room
        /\ reset' = reset /\ age' = age /\ resets' = resets
        /\ fifo' = fifo /\ packet' = packet /\ sent' = sent /\ got' = got /\ lastFull' = lastFull
    BY <1>8 DEF Still, vars, gateVars, busVars, inVars, fx2Vars, envVars
  <2>2. Types /\ BusFits /\ RoomFits /\ LevelFits /\ CountFits /\ ResetQuiet /\ Purged
        /\ SkidFits /\ PendFits /\ ZlpAfterFull /\ FlowFits
    BY DEF IInv
  <2>3. Types'
    BY <2>1, <2>2 DEF Types, Still
  <2>4. RoomFits' /\ CountFits' /\ ZlpAfterFull' /\ Purged'
    BY <2>1, <2>2 DEF RoomFits, NotFull, Drives, CountFits, ZlpAfterFull, Running, Purged, Still
  <2>5. LevelFits' /\ ResetQuiet' /\ PendFits'
    BY <2>1, <2>2 DEF LevelFits, ResetQuiet, PendFits, Exact, Quiet, PacketToBe, PrevFull, InReset, Drives,
                      Running, Still
  <2>6. FlowFits'
    <3>1. \A i : Stream(i)' = Stream(i)
      BY <2>1, StillKeeps
    <3> QED BY <2>1, <2>2, <3>1 DEF FlowFits, Running, Still
  <2> QED BY <2>1, <2>2, <2>3, <2>4, <2>5, <2>6, StillKeeps DEF IInv
<1> QED BY <1>1, <1>2, <1>3, <1>4, <1>5, <1>6, <1>7, <1>8 DEF Next

(* The parts of the invariant say what the properties say. *)
LEMMA TypesFit ==
    ASSUME IInv
    PROVE  TypeOK
<1>1. Types /\ BusFits /\ RoomFits /\ LevelFits /\ CountFits /\ SkidFits
  BY DEF IInv
<1>2. data \in Bytes(0..3)
  BY <1>1, Ends DEF Types, OutOctet, Bytes
<1>3. ASSUME NEW e \in Outs PROVE skid[e] \in Seq(Bytes(Outs)) /\ Len(skid[e]) <= SkidDepth
  <2>1. skid[e] \in Seq(OutOctet) /\ Len(skid[e]) \in Nat
    BY <1>1, SkidTypes
  <2>2. Len(skid[e]) + One(slrd_p /\ addr_p = e) + One(pads.slrd /\ pads.addr = e) <= 2
    BY <1>1 DEF SkidFits
  <2>3. \A b : One(b) \in {0, 1}
    BY DEF One
  <2>4. Len(skid[e]) <= 2
    BY <2>1, <2>2, <2>3
  <2> QED BY <2>1, <2>4, CrossbarAssumption DEF OutOctet
<1>4. ASSUME NEW e \in Ins PROVE Len(packet[e]) <= PacketSize /\ Len(fifo[e]) <= Buffers
  <2>1. Len(PacketToBe(e)) <= PacketSize /\ packet[e] \in Seq(Octet) /\ Len(fifo[e]) <= Buffers
    BY <1>1 DEF LevelFits, Types, RoomFits
  <2>2. Len(PacketToBe(e)) = Len(packet[e]) \/ Len(PacketToBe(e)) = Len(packet[e]) + 1
    <3>1. ASSUME NEW p \in Seq(Octet), NEW d PROVE Len(Append(p, d)) = Len(p) + 1
      OBVIOUS
    <3> QED BY <2>1, <3>1 DEF PacketToBe
  <2>3. Len(packet[e]) \in Nat
    BY <2>1, LenProperties
  <2> QED BY <2>1, <2>2, <2>3, CrossbarAssumption
<1>5. ASSUME NEW e \in used PROVE sent[e] \in 0..MaxBytes[e] /\ got[e] \in 0..MaxBytes[e]
  BY <1>1, RunFits
<1> QED BY <1>1, <1>2, <1>3, <1>4, <1>5 DEF TypeOK, Types, Pins, Octet

LEMMA LevelsFit ==
    ASSUME IInv
    PROVE  LevelExact
  BY DEF IInv, LevelFits, LevelExact, Exact, InReset, Running

LEMMA FlowsFit ==
    ASSUME IInv
    PROVE  Conserved
  BY DEF IInv, FlowFits, Conserved, Run

THEOREM InvHolds == Spec => []IInv
<1>1. Init => IInv
  BY InitFits
<1>2. IInv /\ [Next]_vars => IInv'
  BY StepKeeps
<1> QED BY <1>1, <1>2, PTL DEF Spec

(* The registers, the FIFOs and the counters keep their sizes: an IN       *)
(* packet never exceeds the packet size, the skid buffer of an OUT         *)
(* endpoint never overflows.                                               *)
THEOREM TypeCorrect == Spec => []TypeOK
<1>1. IInv => TypeOK
  BY TypesFit
<1> QED BY <1>1, InvHolds, PTL

(* The level counter of an IN endpoint is the length of the packet that is *)
(* being written, whatever is still on the pins.                           *)
THEOREM LevelsExact == Spec => []LevelExact
<1>1. IInv => LevelExact
  BY LevelsFit
<1> QED BY <1>1, InvHolds, PTL

(* A packet of zero length follows one of the maximum size only. *)
THEOREM ZlpsAfterFull == Spec => []ZlpAfterFull
<1>1. IInv => ZlpAfterFull
  BY DEF IInv
<1> QED BY <1>1, InvHolds, PTL

(* No byte is lost, repeated, misplaced or given to another endpoint       *)
(* between the two ends of an endpoint, also after it was reset.           *)
THEOREM BytesConserved == Spec => []Conserved
<1>1. IInv => Conserved
  BY FlowsFit
<1> QED BY <1>1, InvHolds, PTL

================================================================================
