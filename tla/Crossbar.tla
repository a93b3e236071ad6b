-------------------------------- MODULE Crossbar -------------------------------
(***************************************************************************)
(* gateware/fx2_crossbar.py, cycle by cycle: the FSM that shares the FX2's *)
(* bus among two OUT endpoints (0, 1) and two IN endpoints (2, 3), the     *)
(* registers between it and the pins, the level counters and packet ends   *)
(* of the IN endpoints, and the skid buffers of the OUT endpoints.  A step *)
(* Tick is one clock cycle: variables are registers, and the definitions   *)
(* that its LET names are the combinational signals of that cycle.         *)
(*                                                                         *)
(* The FX2 and the host are external: an FX2 FIFO obeys the strobes on its *)
(* pins at the clock edge, and a flag on a pin tells the state of its FIFO *)
(* before that edge.  Output enables are left out, as the FSM waits for    *)
(* them.  Each endpoint is used through a Queue of the assembly.           *)
(***************************************************************************)
EXTENDS Naturals, Sequences, FiniteSets, SequencesExt

CONSTANTS PacketSize,  \* _PACKET_SIZE
          SkidDepth,   \* skid_depth of an _OUTFIFO
          Timer,       \* timer.init of an _INFIFO
          Buffers,     \* packets that an FX2 FIFO holds
          Uses,        \* sets of endpoints in use: a behaviour has one
          MaxBytes,    \* bound: bytes through each endpoint between resets
          MaxResets,   \* bound: resets
          Resettable,  \* bound: endpoints that are ever reset
          Settle       \* cycles between two steps of the firmware, at least

Outs == {0, 1}
Ins  == {2, 3}

(* Two bytes may be under way when a skid buffer holds back (the code has   *)
(* room for three), and an I2C transaction lies between two steps of the   *)
(* firmware, which is far longer than two cycles.                          *)
ASSUME CrossbarAssumption ==
    /\ PacketSize \in Nat \ {0} /\ SkidDepth \in Nat \ {0, 1} /\ Timer \in Nat
    /\ Buffers \in Nat \ {0} /\ Uses \subseteq SUBSET (Outs \cup Ins)
    /\ MaxBytes \in [Outs \cup Ins -> Nat] /\ MaxResets \in Nat /\ Settle \in Nat \ {0, 1}
    /\ Resettable \subseteq Outs \cup Ins

VARIABLES
    used,
    fsm, addr,                \* FX2Crossbar
    pads,                     \* output registers in the pins, and addr_r, slrd_r, nrdy_r
    addr_p, slrd_p, nrdy_o,   \* _FX2Bus
    flag, data,               \* input registers: flags that are set, data of the FX2
    queued, pending, timer,   \* _INFIFO
    skid,                     \* _OUTFIFO
    valid, room,              \* the Queue of an endpoint has a byte, has room
    reset, age,               \* reset of an endpoint, cycles since the firmware's last step
    fifo, packet, sent, got,  \* the FX2 and the two ends of each stream, see below
    lastFull, resets

busVars  == <<pads, addr_p, slrd_p, nrdy_o, flag, data>>
inVars   == <<queued, pending, timer>>
gateVars == <<fsm, addr, busVars, inVars, skid, valid, room>>
fx2Vars  == <<fifo, packet>>
envVars  == <<sent, got, lastFull>>
vars == <<used, gateVars, reset, age, resets, fx2Vars, envVars>>

(* Bytes of endpoint e are numbered from 1: sent[e] have entered it, got[e] *)
(* have left it.  fifo[e] are the bytes, or for an IN endpoint the packets, *)
(* that the FX2 holds, and packet[e] the unfinished IN packet.              *)
Byte(e, n) == <<e, n>>

NoByte == <<0, 0>>

Idle == [addr |-> 0, slrd |-> FALSE, slwr |-> FALSE, pend |-> FALSE, data |-> NoByte]

Init ==
    /\ used \in Uses
    /\ fsm = "SWITCH" /\ addr = 0
    /\ pads = Idle /\ addr_p = 0 /\ slrd_p = FALSE /\ nrdy_o = {}
    /\ flag = {} /\ data = NoByte
    /\ queued = [e \in Ins |-> 0] /\ pending = [e \in Ins |-> FALSE]
    /\ timer = [e \in Ins |-> Timer]
    /\ skid = [e \in Outs |-> <<>>]
    /\ valid = {} /\ room = Outs
    /\ reset = [e \in used |-> "run"] /\ age = Settle /\ resets = 0
    /\ fifo = [e \in Outs \cup Ins |-> <<>>] /\ packet = [e \in Ins |-> <<>>]
    /\ sent = [e \in used |-> 0] /\ got = [e \in used |-> 0]
    /\ lastFull = [e \in used \cap Ins |-> FALSE]

InReset(e) == e \in used /\ reset[e] # "run"

--------------------------------------------------------------------------------
(* The FX2 at a clock edge.  Strobes that its state forbids do nothing. *)

NotFull(e) == Len(fifo[e]) < Buffers

(* PINFLAGSAB, PINFLAGSCD: ~EF of the OUT endpoints, ~FF of the others. *)
Flags == {e \in Outs : fifo[e] # <<>>} \cup {e \in Ins : NotFull(e)}

FX2 ==
    LET e == pads.addr
    IN  CASE pads.slrd /\ e \in Outs /\ fifo[e] # <<>> ->
               fifo' = [fifo EXCEPT ![e] = Tail(@)] /\ UNCHANGED packet
          [] pads.slwr /\ e \in Ins /\ NotFull(e) ->
               packet' = [packet EXCEPT ![e] = Append(@, pads.data)] /\ UNCHANGED fifo
          [] pads.pend /\ e \in Ins /\ NotFull(e) ->
               /\ fifo' = [fifo EXCEPT ![e] = Append(@, packet[e])]
               /\ packet' = [packet EXCEPT ![e] = <<>>]
          [] OTHER -> UNCHANGED fx2Vars

Capture ==
    /\ flag' = Flags
    /\ data' = IF pads.addr \in Outs /\ fifo[pads.addr] # <<>>
               THEN Head(fifo[pads.addr]) ELSE NoByte

--------------------------------------------------------------------------------
(* _INFIFO *)

CompletePacketLate(e) == queued[e] > PacketSize

CompletePacket(e) == queued[e] >= PacketSize

(* The inactivity timer, or the flush input, asks for the end of a packet. *)
PendingPacket(e, flush) ==
    pending[e] /\ (e \in flush \/ (e \notin valid /\ timer[e] = 0))

AfterFlushNoZlp(e) == FALSE

AfterFlushPending(e) == pending[e]

(* After a packet of the maximum size, a packet of zero length is due. *)
AfterFlush(e) == pending[e] /\ queued[e] >= PacketSize

LevelAfterFlushKept(e) == IF CompletePacket(e) THEN 0 ELSE queued[e]

LevelAfterFlush(e) == 0

InFifos(flushed, taken) ==
    /\ queued' = [e \in Ins |->
          IF InReset(e) THEN 0
          ELSE IF e \in flushed THEN LevelAfterFlush(e)
          ELSE IF e \in taken THEN queued[e] + 1 ELSE queued[e]]
    /\ pending' = [e \in Ins |->
          ~InReset(e) /\ IF e \in flushed THEN AfterFlush(e) ELSE pending[e] \/ e \in taken]
    /\ timer' = [e \in Ins |->
          IF InReset(e) \/ e \in valid THEN Timer
          ELSE IF timer[e] # 0 THEN timer[e] - 1 ELSE 0]

(* The Queue of an IN endpoint offers its next byte until it is taken. *)
Offer(taken) ==
    \E offered \in SUBSET {e \in used \cap Ins : sent'[e] < MaxBytes[e]} :
        valid' = {e \in (valid \ taken) \cup offered : ~InReset(e)}

--------------------------------------------------------------------------------
(* _OUTFIFO: a byte that arrives passes the skid buffer if that is empty   *)
(* and the endpoint takes it.                                              *)

WReady(e) == skid[e] = <<>> /\ e \in room

SkidFull(e) == Len(skid[e]) = SkidDepth

Arrives(e, written) == IF e \in written THEN <<data>> ELSE <<>>

Delivered(e, written) == e \in room /\ (skid[e] # <<>> \/ e \in written)

SkidNext(e, written) ==
    IF InReset(e) THEN <<>>
    ELSE LET kept == IF SkidFull(e) THEN <<>> ELSE Arrives(e, written)
         IN  IF skid[e] = <<>> THEN IF e \in room THEN <<>> ELSE kept
             ELSE (IF e \in room THEN Tail(skid[e]) ELSE skid[e]) \o kept

(* The Queue behind it may be full after each byte that it takes. *)
OutFifos(written) ==
    /\ skid' = [e \in Outs |-> SkidNext(e, written)]
    /\ \E filled \in SUBSET {e \in used \cap Outs : Delivered(e, written)} :
         room' = (room \ filled) \cup {e \in Outs : InReset(e)}

--------------------------------------------------------------------------------
(* FX2Crossbar *)

Ready(flush) ==
    {e \in flag \ nrdy_o : IF e \in Outs THEN WReady(e) ELSE e \in valid \/ PendingPacket(e, flush)}

(* The next ready endpoint, from the present one on. *)
NextAddr(ready) ==
    IF ready = {} THEN (addr + 1) % 4
    ELSE CHOOSE a \in ready : \A b \in ready : (a + 4 - addr) % 4 <= (b + 4 - addr) % 4

Fsm(slrd, slwr, ready) ==
    CASE fsm = "SWITCH"   -> /\ addr' = NextAddr(ready)
                             /\ fsm' = IF ready # {} THEN "DRIVE" ELSE "SWITCH"
      [] fsm = "DRIVE"    -> fsm' = "SETUP" /\ UNCHANGED addr
      [] fsm = "SETUP"    -> fsm' = (IF addr \in Ins THEN "IN-XFER" ELSE "OUT-XFER")
                             /\ UNCHANGED addr
      [] fsm = "IN-XFER"  -> fsm' = (IF slwr THEN fsm ELSE "SWITCH") /\ UNCHANGED addr
      [] fsm = "OUT-XFER" -> fsm' = (IF slrd THEN fsm ELSE "SWITCH") /\ UNCHANGED addr

BusyNever(a, slwr, pend) == {}

(* Endpoints whose flag an operation in the pipeline may still change. *)
Busy(a, slwr, pend) == IF slwr \/ pend THEN {a} ELSE {}

MayReadWhileFull == addr \in flag

MayRead == addr \in flag /\ WReady(addr)

(* A byte comes in for each read strobe that met a FIFO that was not empty. *)
Written == IF addr \in Outs /\ slrd_p /\ addr \in flag THEN {addr_p % 2} ELSE {}

Tick ==
    /\ \E flush \in SUBSET (used \cap Ins) :
         LET slwr == fsm = "IN-XFER" /\ ~CompletePacket(addr) /\ addr \in valid
             pend == /\ fsm = "IN-XFER" /\ ~slwr
                     /\ CompletePacket(addr) \/ PendingPacket(addr, flush)
             slrd == fsm = "OUT-XFER" /\ MayRead
             taken == IF slwr THEN {addr} ELSE {}
         IN  /\ Fsm(slrd, slwr, Ready(flush))
             /\ pads' = [addr |-> addr, slrd |-> slrd, slwr |-> slwr, pend |-> pend,
                         data |-> IF slwr THEN Byte(addr, sent[addr] + 1) ELSE NoByte]
             /\ addr_p' = pads.addr /\ slrd_p' = pads.slrd
             /\ nrdy_o' = Busy(pads.addr, pads.slwr, pads.pend) \cup Busy(addr, slwr, pend)
             /\ sent' = [e \in used |-> IF e \in taken THEN sent[e] + 1 ELSE sent[e]]
             /\ InFifos(IF pend THEN {addr} ELSE {}, taken) /\ Offer(taken)
    /\ OutFifos(Written)
    /\ got' = [e \in used |-> IF e \in Outs /\ Delivered(e, Written) /\ ~InReset(e)
                              THEN got[e] + 1 ELSE got[e]]
    /\ FX2 /\ Capture
    /\ age' = IF age < Settle THEN age + 1 ELSE age
    /\ UNCHANGED <<used, reset, resets, lastFull>>

--------------------------------------------------------------------------------
(* The application's end of a Queue, the host, and the firmware that resets *)
(* an endpoint on behalf of the host, which transfers nothing meanwhile.    *)

Drain(e) ==
    /\ e \notin room
    /\ room' = room \cup {e}
    /\ UNCHANGED <<used, fsm, addr, busVars, inVars, skid, valid, reset, age, resets, fx2Vars, envVars>>

HostSends(e) ==
    /\ reset[e] = "run"
    /\ \E n \in 1..PacketSize :
         /\ sent[e] + n <= MaxBytes[e] /\ Len(fifo[e]) + n <= Buffers * PacketSize
         /\ fifo' = [fifo EXCEPT ![e] = @ \o [i \in 1..n |-> Byte(e, sent[e] + i)]]
         /\ sent' = [sent EXCEPT ![e] = @ + n]
    /\ UNCHANGED <<used, gateVars, reset, age, resets, packet, got, lastFull>>

HostTakes(e) ==
    /\ reset[e] = "run" /\ fifo[e] # <<>>
    /\ fifo' = [fifo EXCEPT ![e] = Tail(@)]
    /\ got' = [got EXCEPT ![e] = @ + Len(Head(fifo[e]))]
    /\ lastFull' = [lastFull EXCEPT ![e] = Len(Head(fifo[e])) = PacketSize]
    /\ UNCHANGED <<used, gateVars, reset, age, resets, packet, sent>>

FirmwareStep(e, from, to) ==
    /\ reset[e] = from /\ age = Settle
    /\ reset' = [reset EXCEPT ![e] = to]
    /\ age' = IF to = "run" THEN Settle ELSE 0

SetReset(e) ==
    /\ e \in Resettable /\ resets < MaxResets
    /\ resets' = resets + 1
    /\ FirmwareStep(e, "run", "set")
    /\ UNCHANGED <<used, gateVars, fx2Vars, envVars>>

(* fifo_reset(): both ends of the stream start anew. *)
ResetFifo(e) ==
    /\ FirmwareStep(e, "set", "purged")
    /\ fifo' = [fifo EXCEPT ![e] = <<>>]
    /\ packet' = [i \in Ins |-> IF i = e THEN <<>> ELSE packet[i]]
    /\ sent' = [sent EXCEPT ![e] = 0] /\ got' = [got EXCEPT ![e] = 0]
    /\ lastFull' = [i \in used \cap Ins |-> i # e /\ lastFull[i]]
    /\ UNCHANGED <<used, gateVars, resets>>

ClearReset(e) ==
    /\ FirmwareStep(e, "purged", "run")
    /\ UNCHANGED <<used, gateVars, fx2Vars, envVars, resets>>

Next ==
    \/ Tick
    \/ \E e \in used \cap Outs : Drain(e) \/ HostSends(e)
    \/ \E e \in used \cap Ins : HostTakes(e)
    \/ \E e \in used : SetReset(e) \/ ResetFifo(e) \/ ClearReset(e)

(* The clock runs, the application's Queue is read, the host polls its IN   *)
(* endpoints and the firmware ends what it has begun.                       *)
Fairness ==
    /\ WF_vars(Tick)
    /\ WF_vars(\E e \in used \cap Outs : Drain(e))
    /\ WF_vars(\E e \in used \cap Ins : HostTakes(e))
    /\ WF_vars(\E e \in used : ResetFifo(e) \/ ClearReset(e))

Spec == Init /\ [][Next]_vars /\ Fairness

--------------------------------------------------------------------------------
(* Properties *)

Running == {e \in used : reset[e] = "run"}

Bytes(S) == UNION {{e} \X (0..MaxBytes[e]) : e \in S}

TypeOK ==
    /\ used \in Uses /\ addr \in 0..3 /\ addr_p \in 0..3
    /\ fsm \in {"SWITCH", "DRIVE", "SETUP", "IN-XFER", "OUT-XFER"}
    /\ pads \in [addr : 0..3, slrd : BOOLEAN, slwr : BOOLEAN, pend : BOOLEAN, data : Bytes(0..3)]
    /\ slrd_p \in BOOLEAN /\ nrdy_o \subseteq Ins /\ flag \subseteq 0..3 /\ data \in Bytes(0..3)
    /\ queued \in [Ins -> 0..PacketSize] /\ pending \in [Ins -> BOOLEAN]
    /\ timer \in [Ins -> 0..Timer]
    /\ \A e \in Outs : skid[e] \in Seq(Bytes(Outs)) /\ Len(skid[e]) <= SkidDepth
    /\ valid \subseteq Ins /\ room \subseteq Outs /\ lastFull \in [used \cap Ins -> BOOLEAN]
    /\ reset \in [used -> {"run", "set", "purged"}] /\ age \in 0..Settle /\ resets \in 0..MaxResets
    /\ \A e \in Ins : Len(packet[e]) <= PacketSize /\ Len(fifo[e]) <= Buffers
    /\ \A e \in used : sent[e] \in 0..MaxBytes[e] /\ got[e] \in 0..MaxBytes[e]

(* An IN packet after the write that is on the pins. *)
PacketToBe(e) ==
    IF pads.slwr /\ pads.addr = e THEN Append(packet[e], pads.data) ELSE packet[e]

Stream(e) ==
    IF e \in Outs THEN skid[e] \o Arrives(e, Written) \o fifo[e]
                  ELSE FlattenSeq(fifo[e]) \o PacketToBe(e)

(* What is between the two ends of an endpoint is exactly the bytes that    *)
(* entered and have not left, in order: no read strobe that is too late and *)
(* no write to a full FIFO loses, repeats or misdirects one, also after the *)
(* endpoint was reset.                                                      *)
Conserved ==
    \A e \in Running :
        Stream(e) = [n \in 1..(sent[e] - got[e]) |-> Byte(e, got[e] + n)]

(* The level counter of an IN endpoint is the length of the packet in the   *)
(* FX2, when it has done what is on its pins.                               *)
LevelExact ==
    \A e \in Running \cap Ins :
        queued[e] = IF pads.pend /\ pads.addr = e THEN 0 ELSE Len(PacketToBe(e))

(* A packet of zero length only follows one of the maximum size: any other  *)
(* would end a read of the host for nothing.                                *)
ZlpAfterFull ==
    \A e \in Running \cap Ins : \A i \in 1..Len(fifo[e]) :
        fifo[e][i] = <<>> =>
            IF i = 1 THEN lastFull[e] ELSE Len(fifo[e][i - 1]) = PacketSize

(* When both ends are done, everything has arrived, and the last packet was *)
(* not of the maximum size, after which the host would wait for more.       *)
Arrived ==
    \A e \in used : sent[e] = got[e] /\ (e \in Ins => ~lastFull[e] /\ e \notin valid)

EverythingArrives == <>[]Arrived

================================================================================
