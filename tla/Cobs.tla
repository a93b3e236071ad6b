---------------------------------- MODULE Cobs ---------------------------------
(***************************************************************************)
(* gateware/cobs.py, cycle by cycle: the COBS encoder, which keeps packets *)
(* in the same memory in which it looks ahead, and the COBS decoder.  The  *)
(* two are connected, so that what the decoder makes of a packet can be    *)
(* compared with what the encoder was given; in the analyzers the host has *)
(* the place of the decoder, in the probe that of the encoder.             *)
(*                                                                         *)
(* A byte is at most Group, which is 255.  A token is a byte of data, or   *)
(* End, which is what `end` and `data` are as one number.                  *)
(***************************************************************************)
EXTENDS Naturals, Sequences

CONSTANTS Group,  \* the largest byte, and the size of a group that is full
          Depth,  \* fifo_depth
          Bytes   \* data bytes of packets

ASSUME CobsAssumption ==
    /\ Group \in Nat /\ Group > 1
    /\ Depth \in Nat /\ Depth > Group
    /\ Bytes \subseteq 0..Group

End == Group + 1

Tokens == Bytes \cup {End}

VARIABLES
    offered,                       \* the token at the input, if any
    encoder,                       \* state of the Encoder
    mem, wAddr, staged,            \* its memory, and its write end
    rAddr, rData,                  \* its read end
    decoder, count, offset,        \* state of the Decoder
    out,                           \* the token in its StreamBuffer, if any
    inflight                       \* tokens that have entered and not left

encoderVars == <<offered, encoder, mem, wAddr, staged>>
decoderVars == <<decoder, count, offset, out>>
vars == <<encoderVars, rAddr, rData, decoderVars, inflight>>

Offers == {<<>>} \cup {<<token>> : token \in Tokens}

Init ==
    /\ offered \in Offers
    /\ encoder = "Data" /\ mem = [a \in 0..(Depth - 1) |-> 0]
    /\ wAddr = 0 /\ staged = 1 /\ rAddr = 0 /\ rData = 0
    /\ decoder = "Start" /\ count = 0 /\ offset = 0 /\ out = <<>>
    /\ inflight = <<>>

--------------------------------------------------------------------------------
(* The encoder.  At wAddr there is room for the overhead byte of a group,  *)
(* whose data are staged behind it.                                        *)

Address(n) == n % Depth

Empty == rAddr = wAddr

FullLate == rAddr = Address(wAddr + staged + Depth - 1) /\ ~Empty

FullEarly == rAddr = Address(wAddr + staged + 1)

Full == rAddr = Address(wAddr + staged)

GroupFullNever == FALSE

GroupFull == staged = Group

(* The signal i.ready. *)
Takes ==
    encoder = "Data" /\ ~Full /\ offered # <<>> /\ (offered = <<End>> \/ ~GroupFull)

Write(at, byte) == mem' = [mem EXCEPT ![at] = byte]

Stage(byte) ==
    /\ Write(Address(wAddr + staged), byte)
    /\ staged' = staged + 1
    /\ UNCHANGED wAddr

Commit ==
    /\ Write(wAddr, staged)
    /\ wAddr' = Address(wAddr + staged)
    /\ staged' = 1

TakeEnd == Takes /\ offered = <<End>> /\ Commit /\ encoder' = "End"

TakeNul == Takes /\ offered = <<0>> /\ Commit /\ UNCHANGED encoder

TakeByte == Takes /\ offered \notin {<<0>>, <<End>>} /\ Stage(offered[1]) /\ UNCHANGED encoder

(* The token stays at the input while the group before it is closed. *)
CloseGroup ==
    /\ encoder = "Data" /\ ~Full /\ offered \notin {<<>>, <<End>>} /\ GroupFull
    /\ Commit
    /\ UNCHANGED encoder

Terminate ==
    /\ encoder = "End" /\ ~Full
    /\ Write(wAddr, 0)
    /\ wAddr' = Address(wAddr + 1)
    /\ encoder' = "Data"
    /\ UNCHANGED staged

Wait ==
    /\ Full \/ (encoder = "Data" /\ offered = <<>>)
    /\ UNCHANGED <<encoder, mem, wAddr, staged>>

Encode == TakeEnd \/ TakeNul \/ TakeByte \/ CloseGroup \/ Terminate \/ Wait

(* A token that is offered stays until it is taken. *)
Offer == IF Takes \/ offered = <<>> THEN offered' \in Offers ELSE UNCHANGED offered

FetchedBefore(at) == mem[at]

(* The read port sees what is written in the same cycle. *)
Fetched(at) == mem'[at]

Read(moved) ==
    /\ rAddr' = IF moved THEN Address(rAddr + 1) ELSE rAddr
    /\ rData' = Fetched(rAddr')

--------------------------------------------------------------------------------
(* The decoder.  The output of its StreamBuffer is taken if it is `ready`. *)

BufferReady(ready) == ready \/ out = <<>>

DecoderReady(ready) == decoder = "Start" \/ (decoder = "Data" /\ BufferReady(ready))

(* The buffer takes a token, or nothing if there is none. *)
Emit(token, ready) == out' = IF BufferReady(ready) THEN token ELSE out

Header(byte, ready) ==
    /\ decoder = "Start"
    /\ count' = 1
    /\ IF byte = 0 THEN decoder' = "Error" /\ UNCHANGED offset
                   ELSE decoder' = "Data" /\ offset' = byte
    /\ Emit(<<>>, ready)

NulAlways == TRUE

NulAfterGroup == offset # Group

GroupEnd(byte, ready) ==
    /\ decoder = "Data" /\ offset = count
    /\ count' = 1
    /\ IF byte = 0
       THEN decoder' = "Start" /\ Emit(<<End>>, ready) /\ UNCHANGED offset
       ELSE /\ Emit(IF NulAfterGroup THEN <<0>> ELSE <<>>, ready)
            /\ offset' = byte
            /\ UNCHANGED decoder

GroupByte(byte, ready) ==
    /\ decoder = "Data" /\ offset # count
    /\ count' = count + 1
    /\ IF byte = 0 THEN decoder' = "Error" /\ Emit(<<>>, ready)
                   ELSE UNCHANGED decoder /\ Emit(<<byte>>, ready)
    /\ UNCHANGED offset

Decode(byte, ready) == Header(byte, ready) \/ GroupEnd(byte, ready) \/ GroupByte(byte, ready)

NoInput(ready) == Emit(<<>>, ready) /\ UNCHANGED <<decoder, count, offset>>

--------------------------------------------------------------------------------
(* A clock cycle.  The way from the encoder to the decoder is open or not, *)
(* and so is that from the decoder on.                                     *)

Cycle(open, ready) ==
    LET moved == open /\ ~Empty /\ DecoderReady(ready)
        left  == IF ready /\ out # <<>> THEN Tail(inflight) ELSE inflight
    IN  /\ Encode /\ Offer /\ Read(moved)
        /\ IF moved THEN Decode(rData, ready) ELSE NoInput(ready)
        /\ inflight' = left \o (IF Takes THEN offered ELSE <<>>)

Next == \E open, ready \in BOOLEAN : Cycle(open, ready)

(* Neither way is closed for ever. *)
Fairness ==
    /\ WF_vars(\E ready \in BOOLEAN : Cycle(TRUE, ready))
    /\ WF_vars(\E open \in BOOLEAN : Cycle(open, TRUE))

Spec == Init /\ [][Next]_vars /\ Fairness

--------------------------------------------------------------------------------
(* Properties *)

(* Types: in particular the registers of a byte's width do not overflow.    *)
TypeOK ==
    /\ offered \in Offers /\ encoder \in {"Data", "End"}
    /\ mem \in [0..(Depth - 1) -> 0..Group] /\ wAddr \in 0..(Depth - 1) /\ staged \in 1..Group
    /\ rAddr \in 0..(Depth - 1) /\ rData \in 0..Group
    /\ decoder \in {"Start", "Data", "Error"} /\ count \in 0..Group /\ offset \in 0..Group
    /\ out \in {<<>>} \cup {<<token>> : token \in 0..End}

(* Committed bytes that have not been read. *)
Level == Address(wAddr + Depth - rAddr)

(* What is staged never reaches bytes that have yet to be read, although    *)
(* both are in one memory and it is filled up to the last byte.             *)
StagedFits == Level + staged <= Depth

(* The decoder puts out the tokens that the encoder has taken, in order,    *)
(* each once, however long the groups of a packet are.                      *)
RoundTrip == out # <<>> => inflight # <<>> /\ Head(inflight) = Head(out)

(* Every token is taken, and a packet that has ended comes out: the memory  *)
(* never fills up with a group whose overhead byte is not known yet.        *)
PacketsArrive ==
    /\ offered # <<>> ~> Takes
    /\ (\E i \in DOMAIN inflight : inflight[i] = End) ~> out = <<End>>

================================================================================
