------------------------------- MODULE CobsProofs ------------------------------
(***************************************************************************)
(* Theorems about Cobs, for every size of a group and of the memory, and   *)
(* any data.  The registers of the encoder and of the decoder are each as   *)
(* they should be by themselves, so that IInv has a part for each.  That   *)
(* the tokens come back is a fact of both: ParseFits says that a decoder   *)
(* which reads on from here through the committed bytes would put out, in  *)
(* order, the tokens in flight, up to those of the group that is staged.   *)
(***************************************************************************)
EXTENDS Cobs, SequenceTheorems, TLAPS

(* A group goes on until `count` has reached `offset`. *)
GroupFits == decoder = "Data" => count \in 1..offset

IInv == TypeOK /\ StagedFits /\ GroupFits

--------------------------------------------------------------------------------
(* Addresses *)

LEMMA AddressValue ==
    ASSUME NEW n \in Nat, n < 2 * Depth
    PROVE  Address(n) = IF n < Depth THEN n ELSE n - Depth
  BY CobsAssumption DEF Address

(* Where the write end gets to when it moves on by k bytes. *)
LEMMA Moving ==
    ASSUME NEW w \in 0..(Depth - 1), NEW k \in 0..Depth
    PROVE  /\ Address(w + k) \in 0..(Depth - 1)
           /\ Address(w + k) = IF w + k < Depth THEN w + k ELSE w + k - Depth
<1>1. w + k \in Nat /\ w + k < 2 * Depth
  BY CobsAssumption
<1> QED BY <1>1, AddressValue, CobsAssumption

LEMMA LevelValue ==
    ASSUME NEW w \in 0..(Depth - 1), NEW r \in 0..(Depth - 1)
    PROVE  Address(w + Depth - r) = IF r <= w THEN w - r ELSE w + Depth - r
<1>1. w + Depth - r \in Nat /\ w + Depth - r < 2 * Depth
  BY CobsAssumption
<1> QED BY <1>1, AddressValue, CobsAssumption

LEMMA LevelIsAddress ==
    ASSUME NEW w \in 0..(Depth - 1), NEW r \in 0..(Depth - 1)
    PROVE  Address(w + Depth - r) \in 0..(Depth - 1)
  BY LevelValue, CobsAssumption

LEMMA LevelRises ==
    ASSUME NEW w \in 0..(Depth - 1), NEW r \in 0..(Depth - 1), NEW k \in 0..Depth,
           Address(w + Depth - r) + k < Depth
    PROVE  Address(Address(w + k) + Depth - r) = Address(w + Depth - r) + k
<1>1. Address(w + k) = IF w + k < Depth THEN w + k ELSE w + k - Depth
  BY Moving
<1>2. Address(w + k) \in 0..(Depth - 1)
  BY Moving
<1>3. Address(w + Depth - r) = IF r <= w THEN w - r ELSE w + Depth - r
  BY LevelValue
<1>4. Address(Address(w + k) + Depth - r)
        = IF r <= Address(w + k) THEN Address(w + k) - r ELSE Address(w + k) + Depth - r
  BY <1>2, LevelValue
<1> QED BY <1>1, <1>3, <1>4, CobsAssumption

LEMMA LevelFalls ==
    ASSUME NEW w \in 0..(Depth - 1), NEW r \in 0..(Depth - 1), r # w
    PROVE  Address(w + Depth - Address(r + 1)) = Address(w + Depth - r) - 1
<1>1. Address(r + 1) = IF r + 1 < Depth THEN r + 1 ELSE r + 1 - Depth
  BY CobsAssumption, Moving
<1>2. Address(r + 1) \in 0..(Depth - 1)
  BY CobsAssumption, Moving
<1> QED BY <1>1, <1>2, LevelValue, CobsAssumption

LEMMA LevelRange ==
    ASSUME TypeOK
    PROVE  Level \in 0..(Depth - 1) /\ (~Empty => Level > 0)
<1>1. wAddr \in 0..(Depth - 1) /\ rAddr \in 0..(Depth - 1)
  BY DEF TypeOK
<1>2. Level = IF rAddr <= wAddr THEN wAddr - rAddr ELSE wAddr + Depth - rAddr
  BY <1>1, LevelValue DEF Level
<1> QED BY <1>1, <1>2, CobsAssumption DEF Empty

(* The memory is full when there is no room behind what is staged. *)
LEMMA RoomUnlessFull ==
    ASSUME TypeOK, StagedFits, ~Full
    PROVE  Level + staged < Depth
<1>1. staged \in 0..Depth /\ staged > 0
  BY CobsAssumption DEF TypeOK
<1>2. wAddr \in 0..(Depth - 1) /\ rAddr \in 0..(Depth - 1)
  BY DEF TypeOK
<1>3. Address(wAddr + staged)
        = IF wAddr + staged < Depth THEN wAddr + staged ELSE wAddr + staged - Depth
  BY <1>1, <1>2, Moving
<1>4. Level = IF rAddr <= wAddr THEN wAddr - rAddr ELSE wAddr + Depth - rAddr
  BY <1>2, LevelValue DEF Level
<1>5. rAddr # Address(wAddr + staged) /\ Level + staged <= Depth
  BY DEF StagedFits, Full
<1> QED BY <1>1, <1>2, <1>3, <1>4, <1>5, CobsAssumption

--------------------------------------------------------------------------------
(* The encoder *)

(* The level once the write end has moved and before the read end has. *)
Written == Address(wAddr' + Depth - rAddr)

(* What the encoder does in a cycle to its registers and to its memory.     *)
Encoded ==
    /\ encoder' \in {"Data", "End"}
    /\ mem' \in [0..(Depth - 1) -> 0..Group]
    /\ wAddr' \in 0..(Depth - 1) /\ staged' \in 1..Group
    /\ Written >= Level /\ Written + staged' <= Depth

LEMMA WriteTypes ==
    ASSUME TypeOK, NEW at \in 0..(Depth - 1), NEW byte \in 0..Group, Write(at, byte)
    PROVE  mem' \in [0..(Depth - 1) -> 0..Group]
  BY DEF TypeOK, Write

LEMMA CommitEncodes ==
    ASSUME TypeOK, StagedFits, ~Full, Commit, encoder' \in {"Data", "End"}
    PROVE  Encoded
<1>1. wAddr \in 0..(Depth - 1) /\ rAddr \in 0..(Depth - 1) /\ staged \in 0..Depth
  BY CobsAssumption DEF TypeOK
<1>2. mem' \in [0..(Depth - 1) -> 0..Group]
  <2>1. staged \in 0..Group
    BY CobsAssumption DEF TypeOK
  <2> QED BY <1>1, <2>1, WriteTypes DEF Commit
<1>3. wAddr' \in 0..(Depth - 1) /\ staged' = 1
  BY <1>1, Moving DEF Commit
<1>4. Level + staged < Depth
  BY RoomUnlessFull
<1>5. Written = Level + staged
  BY <1>1, <1>4, LevelRises DEF Written, Level, Commit
<1>6. Level \in Nat
  BY LevelRange, CobsAssumption
<1>7. Written >= Level /\ Written + staged' <= Depth
  BY <1>1, <1>3, <1>4, <1>5, <1>6, CobsAssumption
<1> QED BY <1>2, <1>3, <1>7, CobsAssumption DEF Encoded

LEMMA TakeByteEncodes ==
    ASSUME TypeOK, StagedFits, TakeByte
    PROVE  Encoded
<1>1. wAddr \in 0..(Depth - 1) /\ rAddr \in 0..(Depth - 1)
      /\ staged \in 0..Depth /\ staged \in 1..Group
  BY CobsAssumption DEF TypeOK
<1>2. offered # <<>> /\ offered # <<End>> /\ ~Full /\ staged # Group
  BY DEF TakeByte, Takes, GroupFull
<1>3. offered[1] \in 0..Group
  <2>1. PICK token \in Tokens : offered = <<token>>
    BY <1>2 DEF TypeOK, Offers
  <2>2. token # End
    BY <1>2, <2>1
  <2>3. token \in 0..Group
    BY <2>2, CobsAssumption DEF Tokens
  <2> QED BY <2>1, <2>3
<1>4. mem' \in [0..(Depth - 1) -> 0..Group]
  BY <1>1, <1>3, Moving, WriteTypes DEF TakeByte, Stage
<1>5. wAddr' = wAddr /\ staged' = staged + 1 /\ encoder' = encoder
  BY DEF TakeByte, Stage
<1>6. Level + staged < Depth /\ Level \in Nat
  BY <1>2, RoomUnlessFull, LevelRange, CobsAssumption
<1>7. Written = Level
  BY <1>5 DEF Written, Level
<1>8. encoder' \in {"Data", "End"}
  BY <1>5 DEF TypeOK
<1> QED BY <1>1, <1>2, <1>4, <1>5, <1>6, <1>7, <1>8, CobsAssumption DEF Encoded

LEMMA TerminateEncodes ==
    ASSUME TypeOK, StagedFits, Terminate
    PROVE  Encoded
<1>1. wAddr \in 0..(Depth - 1) /\ rAddr \in 0..(Depth - 1)
      /\ 1 \in 0..Depth /\ 0 \in 0..Group /\ staged \in 1..Group
  BY CobsAssumption DEF TypeOK
<1>2. mem' \in [0..(Depth - 1) -> 0..Group]
  BY <1>1, WriteTypes DEF Terminate
<1>3. wAddr' = Address(wAddr + 1) /\ wAddr' \in 0..(Depth - 1)
  BY <1>1, Moving DEF Terminate
<1>4. staged' = staged /\ encoder' = "Data"
  BY DEF Terminate
<1>5. Level + staged < Depth /\ Level \in Nat
  BY RoomUnlessFull, LevelRange, CobsAssumption DEF Terminate
<1>6. Written = Level + 1
  <2>1. Level + 1 < Depth
    BY <1>1, <1>5, CobsAssumption
  <2> QED BY <1>1, <1>3, <2>1, LevelRises DEF Written, Level
<1> QED BY <1>1, <1>2, <1>3, <1>4, <1>5, <1>6, CobsAssumption DEF Encoded

LEMMA EncodeEncodes ==
    ASSUME TypeOK, StagedFits, Encode
    PROVE  Encoded
<1>1. CASE TakeEnd
  BY <1>1, CommitEncodes DEF TakeEnd, Takes
<1>2. CASE TakeNul
  BY <1>2, CommitEncodes DEF TakeNul, Takes, TypeOK
<1>3. CASE TakeByte
  BY <1>3, TakeByteEncodes
<1>4. CASE CloseGroup
  BY <1>4, CommitEncodes DEF CloseGroup, TypeOK
<1>5. CASE Terminate
  BY <1>5, TerminateEncodes
<1>6. CASE Wait
  <2>1. Written = Level
    BY <1>6 DEF Wait, Written, Level
  <2>2. Level \in Nat
    BY LevelRange, CobsAssumption
  <2> QED BY <1>6, <2>1, <2>2 DEF Wait, Encoded, TypeOK, StagedFits
<1> QED BY <1>1, <1>2, <1>3, <1>4, <1>5, <1>6 DEF Encode

--------------------------------------------------------------------------------
(* The read end *)

LEMMA OneLess ==
    ASSUME NEW n \in 0..(Depth - 1), NEW k \in 1..Group, n + k <= Depth
    PROVE  (n - 1) + k <= Depth
  BY CobsAssumption

(* However the encoder moves its end, the other moves after it.             *)
LEMMA ReadFollows ==
    ASSUME TypeOK, Encoded, NEW moved \in BOOLEAN, moved => ~Empty, Read(moved)
    PROVE  rAddr' \in 0..(Depth - 1) /\ rData' \in 0..Group /\ StagedFits'
<1>1. wAddr' \in 0..(Depth - 1) /\ rAddr \in 0..(Depth - 1) /\ 1 \in 0..Depth
  BY CobsAssumption DEF TypeOK, Encoded
<1>2. rAddr' \in 0..(Depth - 1)
  BY <1>1, Moving DEF Read
<1>3. rData' \in 0..Group
  BY <1>2 DEF Read, Fetched, Encoded
<1>4. StagedFits'
  <2>1. Written >= Level /\ Written + staged' <= Depth /\ staged' \in 1..Group
    BY DEF Encoded
  <2>2. Written \in 0..(Depth - 1)
    BY <1>1, LevelIsAddress DEF Written
  <2>3. Level' = Address(wAddr' + Depth - rAddr')
    BY DEF Level
  <2>4. CASE moved
    <3>1. Written > 0
      BY <2>1, <2>2, <2>4, LevelRange, CobsAssumption
    <3>2. rAddr # wAddr'
      BY <1>1, <3>1, LevelValue, CobsAssumption DEF Written
    <3>3. Level' = Written - 1
      BY <1>1, <2>3, <2>4, <3>2, LevelFalls DEF Written, Read
    <3>4. Level' + staged' <= Depth
      BY <2>1, <2>2, <3>3, OneLess, CobsAssumption
    <3> QED BY <3>4 DEF StagedFits
  <2>5. CASE ~moved
    <3>1. Level' = Written
      BY <2>3, <2>5 DEF Written, Read
    <3> QED BY <2>1, <3>1 DEF StagedFits
  <2> QED BY <2>4, <2>5
<1> QED BY <1>2, <1>3, <1>4

--------------------------------------------------------------------------------
(* The decoder *)

Outputs == {<<>>} \cup {<<token>> : token \in 0..End}

(* What the decoder does in a cycle. *)
Decoded ==
    /\ decoder' \in {"Start", "Data", "Error"}
    /\ count' \in 0..Group /\ offset' \in 0..Group
    /\ out' \in Outputs
    /\ GroupFits'

LEMMA EmitTypes ==
    ASSUME TypeOK, NEW token \in Outputs, NEW ready \in BOOLEAN, Emit(token, ready)
    PROVE  out' \in Outputs
  BY DEF TypeOK, Emit, Outputs

LEMMA NothingIsOutput == <<>> \in Outputs
  BY DEF Outputs

LEMMA TokenIsOutput ==
    ASSUME NEW token \in 0..End
    PROVE  <<token>> \in Outputs
  BY DEF Outputs

LEMMA ByteIsToken == 0 \in 0..End /\ End \in 0..End /\ \A byte \in 0..Group : byte \in 0..End
  BY CobsAssumption DEF End

LEMMA DecodeDecodes ==
    ASSUME TypeOK, GroupFits, NEW ready \in BOOLEAN, Decode(rData, ready)
    PROVE  Decoded
<1>1. /\ rData \in 0..Group /\ count \in 0..Group /\ offset \in 0..Group
      /\ 1 \in 0..Group
      /\ decoder \in {"Start", "Data", "Error"}
  BY CobsAssumption DEF TypeOK
<1>2. CASE Header(rData, ready)
  <2>1. out' \in Outputs
    BY <1>2, EmitTypes, NothingIsOutput DEF Header
  <2> QED BY <1>1, <1>2, <2>1, CobsAssumption DEF Header, Decoded, GroupFits
<1>3. CASE GroupEnd(rData, ready)
  <2>1. CASE rData = 0
    <3>1. out' \in Outputs
      BY <1>3, <2>1, EmitTypes, TokenIsOutput, ByteIsToken DEF GroupEnd
    <3> QED BY <1>1, <1>3, <2>1, <3>1 DEF GroupEnd, Decoded, GroupFits
  <2>2. CASE rData # 0
    <3>1. out' \in Outputs
      BY <1>3, <2>2, EmitTypes, NothingIsOutput, TokenIsOutput, ByteIsToken DEF GroupEnd
    <3> QED BY <1>1, <1>3, <2>2, <3>1, CobsAssumption DEF GroupEnd, Decoded, GroupFits
  <2> QED BY <2>1, <2>2
<1>4. CASE GroupByte(rData, ready)
  <2>1. out' \in Outputs
    BY <1>1, <1>4, EmitTypes, NothingIsOutput, TokenIsOutput, ByteIsToken DEF GroupByte
  <2>2. count \in 1..offset /\ offset # count /\ count' = count + 1 /\ offset' = offset
    BY <1>4 DEF GroupByte, GroupFits
  <2>3. decoder' \in {"Start", "Data", "Error"}
    BY <1>1, <1>4 DEF GroupByte
  <2> QED BY <1>1, <2>1, <2>2, <2>3, CobsAssumption DEF Decoded, GroupFits
<1> QED BY <1>2, <1>3, <1>4 DEF Decode

--------------------------------------------------------------------------------
(* A cycle, and the theorems *)

LEMMA InitIInv == Init => IInv
<1> SUFFICES ASSUME Init PROVE IInv
  OBVIOUS
<1>1. 0 \in 0..(Depth - 1) /\ 0 \in 0..Group /\ 1 \in 1..Group
  BY CobsAssumption
<1>2. TypeOK
  BY <1>1 DEF Init, TypeOK
<1>3. StagedFits
  BY <1>1, LevelValue, CobsAssumption DEF Init, StagedFits, Level
<1>4. GroupFits
  BY DEF Init, GroupFits
<1> QED BY <1>2, <1>3, <1>4 DEF IInv

LEMMA CycleIInv ==
    ASSUME IInv, NEW open \in BOOLEAN, NEW ready \in BOOLEAN, Cycle(open, ready)
    PROVE  IInv'
<1> DEFINE moved == open /\ ~Empty /\ DecoderReady(ready)
<1>1. TypeOK /\ StagedFits /\ GroupFits
  BY DEF IInv
<1>2. Encode /\ Offer /\ Read(moved) /\ (moved => ~Empty) /\ moved \in BOOLEAN
  BY DEF Cycle
<1>3. Encoded
  BY <1>1, <1>2, EncodeEncodes
<1>4. rAddr' \in 0..(Depth - 1) /\ rData' \in 0..Group /\ StagedFits'
  BY <1>1, <1>2, <1>3, ReadFollows
<1>5. Decoded
  <2>1. CASE moved
    BY <1>1, <2>1, DecodeDecodes DEF Cycle
  <2>2. CASE ~moved
    <3>1. NoInput(ready)
      BY <2>2 DEF Cycle
    <3>2. out' \in Outputs
      BY <1>1, <3>1, EmitTypes, NothingIsOutput DEF NoInput
    <3> QED BY <1>1, <3>1, <3>2 DEF NoInput, Decoded, TypeOK, GroupFits
  <2> QED BY <2>1, <2>2
<1>6. offered' \in Offers
  BY <1>1, <1>2 DEF Offer, TypeOK
<1>7. TypeOK'
  BY <1>3, <1>4, <1>5, <1>6 DEF TypeOK, Encoded, Decoded, Outputs, Offers, Tokens
<1> QED BY <1>4, <1>5, <1>7 DEF IInv, Decoded

LEMMA NextIInv == IInv /\ [Next]_vars => IInv'
<1> SUFFICES ASSUME IInv, [Next]_vars PROVE IInv'
  OBVIOUS
<1>1. CASE Next
  BY <1>1, CycleIInv DEF Next
<1>2. CASE UNCHANGED vars
  BY <1>2 DEF vars, encoderVars, decoderVars, IInv, TypeOK, StagedFits, Level, GroupFits
<1> QED BY <1>1, <1>2

THEOREM SpecIInv == Spec => []IInv
  BY InitIInv, NextIInv, PTL DEF Spec

(* No register of the encoder or the decoder overflows: `staged` and        *)
(* `count` stay within a byte, and the addresses within the memory, for     *)
(* every width of a byte, depth of the memory, and traffic.                 *)
THEOREM RegistersFit == Spec => []TypeOK
<1>1. IInv => TypeOK
  BY DEF IInv
<1> QED BY <1>1, SpecIInv, PTL

(* The encoder never stages a byte over one that has yet to be read, for    *)
(* every depth of the memory above the size of a group.                     *)
THEOREM StagingIsSafe == Spec => []StagedFits
<1>1. IInv => StagedFits
  BY DEF IInv
<1> QED BY <1>1, SpecIInv, PTL

--------------------------------------------------------------------------------
(* What the decoder will make of the committed bytes *)

(* A place is a state of the decoder before a byte, and how many of the     *)
(* tokens in flight it has put out by then.                                 *)
Places == [mode : {"Start", "Data"}, count : 0..Group, offset : 0..Group, taken : Nat]

(* A group that is not full stands for its bytes and a NUL, which the       *)
(* decoder puts out only if another group follows.                          *)
Gap(x) == IF x.mode = "Data" /\ x.offset # Group THEN 1 ELSE 0

(* The byte b takes the decoder from x to y, with what it should put out.  *)
Parsed(x, y, b, q) ==
    /\ y.taken <= Len(q)
    /\ \/ /\ x.mode = "Start" /\ b # 0
          /\ y.mode = "Data" /\ y.count = 1 /\ y.offset = b /\ y.taken = x.taken
       \/ /\ x.mode = "Data" /\ x.count = x.offset /\ b = 0
          /\ y.mode = "Start" /\ y.count = 1 /\ y.offset = x.offset /\ y.taken = x.taken + 1
          /\ q[y.taken] = End
       \/ /\ x.mode = "Data" /\ x.count = x.offset /\ b # 0
          /\ y.mode = "Data" /\ y.count = 1 /\ y.offset = b /\ y.taken = x.taken + Gap(x)
          /\ Gap(x) = 1 => q[y.taken] = 0
       \/ /\ x.mode = "Data" /\ x.count # x.offset /\ b # 0
          /\ y.mode = "Data" /\ y.count = x.count + 1 /\ y.offset = x.offset
          /\ y.taken = x.taken + 1
          /\ q[y.taken] = b

(* p are the places of the decoder before, between and after the first n    *)
(* bytes of c, of which it makes the tokens q.                              *)
Parses(p, n, c, q) ==
    /\ p \in [0..n -> Places]
    /\ \A i \in 0..(n - 1) : Parsed(p[i], p[i + 1], c[i], q)
    /\ \A i, j \in 0..n : i <= j => p[i].taken <= p[j].taken

(* The tokens that are not in committed bytes are those of the group that  *)
(* is staged, but for the NUL before it, or the end of the packet.         *)
Stages(x, enc, n, c, s, q) ==
    /\ x.mode = "Data" => x.count = x.offset
    /\ IF enc = "End"
       THEN x.mode = "Data" /\ s = 1 /\ Len(q) = x.taken + 1 /\ q[x.taken + 1] = End
       ELSE /\ Gap(x) = 1 => q[x.taken + 1] = 0
            /\ Len(q) = x.taken + Gap(x) + s - 1
            /\ \A j \in 1..(s - 1) : q[x.taken + Gap(x) + j] = c[n + j] /\ c[n + j] # 0

(* Later bytes and tokens do not matter. *)
LEMMA ParseStays ==
    ASSUME NEW n \in Nat, NEW p, NEW c, NEW e, NEW q, NEW r, Len(q) \in Nat, Len(r) \in Nat,
           Parses(p, n, c, q), \A i \in 0..(n - 1) : e[i] = c[i],
           Len(q) <= Len(r), \A i \in 1..Len(q) : r[i] = q[i]
    PROVE  Parses(p, n, e, r)
<1>1. ASSUME NEW i \in 0..(n - 1) PROVE Parsed(p[i], p[i + 1], e[i], r)
  <2>1. /\ Parsed(p[i], p[i + 1], c[i], q) /\ p[i] \in Places /\ p[i + 1] \in Places
        /\ e[i] = c[i]
    BY DEF Parses
  <2>2. p[i].taken \in Nat /\ p[i + 1].taken \in Nat
    BY <2>1 DEF Places
  <2>3. ASSUME p[i + 1].taken = p[i].taken + 1 PROVE r[p[i + 1].taken] = q[p[i + 1].taken]
    <3>1. p[i + 1].taken \in 1..Len(q)
      BY <2>1, <2>2, <2>3 DEF Parsed
    <3> QED BY <3>1
  <2>4. p[i + 1].taken <= Len(r)
    BY <2>1, <2>2 DEF Parsed
  <2>5. Gap(p[i]) = 1 \/ Gap(p[i]) = 0
    BY DEF Gap
  <2> QED BY <2>1, <2>2, <2>3, <2>4, <2>5 DEF Parsed
<1> QED BY <1>1 DEF Parses

(* One more byte. *)
LEMMA ParseGrows ==
    ASSUME NEW n \in Nat, NEW p, NEW c, NEW q, NEW y \in Places, Len(q) \in Nat,
           Parses(p, n, c, q), Parsed(p[n], y, c[n], q)
    PROVE  LET r == [i \in 0..(n + 1) |-> IF i <= n THEN p[i] ELSE y]
           IN  Parses(r, n + 1, c, q) /\ r[0] = p[0] /\ r[n + 1] = y
<1> DEFINE r == [i \in 0..(n + 1) |-> IF i <= n THEN p[i] ELSE y]
<1>1. /\ p \in [0..n -> Places] /\ r \in [0..(n + 1) -> Places] /\ r[n + 1] = y
      /\ \A i \in 0..n : r[i] = p[i]
  BY DEF Parses
<1>2. p[n].taken <= y.taken /\ y.taken \in Nat /\ p[n].taken \in Nat
  BY <1>1 DEF Parsed, Places, Gap
<1>3. ASSUME NEW i \in 0..n PROVE Parsed(r[i], r[i + 1], c[i], q)
  <2>1. CASE i = n
    BY <1>1, <2>1
  <2>2. CASE i # n
    <3>1. i \in 0..(n - 1) /\ i + 1 \in 0..n
      BY <2>2
    <3> QED BY <1>1, <3>1 DEF Parses
  <2> QED BY <2>1, <2>2
<1>4. ASSUME NEW i \in 0..(n + 1), NEW j \in 0..(n + 1), i <= j
      PROVE  r[i].taken <= r[j].taken
  <2>1. CASE j = n + 1 /\ i \in 0..n
    <3>1. p[i].taken <= p[n].taken /\ p[i].taken \in Nat
      BY <1>1, <2>1 DEF Parses, Places
    <3> QED BY <1>1, <1>2, <2>1, <3>1
  <2>2. CASE j = n + 1 /\ i = n + 1
    BY <1>1, <1>2, <2>2
  <2>3. CASE j \in 0..n
    BY <1>1, <1>4, <2>3 DEF Parses
  <2> QED BY <2>1, <2>2, <2>3
<1>5. (n + 1) - 1 = n
  OBVIOUS
<1> QED BY <1>1, <1>3, <1>4, <1>5 DEF Parses

(* The place after byte n + k of a group of s bytes that starts at n. *)
InGroup(x, k, s) ==
    [mode |-> "Data", count |-> k, offset |-> s, taken |-> x.taken + Gap(x) + (k - 1)]

(* A group: the byte that says where it ends, and its bytes. *)
LEMMA ParseGroup ==
    ASSUME NEW n \in Nat, NEW s \in 1..Group, NEW p, NEW c, NEW e, NEW q, Len(q) \in Nat,
           Parses(p, n, c, q), Stages(p[n], "Data", n, c, s, q),
           e[n] = s, \A i \in 0..(n + s - 1) : i # n => e[i] = c[i]
    PROVE  LET r == [i \in 0..(n + s) |-> IF i <= n THEN p[i] ELSE InGroup(p[n], i - n, s)]
           IN  /\ Parses(r, n + s, e, q) /\ r[0] = p[0]
               /\ r[n + s] = InGroup(p[n], s, s) /\ r[n + s].taken = Len(q)
<1> DEFINE x == p[n]
           r == [i \in 0..(n + s) |-> IF i <= n THEN p[i] ELSE InGroup(x, i - n, s)]
<1>1. /\ p \in [0..n -> Places] /\ x \in Places /\ Gap(x) \in {0, 1}
      /\ x.taken \in Nat /\ s \in Nat /\ s >= 1 /\ Group \in Nat
      /\ \A i \in 0..n : r[i] = p[i]
      /\ \A k \in 1..s : r[n + k] = InGroup(x, k, s)
  <2>1. p \in [0..n -> Places] /\ x \in Places
    BY DEF Parses
  <2>2. ASSUME NEW k \in 1..s PROVE r[n + k] = InGroup(x, k, s)
    <3>1. n + k \in 0..(n + s) /\ ~(n + k <= n) /\ (n + k) - n = k
      OBVIOUS
    <3> QED BY <3>1
  <2> QED BY <2>1, <2>2, CobsAssumption DEF Places, Gap
<1>2. /\ Len(q) = x.taken + Gap(x) + s - 1
      /\ Gap(x) = 1 => q[x.taken + 1] = 0
      /\ x.mode = "Data" => x.count = x.offset
      /\ \A j \in 1..(s - 1) : q[x.taken + Gap(x) + j] = c[n + j] /\ c[n + j] # 0
  BY DEF Stages
<1> HIDE DEF r, x
<1>3. ASSUME NEW k \in 1..s
      PROVE  /\ InGroup(x, k, s) \in Places
             /\ InGroup(x, k, s).taken = x.taken + Gap(x) + (k - 1)
             /\ InGroup(x, k, s).mode = "Data" /\ InGroup(x, k, s).count = k
             /\ InGroup(x, k, s).offset = s
  <2>1. x.taken + Gap(x) + (k - 1) \in Nat
    BY <1>1
  <2>2. k \in 0..Group /\ s \in 0..Group
    BY <1>1
  <2> QED BY <2>1, <2>2 DEF InGroup, Places
<1>4. r \in [0..(n + s) -> Places]
  <2>1. ASSUME NEW i \in 0..(n + s) PROVE r[i] \in Places
    <3>1. CASE i \in 0..n
      BY <1>1, <3>1
    <3>2. CASE i \notin 0..n
      <4>1. i - n \in 1..s /\ n + (i - n) = i
        BY <3>2
      <4>2. r[n + (i - n)] = InGroup(x, i - n, s) /\ InGroup(x, i - n, s) \in Places
        BY <1>1, <1>3, <4>1
      <4> QED BY <4>1, <4>2
    <3> QED BY <3>1, <3>2
  <2> QED BY <2>1 DEF r
<1>5. ASSUME NEW i \in 0..(n + s - 1) PROVE Parsed(r[i], r[i + 1], e[i], q)
  <2>1. CASE i \in 0..(n - 1)
    <3>1. i \in 0..n /\ i + 1 \in 0..n /\ i # n /\ i \in 0..(n + s - 1)
      BY <2>1
    <3>2. r[i] = p[i] /\ r[i + 1] = p[i + 1] /\ e[i] = c[i]
      BY <1>1, <3>1
    <3> QED BY <2>1, <3>2 DEF Parses
  <2>2. CASE i = n
    <3>1. r[i] = x /\ r[i + 1] = InGroup(x, 1, s) /\ e[i] = s /\ s # 0
      <4>1. n \in 0..n /\ 1 \in 1..s
        BY <1>1
      <4> QED BY <1>1, <2>2, <4>1 DEF x
    <3>2. /\ InGroup(x, 1, s).taken = x.taken + Gap(x)
          /\ InGroup(x, 1, s).mode = "Data" /\ InGroup(x, 1, s).count = 1
          /\ InGroup(x, 1, s).offset = s
      <4>1. 1 \in 1..s /\ x.taken + Gap(x) + (1 - 1) = x.taken + Gap(x)
        BY <1>1
      <4> QED BY <1>3, <4>1
    <3>3. x.taken + Gap(x) <= Len(q) /\ (x.mode = "Start" => x.taken + Gap(x) = x.taken)
      BY <1>1, <1>2 DEF Gap
    <3>4. x.mode \in {"Start", "Data"}
      BY <1>1 DEF Places
    <3>5. Gap(x) = 1 => q[x.taken + Gap(x)] = 0
      BY <1>2
    <3> QED BY <1>2, <3>1, <3>2, <3>3, <3>4, <3>5 DEF Parsed
  <2>3. CASE i \in (n + 1)..(n + s - 1)
    <3>1. PICK k \in 1..(s - 1) : i = n + k
      <4>1. i - n \in 1..(s - 1) /\ i = n + (i - n)
        BY <2>3, <1>1
      <4> QED BY <4>1
    <3>2. k \in 1..s /\ k + 1 \in 1..s /\ i + 1 = n + (k + 1) /\ k # s /\ (k + 1) - 1 = k /\ k \in Nat
      BY <1>1, <3>1
    <3>3. r[i] = InGroup(x, k, s) /\ r[i + 1] = InGroup(x, k + 1, s)
      BY <1>1, <3>1, <3>2
    <3>4. /\ InGroup(x, k, s).taken = x.taken + Gap(x) + (k - 1)
          /\ InGroup(x, k, s).mode = "Data" /\ InGroup(x, k, s).count = k
          /\ InGroup(x, k, s).offset = s
      BY <1>3, <3>2
    <3>5. /\ InGroup(x, k + 1, s).taken = x.taken + Gap(x) + k
          /\ InGroup(x, k + 1, s).mode = "Data" /\ InGroup(x, k + 1, s).count = k + 1
          /\ InGroup(x, k + 1, s).offset = s
      BY <1>3, <3>2
    <3>6. e[i] = c[n + k] /\ e[i] # 0 /\ q[x.taken + Gap(x) + k] = e[i]
      <4>1. i # n
        BY <3>1, <3>2
      <4>2. e[i] = c[i]
        BY <4>1
      <4> QED BY <1>2, <3>1, <4>2
    <3>7. /\ x.taken + Gap(x) + k = x.taken + Gap(x) + (k - 1) + 1
          /\ x.taken + Gap(x) + k <= Len(q)
      BY SMTT(30), ZenonT(30), <1>1, <1>2, <3>1, <3>2
    <3> QED BY <3>2, <3>3, <3>4, <3>5, <3>6, <3>7 DEF Parsed
  <2> QED BY <2>1, <2>2, <2>3
<1>6. ASSUME NEW i \in 0..(n + s), NEW j \in 0..(n + s), i <= j
      PROVE  r[i].taken <= r[j].taken
  <2>1. CASE j \in 0..n
    <3>1. i \in 0..n
      BY <1>6, <2>1
    <3> QED BY <1>1, <1>6, <2>1, <3>1 DEF Parses
  <2>2. CASE j \notin 0..n
    <3>1. PICK k \in 1..s : j = n + k
      <4>1. j - n \in 1..s /\ n + (j - n) = j
        BY <2>2
      <4> QED BY <4>1
    <3>2. r[j].taken = x.taken + Gap(x) + (k - 1)
      BY <1>1, <1>3, <3>1
    <3>3. x.taken \in Nat /\ Gap(x) \in Nat /\ k \in Nat /\ k >= 1
      BY <1>1
    <3>4. CASE i \in 0..n
      <4>1. p[i].taken <= x.taken /\ p[i].taken \in Nat /\ r[i] = p[i]
        BY <1>1, <3>4 DEF Parses, Places, x
      <4> QED BY ONLY <3>2, <3>3, <4>1
    <3>5. CASE i \notin 0..n
      <4>1. PICK l \in 1..s : i = n + l
        <5>1. i - n \in 1..s /\ n + (i - n) = i
          BY <3>5
        <5> QED BY <5>1
      <4>2. r[i].taken = x.taken + Gap(x) + (l - 1)
        BY <1>1, <1>3, <4>1
      <4>3. l <= k /\ l \in Nat
        BY <1>6, <3>1, <4>1
      <4> QED BY ONLY <3>2, <3>3, <4>2, <4>3
    <3> QED BY <3>4, <3>5
  <2> QED BY <2>1, <2>2
<1>7. r[0] = p[0] /\ r[n + s] = InGroup(x, s, s)
  <2>1. 0 \in 0..n /\ s \in 1..s
    BY <1>1
  <2> QED BY <1>1, <2>1
<1>8. r[n + s].taken = Len(q)
  <2>1. s \in 1..s
    BY <1>1
  <2>2. InGroup(x, s, s).taken = x.taken + Gap(x) + (s - 1)
    BY <1>3, <2>1
  <2> QED BY <1>1, <1>2, <1>7, <2>2
<1>9. Parses(r, n + s, e, q)
  BY <1>4, <1>5, <1>6 DEF Parses
<1> QED BY <1>7, <1>8, <1>9 DEF r, x

(* The decoder gets m bytes, and d tokens are taken from it. *)
LEMMA ParseMoves ==
    ASSUME NEW n \in Nat, NEW m \in {0, 1}, NEW d \in {0, 1}, m <= n,
           NEW p, NEW c, NEW e, NEW q, NEW t, Len(q) \in Nat, Len(t) \in Nat,
           Parses(p, n, c, q), p[m].taken >= d,
           Len(t) = Len(q) - d, \A i \in 1..Len(t) : t[i] = q[i + d],
           \A i \in 0..(n - m - 1) : e[i] = c[i + m]
    PROVE  LET r == [i \in 0..(n - m) |-> [p[i + m] EXCEPT !.taken = @ - d]]
           IN  Parses(r, n - m, e, t)
<1> DEFINE r == [i \in 0..(n - m) |-> [p[i + m] EXCEPT !.taken = @ - d]]
<1>1. p \in [0..n -> Places]
  BY DEF Parses
<1>2. ASSUME NEW i \in 0..(n - m)
      PROVE  /\ i + m \in 0..n /\ p[i + m] \in Places
             /\ p[i + m].taken >= d /\ p[i + m].taken \in Nat
             /\ r[i] \in Places
             /\ r[i].mode = p[i + m].mode /\ r[i].count = p[i + m].count
             /\ r[i].offset = p[i + m].offset /\ r[i].taken = p[i + m].taken - d
  <2>1. i + m \in 0..n /\ m \in 0..n /\ m <= i + m
    OBVIOUS
  <2>2. p[i + m] \in Places /\ p[m] \in Places /\ p[m].taken <= p[i + m].taken
    BY <1>1, <2>1 DEF Parses
  <2>3. p[i + m].taken >= d /\ p[i + m].taken \in Nat /\ p[m].taken \in Nat
    BY <2>2 DEF Places
  <2>4. p[i + m].taken - d \in Nat
    BY <2>3
  <2>5. r[i] = [p[i + m] EXCEPT !.taken = @ - d]
    OBVIOUS
  <2> HIDE DEF r
  <2> QED BY <2>1, <2>2, <2>3, <2>4, <2>5 DEF Places
<1>3. r \in [0..(n - m) -> Places]
  BY <1>2
<1> HIDE DEF r
<1>4. ASSUME NEW i \in 0..(n - m - 1) PROVE Parsed(r[i], r[i + 1], e[i], t)
  <2>1. /\ i \in 0..(n - m) /\ i + 1 \in 0..(n - m) /\ i + m \in 0..(n - 1)
        /\ (i + 1) + m = (i + m) + 1
    OBVIOUS
  <2> DEFINE x == p[i + m]
             y == p[(i + m) + 1]
             u == r[i]
             v == r[i + 1]
  <2>2. Parsed(x, y, e[i], q)
    BY <2>1 DEF Parses
  <2>3. /\ x \in Places /\ x.taken >= d /\ x.taken \in Nat
        /\ u.mode = x.mode /\ u.count = x.count /\ u.offset = x.offset /\ u.taken = x.taken - d
    BY <1>2, <2>1
  <2>4. /\ y \in Places /\ y.taken >= d /\ y.taken \in Nat
        /\ v.mode = y.mode /\ v.count = y.count /\ v.offset = y.offset /\ v.taken = y.taken - d
    <3>1. /\ p[(i + 1) + m] \in Places /\ p[(i + 1) + m].taken >= d /\ p[(i + 1) + m].taken \in Nat
          /\ v.mode = p[(i + 1) + m].mode /\ v.count = p[(i + 1) + m].count
          /\ v.offset = p[(i + 1) + m].offset /\ v.taken = p[(i + 1) + m].taken - d
      BY <1>2, <2>1
    <3> QED BY <2>1, <3>1
  <2> HIDE DEF x, y, u, v
  <2>5. Gap(u) = Gap(x) /\ Gap(x) \in {0, 1}
    BY <2>3 DEF Gap
  <2>6. y.taken <= Len(q)
    BY <2>2 DEF Parsed
  <2>7. v.taken <= Len(t)
    BY <2>4, <2>6
  <2>8. y.taken = x.taken + 1 => v.taken = u.taken + 1 /\ t[v.taken] = q[y.taken]
    <3>1. SUFFICES ASSUME y.taken = x.taken + 1 PROVE v.taken = u.taken + 1 /\ t[v.taken] = q[y.taken]
      OBVIOUS
    <3>2. v.taken \in 1..Len(t) /\ v.taken + d = y.taken /\ v.taken = u.taken + 1
      BY <2>3, <2>4, <2>7, <3>1
    <3>3. t[v.taken] = q[v.taken + d]
      BY <3>2
    <3> QED BY <3>2, <3>3
  <2>9. y.taken = x.taken => v.taken = u.taken
    BY <2>3, <2>4
  <2>10. Gap(x) = 0 => x.taken + Gap(x) = x.taken
    BY <2>3
  <2>11. u.taken + 0 = u.taken
    BY <2>3
  <2>12. Parsed(u, v, e[i], t)
    <3>1. CASE /\ x.mode = "Start" /\ e[i] # 0
               /\ y.mode = "Data" /\ y.count = 1 /\ y.offset = e[i] /\ y.taken = x.taken
      BY <2>3, <2>4, <2>7, <2>9, <3>1 DEF Parsed
    <3>2. CASE /\ x.mode = "Data" /\ x.count = x.offset /\ e[i] = 0
               /\ y.mode = "Start" /\ y.count = 1 /\ y.offset = x.offset /\ y.taken = x.taken + 1
               /\ q[y.taken] = End
      BY <2>3, <2>4, <2>7, <2>8, <3>2 DEF Parsed
    <3>3. CASE /\ x.mode = "Data" /\ x.count = x.offset /\ e[i] # 0
               /\ y.mode = "Data" /\ y.count = 1 /\ y.offset = e[i] /\ y.taken = x.taken + Gap(x)
               /\ Gap(x) = 1 => q[y.taken] = 0
      <4>1. v.taken = u.taken + Gap(u) /\ (Gap(u) = 1 => t[v.taken] = 0)
        BY <2>3, <2>5, <2>8, <2>9, <2>10, <2>11, <3>3
      <4> QED BY <2>3, <2>4, <2>7, <3>3, <4>1 DEF Parsed
    <3>4. CASE /\ x.mode = "Data" /\ x.count # x.offset /\ e[i] # 0
               /\ y.mode = "Data" /\ y.count = x.count + 1 /\ y.offset = x.offset
               /\ y.taken = x.taken + 1
               /\ q[y.taken] = e[i]
      BY <2>3, <2>4, <2>7, <2>8, <3>4 DEF Parsed
    <3> QED BY <2>2, <3>1, <3>2, <3>3, <3>4 DEF Parsed
  <2> QED BY <2>12 DEF u, v
<1>5. ASSUME NEW i \in 0..(n - m), NEW j \in 0..(n - m), i <= j
      PROVE  r[i].taken <= r[j].taken
  <2>1. i + m \in 0..n /\ j + m \in 0..n /\ i + m <= j + m
    BY <1>5
  <2>2. p[i + m].taken <= p[j + m].taken
    BY <2>1 DEF Parses
  <2>3. /\ r[i].taken = p[i + m].taken - d /\ p[i + m].taken \in Nat
        /\ r[j].taken = p[j + m].taken - d /\ p[j + m].taken \in Nat
    BY <1>2
  <2> QED BY <2>2, <2>3
<1>6. Parses(r, n - m, e, t)
  BY <1>3, <1>4, <1>5 DEF Parses
<1> QED BY <1>6 DEF r

--------------------------------------------------------------------------------
(* The memory, seen from the read end *)

Ring == [i \in 0..(Depth - 1) |-> mem[Address(rAddr + i)]]

(* After what the encoder has written, and before the read end has moved. *)
Grown == [i \in 0..(Depth - 1) |-> mem'[Address(rAddr + i)]]

LEMMA SamePlace ==
    ASSUME NEW w \in 0..(Depth - 1), NEW r \in 0..(Depth - 1), NEW k \in Nat,
           Address(w + Depth - r) + k < Depth
    PROVE  Address(w + k) = Address(r + (Address(w + Depth - r) + k))
<1> DEFINE n == Address(w + Depth - r)
<1>1. n = (IF r <= w THEN w - r ELSE w + Depth - r) /\ n \in 0..(Depth - 1)
  BY LevelValue, LevelIsAddress
<1>2. k \in 0..Depth /\ n + k \in 0..Depth /\ n + k < Depth
  BY <1>1, CobsAssumption
<1>3. Address(w + k) = IF w + k < Depth THEN w + k ELSE w + k - Depth
  BY <1>2, Moving
<1>4. Address(r + (n + k)) = IF r + (n + k) < Depth THEN r + (n + k) ELSE r + (n + k) - Depth
  BY <1>2, Moving
<1> HIDE DEF n
<1>5. Address(w + k) = Address(r + (n + k))
  BY <1>1, <1>2, <1>3, <1>4, CobsAssumption
<1> QED BY <1>5 DEF n

LEMMA OtherPlace ==
    ASSUME NEW r \in 0..(Depth - 1), NEW i \in 0..(Depth - 1), NEW j \in 0..(Depth - 1),
           Address(r + i) = Address(r + j)
    PROVE  i = j
<1>1. i \in 0..Depth /\ j \in 0..Depth
  BY CobsAssumption
<1>2. Address(r + i) = IF r + i < Depth THEN r + i ELSE r + i - Depth
  BY <1>1, Moving
<1>3. Address(r + j) = IF r + j < Depth THEN r + j ELSE r + j - Depth
  BY <1>1, Moving
<1> QED BY <1>2, <1>3, CobsAssumption

(* A byte is written k bytes behind the last that is committed. *)
LEMMA WriteGrows ==
    ASSUME TypeOK, NEW k \in Nat, Level + k < Depth, NEW byte, Write(Address(wAddr + k), byte)
    PROVE  /\ Level + k \in 0..(Depth - 1)
           /\ Grown[Level + k] = byte
           /\ \A i \in 0..(Depth - 1) : i # Level + k => Grown[i] = Ring[i]
<1>1. /\ wAddr \in 0..(Depth - 1) /\ rAddr \in 0..(Depth - 1) /\ DOMAIN mem = 0..(Depth - 1)
      /\ Depth \in Nat
  BY CobsAssumption DEF TypeOK
<1>2. Level + k \in 0..(Depth - 1)
  BY LevelRange, CobsAssumption
<1> DEFINE at == Address(rAddr + (Level + k))
<1>3. Address(wAddr + k) = at
  BY <1>1, SamePlace DEF Level
<1>4. mem' = [mem EXCEPT ![at] = byte]
  BY <1>3 DEF Write
<1>5. ASSUME NEW i \in 0..(Depth - 1)
      PROVE  Address(rAddr + i) \in 0..(Depth - 1) /\ (Address(rAddr + i) = at => i = Level + k)
  <2>1. i \in 0..Depth
    BY <1>1
  <2>2. Address(rAddr + i) \in 0..(Depth - 1)
    BY <1>1, <2>1, Moving
  <2> QED BY <1>1, <1>2, <2>2, OtherPlace
<1>6. Grown[Level + k] = byte
  BY <1>1, <1>2, <1>4, <1>5 DEF Grown
<1>7. ASSUME NEW i \in 0..(Depth - 1), i # Level + k PROVE Grown[i] = Ring[i]
  BY <1>1, <1>4, <1>5, <1>7 DEF Grown, Ring
<1> QED BY <1>2, <1>6, <1>7

--------------------------------------------------------------------------------
(* The encoder keeps what the decoder will make of its bytes *)

Here == [mode |-> decoder, count |-> count, offset |-> offset, taken |-> Len(out)]

Parsing(p) ==
    /\ Parses(p, Level, Ring, inflight)
    /\ p[0] = Here
    /\ Stages(p[Level], encoder, Level, Ring, staged, inflight)

ParseFits ==
    /\ rData = mem[rAddr]
    /\ inflight \in Seq(0..End)
    /\ \E p : Parsing(p)
    /\ RoundTrip

Entered == inflight \o (IF Takes THEN offered ELSE <<>>)

Encodes(r) ==
    /\ Parses(r, Written, Grown, Entered)
    /\ r[0] = Here
    /\ Stages(r[Written], encoder', Written, Grown, staged', Entered)

LEMMA EnteredTokens ==
    ASSUME TypeOK, inflight \in Seq(0..End)
    PROVE  /\ Entered \in Seq(0..End)
           /\ ~Takes => Entered = inflight
           /\ Takes => /\ offered = <<offered[1]>> /\ offered[1] \in Tokens /\ offered[1] \in 0..End
                       /\ Len(Entered) = Len(inflight) + 1
                       /\ Entered[Len(inflight) + 1] = offered[1]
           /\ Len(inflight) \in Nat /\ Len(inflight) <= Len(Entered) /\ Len(Entered) \in Nat
           /\ \A i \in 1..Len(inflight) : Entered[i] = inflight[i]
<1>1. Tokens \subseteq 0..End
  BY CobsAssumption DEF Tokens, End
<1>2. CASE ~Takes
  <2>1. Entered = inflight \o <<>>
    BY <1>2 DEF Entered
  <2>2. Entered = inflight
    BY <2>1
  <2> QED BY <1>2, <2>2
<1>3. CASE Takes
  <2>1. PICK token \in Tokens : offered = <<token>>
    BY <1>3 DEF Takes, TypeOK, Offers
  <2>2. Entered = inflight \o <<token>> /\ token \in 0..End /\ offered[1] = token
    BY <1>1, <1>3, <2>1 DEF Entered
  <2> QED BY <1>3, <2>1, <2>2
<1> QED BY <1>2, <1>3

(* What is common to all ways to close a group. *)
LEMMA CommitParses ==
    ASSUME TypeOK, StagedFits, ~Full, Commit, NEW p, Parsing(p), encoder = "Data",
           inflight \in Seq(0..End)
    PROVE  \E r : /\ Parses(r, Written, Grown, Entered) /\ r[0] = Here
                  /\ Gap(r[Written]) = (IF staged = Group THEN 0 ELSE 1)
                  /\ r[Written].mode = "Data" /\ r[Written].count = r[Written].offset
                  /\ r[Written].taken = Len(inflight)
<1>1. /\ wAddr \in 0..(Depth - 1) /\ rAddr \in 0..(Depth - 1) /\ staged \in 1..Group
      /\ staged \in Nat /\ staged \in 0..Depth /\ Depth \in Nat
  BY CobsAssumption DEF TypeOK
<1>2. Level + staged < Depth /\ Level \in 0..(Depth - 1)
  BY RoomUnlessFull, LevelRange
<1>3. Written = Level + staged
  BY <1>1, <1>2, LevelRises DEF Written, Level, Commit
<1>4. Level \in Nat /\ Len(inflight) \in Nat
  BY <1>1, <1>2
<1>5. Grown[Level] = staged /\ \A i \in 0..(Depth - 1) : i # Level => Grown[i] = Ring[i]
  <2>1. Address(wAddr + 0) = wAddr
    <3>1. 0 \in 0..Depth /\ wAddr + 0 = wAddr /\ wAddr < Depth
      BY <1>1
    <3>2. Address(wAddr + 0) = IF wAddr + 0 < Depth THEN wAddr + 0 ELSE wAddr + 0 - Depth
      BY <1>1, <3>1, Moving
    <3> QED BY <3>1, <3>2
  <2>2. Write(Address(wAddr + 0), staged) /\ Level + 0 = Level /\ Level + 0 < Depth
    BY <1>1, <1>2, <2>1 DEF Commit
  <2> QED BY <2>2, WriteGrows
<1>6. \A i \in 0..(Level + staged - 1) : i # Level => Grown[i] = Ring[i]
  BY <1>1, <1>2, <1>5
<1> DEFINE x == p[Level]
           r == [i \in 0..(Level + staged) |-> IF i <= Level THEN p[i] ELSE InGroup(x, i - Level, staged)]
<1>7. /\ Parses(r, Level + staged, Grown, inflight) /\ r[0] = p[0]
      /\ r[Level + staged] = InGroup(x, staged, staged) /\ r[Level + staged].taken = Len(inflight)
  <2>1. Parses(p, Level, Ring, inflight) /\ Stages(p[Level], "Data", Level, Ring, staged, inflight)
    BY DEF Parsing
  <2> HIDE DEF Grown, Ring, Level, Parses, Stages
  <2> QED BY <1>1, <1>4, <1>5, <1>6, <2>1, ParseGroup
<1> HIDE DEF r, x
<1>8. Parses(r, Written, Grown, Entered)
  <2>1. Parses(r, Written, Grown, inflight) /\ Written \in Nat
    BY <1>1, <1>3, <1>4, <1>7
  <2>2. /\ Len(inflight) <= Len(Entered) /\ Len(Entered) \in Nat
        /\ \A i \in 1..Len(inflight) : Entered[i] = inflight[i]
    BY EnteredTokens
  <2> HIDE DEF Grown, Written, Entered, Parses
  <2> QED BY <1>4, <2>1, <2>2, ParseStays
<1>9. /\ r[Written].mode = "Data" /\ r[Written].count = staged /\ r[Written].offset = staged
      /\ r[Written].taken = Len(inflight)
  BY <1>3, <1>7 DEF InGroup
<1>10. r[0] = Here
  BY <1>7 DEF Parsing
<1> QED BY <1>8, <1>9, <1>10 DEF Gap

LEMMA TakeEndParses ==
    ASSUME TypeOK, StagedFits, TakeEnd, NEW p, Parsing(p), inflight \in Seq(0..End)
    PROVE  \E r : Encodes(r)
<1>1. /\ Takes /\ ~Full /\ encoder = "Data" /\ Commit /\ encoder' = "End" /\ staged' = 1
      /\ offered = <<End>>
  BY DEF TakeEnd, Takes, Commit
<1>2. PICK r : /\ Parses(r, Written, Grown, Entered) /\ r[0] = Here
               /\ r[Written].mode = "Data" /\ r[Written].count = r[Written].offset
               /\ r[Written].taken = Len(inflight)
  BY <1>1, CommitParses
<1>3. Len(Entered) = Len(inflight) + 1 /\ Entered[Len(inflight) + 1] = End
  <2>1. offered[1] = End
    BY <1>1
  <2> QED BY <1>1, <2>1, EnteredTokens
<1>4. Stages(r[Written], encoder', Written, Grown, staged', Entered)
  BY <1>1, <1>2, <1>3 DEF Stages
<1> QED BY <1>2, <1>4 DEF Encodes

LEMMA TakeNulParses ==
    ASSUME TypeOK, StagedFits, TakeNul, NEW p, Parsing(p), inflight \in Seq(0..End)
    PROVE  \E r : Encodes(r)
<1>1. /\ Takes /\ ~Full /\ encoder = "Data" /\ Commit /\ encoder' = "Data" /\ staged' = 1
      /\ offered = <<0>>
  BY DEF TakeNul, Takes, Commit
<1>2. staged # Group
  <2>1. 0 # End
    BY CobsAssumption DEF End
  <2>2. <<0>> # <<End>>
    BY <2>1
  <2> QED BY <1>1, <2>2 DEF Takes, GroupFull
<1>3. PICK r : /\ Parses(r, Written, Grown, Entered) /\ r[0] = Here /\ Gap(r[Written]) = 1
               /\ r[Written].mode = "Data" /\ r[Written].count = r[Written].offset
               /\ r[Written].taken = Len(inflight)
  BY <1>1, <1>2, CommitParses
<1>4. Len(Entered) = Len(inflight) + 1 /\ Entered[Len(inflight) + 1] = 0 /\ Len(inflight) \in Nat
  <2>1. offered[1] = 0
    BY <1>1
  <2> QED BY <1>1, <2>1, EnteredTokens
<1>5. Stages(r[Written], encoder', Written, Grown, staged', Entered)
  BY <1>1, <1>3, <1>4 DEF Stages
<1> QED BY <1>3, <1>5 DEF Encodes

LEMMA CloseGroupParses ==
    ASSUME TypeOK, StagedFits, CloseGroup, NEW p, Parsing(p), inflight \in Seq(0..End)
    PROVE  \E r : Encodes(r)
<1>1. /\ ~Takes /\ ~Full /\ encoder = "Data" /\ Commit /\ encoder' = "Data" /\ staged' = 1
      /\ staged = Group
  BY DEF CloseGroup, Takes, Commit, GroupFull
<1>2. PICK r : /\ Parses(r, Written, Grown, Entered) /\ r[0] = Here /\ Gap(r[Written]) = 0
               /\ r[Written].mode = "Data" /\ r[Written].count = r[Written].offset
               /\ r[Written].taken = Len(inflight)
  BY <1>1, CommitParses
<1>3. Entered = inflight /\ Len(inflight) \in Nat
  BY <1>1, EnteredTokens
<1>4. Stages(r[Written], encoder', Written, Grown, staged', Entered)
  BY <1>1, <1>2, <1>3 DEF Stages
<1> QED BY <1>2, <1>4 DEF Encodes

LEMMA TakeByteParses ==
    ASSUME TypeOK, StagedFits, TakeByte, NEW p, Parsing(p), inflight \in Seq(0..End)
    PROVE  \E r : Encodes(r)
<1>1. /\ Takes /\ ~Full /\ encoder = "Data" /\ encoder' = "Data" /\ staged' = staged + 1
      /\ Write(Address(wAddr + staged), offered[1]) /\ wAddr' = wAddr
      /\ offered # <<0>>
  BY DEF TakeByte, Takes, Stage
<1>2. /\ staged \in 1..Group /\ staged \in Nat /\ Len(inflight) \in Nat /\ Depth \in Nat
      /\ rAddr \in 0..(Depth - 1)
  BY CobsAssumption DEF TypeOK
<1>3. Level + staged < Depth /\ Level \in 0..(Depth - 1) /\ Written = Level /\ Level \in Nat
  BY <1>1, <1>2, RoomUnlessFull, LevelRange DEF Written, Level
<1>4. /\ Grown[Level + staged] = offered[1]
      /\ \A i \in 0..(Depth - 1) : i # Level + staged => Grown[i] = Ring[i]
  BY <1>1, <1>2, <1>3, WriteGrows
<1>5. /\ Len(Entered) = Len(inflight) + 1 /\ Entered[Len(inflight) + 1] = offered[1]
      /\ offered[1] # 0 /\ \A i \in 1..Len(inflight) : Entered[i] = inflight[i]
  BY <1>1, EnteredTokens
<1>6. \A i \in 0..(Level + staged - 1) : Grown[i] = Ring[i]
  BY <1>2, <1>3, <1>4
<1>7. Parses(p, Written, Grown, Entered)
  <2>1. Parses(p, Level, Ring, inflight)
    BY DEF Parsing
  <2>2. /\ Len(inflight) <= Len(Entered) /\ Len(Entered) \in Nat
        /\ \A i \in 1..Len(inflight) : Entered[i] = inflight[i]
    BY EnteredTokens
  <2>3. \A i \in 0..(Level - 1) : Grown[i] = Ring[i]
    BY <1>2, <1>3, <1>6
  <2>4. Parses(p, Level, Grown, Entered)
    <3> HIDE DEF Grown, Ring, Level, Entered, Parses
    <3> QED BY <1>2, <1>3, <2>1, <2>2, <2>3, ParseStays
  <2> QED BY <1>3, <2>4
<1> DEFINE x == p[Level]
<1>8. x.taken \in Nat /\ Gap(x) \in {0, 1} /\ Parses(p, Level, Ring, inflight)
  <2>1. Parses(p, Level, Ring, inflight) /\ Level \in 0..Level
    BY <1>3 DEF Parsing
  <2>2. x \in Places
    BY <2>1 DEF Parses
  <2> QED BY <2>1, <2>2 DEF Places, Gap
<1>9. /\ x.mode = "Data" => x.count = x.offset
      /\ Gap(x) = 1 => inflight[x.taken + 1] = 0
      /\ Len(inflight) = x.taken + Gap(x) + staged - 1
      /\ \A j \in 1..(staged - 1) :
            inflight[x.taken + Gap(x) + j] = Ring[Level + j] /\ Ring[Level + j] # 0
  BY <1>1 DEF Parsing, Stages
<1> HIDE DEF x
<1>10. ASSUME NEW j \in 1..staged
       PROVE  Entered[x.taken + Gap(x) + j] = Grown[Level + j] /\ Grown[Level + j] # 0
  <2>1. CASE j = staged
    <3>1. x.taken + Gap(x) + j = Len(inflight) + 1
      BY <1>2, <1>8, <1>9, <2>1
    <3> QED BY <1>4, <1>5, <2>1, <3>1
  <2>2. CASE j # staged
    <3>1. j \in 1..(staged - 1) /\ x.taken + Gap(x) + j \in 1..Len(inflight)
      BY <1>2, <1>8, <1>9, <2>2
    <3>2. Level + j \in 0..(Level + staged - 1)
      BY <1>2, <1>3, <3>1
    <3> QED BY <1>5, <1>6, <1>9, <3>1, <3>2
  <2> QED BY <2>1, <2>2
<1>11. Gap(x) = 1 => Entered[x.taken + 1] = 0
  <2>1. Gap(x) = 1 => x.taken + 1 \in 1..Len(inflight)
    BY <1>2, <1>8, <1>9
  <2> QED BY <1>5, <1>9, <2>1
<1>12. Len(Entered) = x.taken + Gap(x) + (staged + 1) - 1 /\ (staged + 1) - 1 = staged
  BY <1>2, <1>5, <1>8, <1>9
<1>13. Stages(x, encoder', Written, Grown, staged', Entered)
  BY <1>1, <1>3, <1>9, <1>10, <1>11, <1>12 DEF Stages
<1> QED BY <1>3, <1>7, <1>13 DEF Encodes, Parsing, x

LEMMA TerminateParses ==
    ASSUME TypeOK, StagedFits, Terminate, NEW p, Parsing(p), inflight \in Seq(0..End)
    PROVE  \E r : Encodes(r)
<1>1. /\ ~Takes /\ ~Full /\ encoder = "End" /\ encoder' = "Data" /\ staged' = staged
      /\ Write(wAddr, 0) /\ wAddr' = Address(wAddr + 1)
  BY DEF Terminate, Takes
<1>2. /\ staged \in 1..Group /\ Len(inflight) \in Nat /\ Depth \in Nat /\ Group \in Nat
      /\ wAddr \in 0..(Depth - 1) /\ rAddr \in 0..(Depth - 1) /\ 1 \in 0..Depth
      /\ offset \in 0..Group
  BY CobsAssumption DEF TypeOK
<1>3. Level + 1 < Depth /\ Level \in 0..(Depth - 1) /\ Level \in Nat
  BY <1>1, <1>2, RoomUnlessFull, LevelRange
<1>4. Written = Level + 1
  BY <1>1, <1>2, <1>3, LevelRises DEF Written, Level
<1>5. Grown[Level] = 0 /\ \A i \in 0..(Depth - 1) : i # Level => Grown[i] = Ring[i]
  <2>1. Address(wAddr + 0) = wAddr
    <3>1. 0 \in 0..Depth /\ wAddr + 0 = wAddr /\ wAddr < Depth
      BY <1>2
    <3>2. Address(wAddr + 0) = IF wAddr + 0 < Depth THEN wAddr + 0 ELSE wAddr + 0 - Depth
      BY <1>2, <3>1, Moving
    <3> QED BY <3>1, <3>2
  <2>2. Write(Address(wAddr + 0), 0) /\ Level + 0 = Level /\ Level + 0 < Depth
    BY <1>1, <1>2, <1>3, <2>1
  <2> QED BY <2>2, WriteGrows
<1>6. Entered = inflight
  BY <1>1, EnteredTokens
<1> DEFINE x == p[Level]
<1>7. x \in Places /\ Parses(p, Level, Ring, inflight)
  <2>1. Parses(p, Level, Ring, inflight) /\ Level \in 0..Level
    BY <1>3 DEF Parsing
  <2> QED BY <2>1 DEF Parses
<1>8. /\ x.mode = "Data" /\ x.count = x.offset /\ staged = 1
      /\ Len(inflight) = x.taken + 1 /\ inflight[x.taken + 1] = End
  BY <1>1 DEF Parsing, Stages
<1> HIDE DEF x
<1> DEFINE y == [mode |-> "Start", count |-> 1, offset |-> x.offset, taken |-> x.taken + 1]
<1>9. y \in Places
  <2>1. x.taken + 1 \in Nat /\ x.offset \in 0..Group /\ 1 \in 0..Group
    BY <1>2, <1>7, CobsAssumption DEF Places
  <2> QED BY <2>1 DEF Places
<1>10. Parses(p, Level, Grown, inflight)
  <2>1. \A i \in 0..(Level - 1) : Grown[i] = Ring[i]
    BY <1>2, <1>3, <1>5
  <2>2. \A i \in 1..Len(inflight) : inflight[i] = inflight[i]
    OBVIOUS
  <2> HIDE DEF Grown, Ring, Level, Parses
  <2> QED BY <1>2, <1>3, <1>7, <2>1, <2>2, ParseStays
<1>11. Parsed(p[Level], y, Grown[Level], inflight)
  <2>1. y.taken = x.taken + 1 /\ y.taken <= Len(inflight) /\ inflight[y.taken] = End
    BY <1>2, <1>8
  <2> QED BY <1>5, <1>8, <2>1 DEF Parsed, x
<1> HIDE DEF y
<1> DEFINE r == [i \in 0..(Level + 1) |-> IF i <= Level THEN p[i] ELSE y]
<1>12. Parses(r, Level + 1, Grown, inflight) /\ r[0] = p[0] /\ r[Level + 1] = y
  <2> HIDE DEF Grown, Level, Parses
  <2> QED BY <1>2, <1>3, <1>9, <1>10, <1>11, ParseGrows
<1> HIDE DEF r
<1>13. Stages(y, "Data", Written, Grown, 1, inflight)
  <2>1. y.mode = "Start" /\ Gap(y) = 0 /\ y.taken = x.taken + 1
    BY DEF y, Gap
  <2>2. Len(inflight) = y.taken + Gap(y) + 1 - 1
    BY <1>2, <1>8, <2>1
  <2> QED BY <2>1, <2>2 DEF Stages
<1>14. Parses(r, Written, Grown, Entered) /\ r[0] = Here /\ r[Written] = y
  BY <1>4, <1>6, <1>12 DEF Parsing
<1> QED BY <1>1, <1>6, <1>8, <1>13, <1>14 DEF Encodes

LEMMA EncodeParses ==
    ASSUME TypeOK, StagedFits, Encode, NEW p, Parsing(p), inflight \in Seq(0..End)
    PROVE  \E r : Encodes(r)
<1>1. CASE Wait
  <2>1. ~Takes /\ encoder' = encoder /\ mem' = mem /\ wAddr' = wAddr /\ staged' = staged
    BY <1>1 DEF Wait, Takes
  <2>2. Entered = inflight
    BY <2>1, EnteredTokens
  <2>3. Grown = Ring /\ Written = Level
    BY <2>1 DEF Grown, Ring, Written, Level
  <2> QED BY <2>1, <2>2, <2>3 DEF Encodes, Parsing
<1> QED BY <1>1, TakeEndParses, TakeNulParses, TakeByteParses, CloseGroupParses, TerminateParses
        DEF Encode

LEMMA StagedPlaces ==
    ASSUME NEW a \in Nat, NEW g \in Nat, NEW s \in Nat, s >= 1, NEW l \in Nat, l = a + g + s - 1
    PROVE  /\ g = 1 => a + 1 \in 1..l
           /\ \A j \in 1..(s - 1) : a + g + j \in 1..l
  OBVIOUS

LEMMA TakenPlaces ==
    ASSUME NEW a \in Nat, NEW b \in Nat, NEW d \in Nat, b = a - d, NEW k \in Nat, NEW l \in Nat,
           k = a + 1, l = k - d
    PROVE  l = b + 1 /\ b + 1 \in 1..l /\ (b + 1) + d = a + 1
  OBVIOUS

(* What is staged when m bytes and d tokens before it are gone. *)
LEMMA StagesMove ==
    ASSUME NEW n \in Nat, NEW m \in {0, 1}, NEW d \in {0, 1}, m <= n, NEW x \in Places, x.taken >= d,
           NEW enc, NEW s \in 1..Group, NEW c, NEW e, NEW q, NEW t, Len(q) \in Nat, Len(t) \in Nat,
           Stages(x, enc, n, c, s, q),
           Len(t) = Len(q) - d, \A i \in 1..Len(t) : t[i] = q[i + d],
           \A i \in 0..(n - m + s - 1) : e[i] = c[i + m]
    PROVE  Stages([x EXCEPT !.taken = @ - d], enc, n - m, e, s, t)
<1> DEFINE y == [x EXCEPT !.taken = @ - d]
<1>1. /\ y.mode = x.mode /\ y.count = x.count /\ y.offset = x.offset /\ y.taken = x.taken - d
      /\ x.taken \in Nat /\ Gap(y) = Gap(x) /\ Gap(x) \in Nat /\ y.taken \in Nat
      /\ s \in Nat /\ s >= 1 /\ d \in Nat /\ m \in Nat
  BY CobsAssumption DEF Places, Gap
<1> HIDE DEF y
<1>2. CASE enc = "End"
  <2>1. x.mode = "Data" /\ s = 1 /\ Len(q) = x.taken + 1 /\ q[x.taken + 1] = End /\ x.count = x.offset
    BY <1>2 DEF Stages
  <2>2. Len(t) = y.taken + 1 /\ y.taken + 1 \in 1..Len(t) /\ (y.taken + 1) + d = x.taken + 1
    <3>1. /\ x.taken \in Nat /\ y.taken \in Nat /\ d \in Nat /\ y.taken = x.taken - d
          /\ Len(q) \in Nat /\ Len(q) = x.taken + 1 /\ Len(t) \in Nat /\ Len(t) = Len(q) - d
      BY <1>1, <2>1
    <3> SUFFICES ASSUME NEW a, a = x.taken, NEW b, b = y.taken, NEW k, k = Len(q), NEW l, l = Len(t)
                 PROVE  l = b + 1 /\ b + 1 \in 1..l /\ (b + 1) + d = a + 1
      OBVIOUS
    <3>2. /\ a \in Nat /\ b \in Nat /\ d \in Nat /\ b = a - d /\ k \in Nat /\ l \in Nat
          /\ k = a + 1 /\ l = k - d
      BY <3>1
    <3> QED BY ONLY <3>2
  <2>3. t[y.taken + 1] = q[(y.taken + 1) + d]
    BY <2>2
  <2> QED BY <1>1, <1>2, <2>1, <2>2, <2>3 DEF Stages, y
<1>3. CASE enc # "End"
  <2>1. /\ x.mode = "Data" => x.count = x.offset
        /\ Gap(x) = 1 => q[x.taken + 1] = 0
        /\ Len(q) = x.taken + Gap(x) + s - 1
        /\ \A j \in 1..(s - 1) : q[x.taken + Gap(x) + j] = c[n + j] /\ c[n + j] # 0
    BY <1>3 DEF Stages
  <2>2. Len(t) = y.taken + Gap(y) + s - 1
    BY SMTT(30), ZenonT(30), <1>1, <2>1
  <2>0. /\ Gap(y) = 1 => y.taken + 1 \in 1..Len(t)
        /\ \A j \in 1..(s - 1) : y.taken + Gap(y) + j \in 1..Len(t)
    <3>1. Gap(y) \in Nat
      BY <1>1
    <3> QED BY <1>1, <2>2, <3>1, StagedPlaces
  <2>3. Gap(y) = 1 => t[y.taken + 1] = 0
    <3>1. SUFFICES ASSUME Gap(y) = 1 PROVE t[y.taken + 1] = 0
      OBVIOUS
    <3>2. y.taken + 1 \in 1..Len(t) /\ (y.taken + 1) + d = x.taken + 1
      <4>1. (y.taken + 1) + d = x.taken + 1
        BY ONLY <1>1
      <4> QED BY <2>0, <3>1, <4>1
    <3>3. t[y.taken + 1] = q[(y.taken + 1) + d]
      BY <3>2
    <3> QED BY <1>1, <2>1, <3>1, <3>2, <3>3
  <2>4. ASSUME NEW j \in 1..(s - 1)
        PROVE  t[y.taken + Gap(y) + j] = e[(n - m) + j] /\ e[(n - m) + j] # 0
    <3>1. /\ y.taken + Gap(y) + j \in 1..Len(t)
          /\ (y.taken + Gap(y) + j) + d = x.taken + Gap(x) + j
          /\ (n - m) + j \in 0..(n - m + s - 1) /\ ((n - m) + j) + m = n + j
      <4>1. j \in Nat /\ j >= 1 /\ j <= s - 1 /\ n - m \in Nat /\ y.taken + d = x.taken
        BY <1>1
      <4>2. y.taken + Gap(y) + j \in 1..Len(t)
        BY <2>0
      <4>3. (y.taken + Gap(y) + j) + d = x.taken + Gap(x) + j
        BY ONLY <1>1, <4>1
      <4>4. (n - m) + j \in 0..(n - m + s - 1) /\ ((n - m) + j) + m = n + j
        BY <1>1, <4>1
      <4> QED BY <4>2, <4>3, <4>4
    <3>2. t[y.taken + Gap(y) + j] = q[x.taken + Gap(x) + j] /\ e[(n - m) + j] = c[n + j]
      <4>1. t[y.taken + Gap(y) + j] = q[(y.taken + Gap(y) + j) + d]
        BY <3>1
      <4>2. e[(n - m) + j] = c[((n - m) + j) + m]
        BY <3>1
      <4> QED BY <3>1, <4>1, <4>2
    <3> QED BY <2>1, <3>2
  <2> QED BY <1>1, <1>3, <2>1, <2>2, <2>3, <2>4 DEF Stages, y
<1> QED BY <1>2, <1>3

--------------------------------------------------------------------------------
(* The decoder follows *)

LEMMA NextPlace ==
    ASSUME NEW r \in 0..(Depth - 1), NEW i \in 0..(Depth - 2)
    PROVE  Address(Address(r + 1) + i) = Address(r + (i + 1))
<1>1. i \in 0..Depth /\ 1 \in 0..Depth /\ i + 1 \in 0..Depth
  BY CobsAssumption
<1>2. /\ Address(r + 1) = IF r + 1 < Depth THEN r + 1 ELSE r + 1 - Depth
      /\ Address(r + 1) \in 0..(Depth - 1)
  BY <1>1, Moving
<1> DEFINE s == Address(r + 1)
<1>3. Address(s + i) = IF s + i < Depth THEN s + i ELSE s + i - Depth
  BY <1>1, <1>2, Moving
<1>4. Address(r + (i + 1)) = IF r + (i + 1) < Depth THEN r + (i + 1) ELSE r + (i + 1) - Depth
  BY <1>1, Moving
<1> HIDE DEF s
<1>5. Address(s + i) = Address(r + (i + 1))
  <2>1. s = (IF r + 1 < Depth THEN r + 1 ELSE r + 1 - Depth) /\ s \in 0..(Depth - 1)
    BY <1>2 DEF s
  <2> QED BY <1>3, <1>4, <2>1, CobsAssumption
<1> QED BY <1>5 DEF s

One(moved) == IF moved THEN 1 ELSE 0

(* What the read end leaves of the memory. *)
LEMMA RingMoves ==
    ASSUME TypeOK, Encoded, NEW moved \in BOOLEAN, moved => ~Empty, Read(moved)
    PROVE  /\ Written \in Nat /\ One(moved) <= Written /\ Level' = Written - One(moved)
           /\ \A i \in 0..(Depth - 1) : i + One(moved) < Depth => Ring'[i] = Grown[i + One(moved)]
           /\ rData' = mem'[rAddr']
<1>1. wAddr' \in 0..(Depth - 1) /\ rAddr \in 0..(Depth - 1) /\ Depth \in Nat
  BY CobsAssumption DEF TypeOK, Encoded
<1>2. Level' = Address(wAddr' + Depth - rAddr')
  BY DEF Level
<1>3. Written \in 0..(Depth - 1) /\ Written >= Level
  BY <1>1, LevelIsAddress DEF Written, Encoded
<1>4. CASE moved
  <2>1. Written > 0
    BY <1>1, <1>3, <1>4, LevelRange
  <2>2. rAddr # wAddr'
    BY <1>1, <2>1, LevelValue, CobsAssumption DEF Written
  <2>3. Level' = Written - 1
    BY <1>1, <1>2, <1>4, <2>2, LevelFalls DEF Written, Read
  <2>4. ASSUME NEW i \in 0..(Depth - 1), i + 1 < Depth PROVE Ring'[i] = Grown[i + 1]
    <3>1. i \in 0..(Depth - 2) /\ i + 1 \in 0..(Depth - 1)
      BY <1>1, <2>4
    <3>2. Address(rAddr' + i) = Address(rAddr + (i + 1))
      BY <1>1, <1>4, <3>1, NextPlace DEF Read
    <3>3. Ring'[i] = mem'[Address(rAddr' + i)]
      BY DEF Ring
    <3> QED BY <3>1, <3>2, <3>3 DEF Grown
  <2> QED BY <1>3, <1>4, <2>1, <2>3, <2>4 DEF One, Read, Fetched
<1>5. CASE ~moved
  <2>1. rAddr' = rAddr
    BY <1>5 DEF Read
  <2>2. Level' = Written
    BY <1>2, <2>1 DEF Written
  <2>3. ASSUME NEW i \in 0..(Depth - 1) PROVE Ring'[i] = Grown[i + 0]
    <3>1. Ring'[i] = mem'[Address(rAddr' + i)] /\ i + 0 = i
      BY <1>1 DEF Ring
    <3> QED BY <2>1, <3>1 DEF Grown
  <2> QED BY <1>1, <1>3, <1>5, <2>2, <2>3 DEF One, Read, Fetched
<1> QED BY <1>4, <1>5

Left(ready) == IF ready /\ out # <<>> THEN 1 ELSE 0

(* A sequence that grows, and may lose its head. *)
LEMMA GrowsAndMoves ==
    ASSUME NEW S, NEW q \in Seq(S), NEW o \in Seq(S)
    PROVE  /\ q \o o \in Seq(S)
           /\ q # <<>> => /\ Tail(q) \o o \in Seq(S)
                          /\ Len(Tail(q) \o o) = Len(q \o o) - 1
                          /\ \A i \in 1..Len(Tail(q) \o o) : (Tail(q) \o o)[i] = (q \o o)[i + 1]
<1>1. q \o o \in Seq(S) /\ Len(q \o o) = Len(q) + Len(o) /\ Len(q) \in Nat /\ Len(o) \in Nat
  OBVIOUS
<1>2. ASSUME q # <<>>
      PROVE  /\ Tail(q) \o o \in Seq(S)
             /\ Len(Tail(q) \o o) = Len(q \o o) - 1
             /\ \A i \in 1..Len(Tail(q) \o o) : (Tail(q) \o o)[i] = (q \o o)[i + 1]
  <2> DEFINE t == Tail(q)
  <2>1. /\ t \in Seq(S) /\ Len(t) = Len(q) - 1 /\ Len(t) \in Nat
        /\ \A i \in 1..Len(t) : t[i] = q[i + 1]
    BY <1>2
  <2> HIDE DEF t
  <2>2. /\ t \o o \in Seq(S) /\ Len(t \o o) = Len(t) + Len(o)
    BY <2>1
  <2>3. ASSUME NEW i \in 1..Len(t \o o) PROVE (t \o o)[i] = (q \o o)[i + 1]
    <3>1. i \in 1..(Len(t) + Len(o)) /\ i + 1 \in 1..(Len(q) + Len(o)) /\ i \in Nat
      BY <1>1, <2>1, <2>2
    <3>2. (t \o o)[i] = IF i <= Len(t) THEN t[i] ELSE o[i - Len(t)]
      BY <2>1, <3>1
    <3>3. (q \o o)[i + 1] = IF i + 1 <= Len(q) THEN q[i + 1] ELSE o[i + 1 - Len(q)]
      BY <3>1
    <3>4. (i <= Len(t) <=> i + 1 <= Len(q)) /\ i - Len(t) = i + 1 - Len(q)
      BY <1>1, <2>1, <3>1
    <3>5. i <= Len(t) => t[i] = q[i + 1]
      BY <2>1, <3>1
    <3> QED BY <3>2, <3>3, <3>4, <3>5
  <2> QED BY <1>1, <2>1, <2>2, <2>3 DEF t
<1> QED BY <1>1, <1>2

(* What leaves behind the decoder. *)
LEMMA TokensMove ==
    ASSUME TypeOK, inflight \in Seq(0..End), RoundTrip, NEW ready \in BOOLEAN,
           inflight' = (IF ready /\ out # <<>> THEN Tail(inflight) ELSE inflight)
                           \o (IF Takes THEN offered ELSE <<>>)
    PROVE  /\ inflight' \in Seq(0..End) /\ Len(inflight') \in Nat
           /\ Len(inflight') = Len(Entered) - Left(ready)
           /\ \A i \in 1..Len(inflight') : inflight'[i] = Entered[i + Left(ready)]
<1> DEFINE o == IF Takes THEN offered ELSE <<>>
<1>1. o \in Seq(0..End)
  <2>1. Tokens \subseteq 0..End
    BY CobsAssumption DEF Tokens, End
  <2>2. CASE Takes
    <3>1. PICK token \in Tokens : offered = <<token>>
      BY <2>2 DEF Takes, TypeOK, Offers
    <3> QED BY <2>1, <2>2, <3>1
  <2>3. CASE ~Takes
    BY <2>3
  <2> QED BY <2>2, <2>3
<1>2. Entered = inflight \o o
  BY DEF Entered
<1> HIDE DEF o
<1>3. CASE ready /\ out # <<>>
  <2>1. inflight # <<>>
    BY <1>3 DEF RoundTrip
  <2>2. inflight' = Tail(inflight) \o o /\ Left(ready) = 1
    BY <1>3 DEF o, Left
  <2>3. /\ Entered \in Seq(0..End) /\ inflight' \in Seq(0..End)
        /\ Len(inflight') = Len(Entered) - 1
        /\ \A i \in 1..Len(inflight') : inflight'[i] = Entered[i + 1]
    <3>1. inflight \in Seq(0..End) /\ o \in Seq(0..End) /\ inflight # <<>>
      BY <1>1, <2>1
    <3>2. /\ inflight \o o \in Seq(0..End) /\ Tail(inflight) \o o \in Seq(0..End)
          /\ Len(Tail(inflight) \o o) = Len(inflight \o o) - 1
          /\ \A i \in 1..Len(Tail(inflight) \o o) :
                (Tail(inflight) \o o)[i] = (inflight \o o)[i + 1]
      <4> SUFFICES ASSUME NEW q, q = inflight
                   PROVE  /\ q \o o \in Seq(0..End) /\ Tail(q) \o o \in Seq(0..End)
                          /\ Len(Tail(q) \o o) = Len(q \o o) - 1
                          /\ \A i \in 1..Len(Tail(q) \o o) : (Tail(q) \o o)[i] = (q \o o)[i + 1]
        OBVIOUS
      <4>1. q \in Seq(0..End) /\ o \in Seq(0..End) /\ q # <<>>
        BY <3>1
      <4> QED BY ONLY <4>1, GrowsAndMoves
    <3> QED BY <1>2, <2>2, <3>2
  <2> QED BY ONLY <2>2, <2>3, LenProperties
<1>4. CASE ~(ready /\ out # <<>>)
  <2>1. inflight' = inflight \o o /\ Left(ready) = 0
    BY <1>4 DEF o, Left
  <2>2. inflight' = Entered /\ Entered \in Seq(0..End)
    BY <1>1, <1>2, <2>1, GrowsAndMoves
  <2>3. Len(Entered) \in Nat
    BY <2>2, LenProperties
  <2> QED BY ONLY <2>1, <2>2, <2>3
<1> QED BY <1>3, <1>4

(* Nothing is written over what is committed. *)
LEMMA WritesBehind ==
    ASSUME TypeOK, StagedFits, Encode
    PROVE  \A i \in 0..(Level - 1) : Grown[i] = Ring[i]
<1>1. /\ staged \in Nat /\ Level \in Nat /\ Level <= Depth - 1 /\ Depth \in Nat
      /\ wAddr \in 0..(Depth - 1)
  BY LevelRange, CobsAssumption DEF TypeOK
<1>2. ASSUME NEW k \in Nat, Level + k < Depth, NEW byte, Write(Address(wAddr + k), byte)
      PROVE  \A i \in 0..(Level - 1) : Grown[i] = Ring[i]
  <2>1. \A i \in 0..(Depth - 1) : i # Level + k => Grown[i] = Ring[i]
    BY <1>2, WriteGrows
  <2> HIDE DEF Grown, Ring, Level
  <2> QED BY <1>1, <2>1
<1>3. Address(wAddr + 0) = wAddr
  <2>1. 0 \in 0..Depth /\ wAddr + 0 = wAddr /\ wAddr < Depth
    BY <1>1
  <2>2. Address(wAddr + 0) = IF wAddr + 0 < Depth THEN wAddr + 0 ELSE wAddr + 0 - Depth
    BY <1>1, <2>1, Moving
  <2> QED BY <2>1, <2>2
<1>4. CASE Wait
  BY <1>4 DEF Wait, Grown, Ring
<1>5. CASE TakeByte
  <2>1. ~Full /\ Write(Address(wAddr + staged), offered[1])
    BY <1>5 DEF TakeByte, Takes, Stage
  <2>2. Level + staged < Depth
    BY <2>1, RoomUnlessFull
  <2> QED BY <1>1, <1>2, <2>1, <2>2
<1>6. CASE TakeEnd \/ TakeNul \/ CloseGroup \/ Terminate
  <2>1. Write(wAddr, staged) \/ Write(wAddr, 0)
    BY <1>6 DEF TakeEnd, TakeNul, CloseGroup, Commit, Terminate
  <2>2. Level + 0 < Depth
    BY <1>1
  <2>3. CASE Write(wAddr, staged)
    <3>1. Write(Address(wAddr + 0), staged)
      BY <1>3, <2>3
    <3> QED BY <1>2, <2>2, <3>1
  <2>4. CASE Write(wAddr, 0)
    <3>1. Write(Address(wAddr + 0), 0)
      BY <1>3, <2>4
    <3> QED BY <1>2, <2>2, <3>1
  <2> QED BY <2>1, <2>3, <2>4
<1> QED BY <1>4, <1>5, <1>6 DEF Encode

LEMMA PlaceIs ==
    ASSUME NEW y \in Places, NEW d, NEW mode, NEW n, NEW o, NEW taken,
           y.mode = mode, y.count = n, y.offset = o, taken = y.taken - d
    PROVE  [mode |-> mode, count |-> n, offset |-> o, taken |-> taken]
               = [y EXCEPT !.taken = @ - d]
  BY DEF Places

(* The StreamBuffer: if it is ready, what it holds leaves. *)
LEMMA BufferMoves ==
    ASSUME TypeOK, NEW ready \in BOOLEAN
    PROVE  /\ Len(out) \in {0, 1} /\ Left(ready) \in {0, 1} /\ Left(ready) <= Len(out)
           /\ BufferReady(ready) => Left(ready) = Len(out)
           /\ ~BufferReady(ready) => Left(ready) = 0 /\ out # <<>>
<1>1. out = <<>> \/ \E token \in 0..End : out = <<token>>
  BY DEF TypeOK
<1>2. (out = <<>> /\ Len(out) = 0) \/ (out # <<>> /\ Len(out) = 1)
  BY <1>1
<1> QED BY <1>2 DEF BufferReady, Left

(* What the decoder has put out is what it should have. *)
Right(ready) ==
    out' # <<>> => \/ out' = out /\ Left(ready) = 0
                   \/ /\ Left(ready) + 1 <= Len(Entered)
                      /\ out' = <<Entered[Left(ready) + 1]>>

LEMMA DecoderWaits ==
    ASSUME TypeOK, NEW ready \in BOOLEAN, Here \in Places, NoInput(ready)
    PROVE  /\ Here.taken >= Left(ready)
           /\ Here' = [Here EXCEPT !.taken = @ - Left(ready)]
           /\ Right(ready)
<1>1. /\ Len(out) \in {0, 1} /\ Left(ready) \in {0, 1} /\ Left(ready) <= Len(out)
      /\ BufferReady(ready) => Left(ready) = Len(out)
      /\ ~BufferReady(ready) => Left(ready) = 0 /\ out # <<>>
  BY BufferMoves
<1>2. /\ decoder' = decoder /\ count' = count /\ offset' = offset
      /\ out' = IF BufferReady(ready) THEN <<>> ELSE out
  BY DEF NoInput, Emit
<1>3. Len(out') = Len(out) - Left(ready)
  BY <1>1, <1>2
<1>4. /\ Here.mode = decoder /\ Here.count = count /\ Here.offset = offset
      /\ Here.taken = Len(out)
      /\ Here' = [mode |-> decoder', count |-> count', offset |-> offset', taken |-> Len(out')]
  BY DEF Here
<1>5. Here' = [Here EXCEPT !.taken = @ - Left(ready)]
  <2> SUFFICES ASSUME NEW x, x = Here, NEW z, z = Here', NEW taken, taken = Len(out')
               PROVE  z = [x EXCEPT !.taken = @ - Left(ready)]
    OBVIOUS
  <2>1. /\ x \in Places /\ x.mode = decoder' /\ x.count = count' /\ x.offset = offset'
        /\ taken = x.taken - Left(ready)
        /\ z = [mode |-> decoder', count |-> count', offset |-> offset', taken |-> taken]
    BY <1>2, <1>3, <1>4
  <2> QED BY ONLY <2>1, PlaceIs
<1>6. Right(ready)
  BY <1>1, <1>2 DEF Right
<1> QED BY <1>1, <1>4, <1>5, <1>6

LEMMA DecoderParses ==
    ASSUME TypeOK, NEW ready \in BOOLEAN, DecoderReady(ready), Decode(rData, ready),
           Here \in Places, NEW y \in Places, Parsed(Here, y, rData, Entered)
    PROVE  /\ y.taken >= Left(ready)
           /\ Here' = [y EXCEPT !.taken = @ - Left(ready)]
           /\ Right(ready)
<1>1. /\ Len(out) \in {0, 1} /\ Left(ready) \in {0, 1} /\ Left(ready) <= Len(out)
      /\ BufferReady(ready) => Left(ready) = Len(out)
      /\ ~BufferReady(ready) => Left(ready) = 0 /\ out # <<>>
  BY BufferMoves
<1>2. /\ Here.mode = decoder /\ Here.count = count /\ Here.offset = offset
      /\ Here.taken = Len(out)
      /\ Here' = [mode |-> decoder', count |-> count', offset |-> offset', taken |-> Len(out')]
  BY DEF Here
<1> DEFINE Follows == /\ decoder' = y.mode /\ count' = y.count /\ offset' = y.offset
                      /\ Len(out') = y.taken - Left(ready)
                      /\ y.taken >= Left(ready)
                      /\ Right(ready)
<1>3. y.taken <= Len(Entered) /\ y.taken \in Nat
  BY DEF Parsed, Places
<1>4. ASSUME out' = (IF BufferReady(ready) THEN <<>> ELSE out), y.taken = Len(out)
      PROVE  Len(out') = y.taken - Left(ready) /\ y.taken >= Left(ready) /\ Right(ready)
  BY <1>1, <1>4 DEF Right
<1>5. ASSUME BufferReady(ready), NEW token, out' = <<token>>, y.taken = Len(out) + 1,
             Entered[y.taken] = token
      PROVE  Len(out') = y.taken - Left(ready) /\ y.taken >= Left(ready) /\ Right(ready)
  <2>1. y.taken = Left(ready) + 1 /\ Left(ready) + 1 <= Len(Entered) /\ Len(out') = 1
    BY <1>1, <1>3, <1>5
  <2>2. out' = <<Entered[Left(ready) + 1]>>
    BY <1>5, <2>1
  <2> QED BY <1>1, <2>1, <2>2 DEF Right
<1>6. Follows
  <2>1. CASE /\ decoder = "Start" /\ rData # 0
             /\ y.mode = "Data" /\ y.count = 1 /\ y.offset = rData /\ y.taken = Len(out)
    <3>1. Header(rData, ready)
      BY <2>1 DEF Decode, GroupEnd, GroupByte
    <3> QED BY <1>4, <2>1, <3>1 DEF Header, Emit
  <2>2. CASE /\ decoder = "Data" /\ count = offset /\ rData = 0
             /\ y.mode = "Start" /\ y.count = 1 /\ y.offset = offset /\ y.taken = Len(out) + 1
             /\ Entered[y.taken] = End
    <3>1. GroupEnd(rData, ready) /\ BufferReady(ready)
      BY <2>2 DEF Decode, Header, GroupByte, DecoderReady
    <3>2. out' = <<End>>
      BY <2>2, <3>1 DEF GroupEnd, Emit
    <3> QED BY <1>5, <2>2, <3>1, <3>2 DEF GroupEnd
  <2>3. CASE /\ decoder = "Data" /\ count = offset /\ rData # 0
             /\ y.mode = "Data" /\ y.count = 1 /\ y.offset = rData /\ y.taken = Len(out) + Gap(Here)
             /\ Gap(Here) = 1 => Entered[y.taken] = 0
    <3>1. GroupEnd(rData, ready) /\ BufferReady(ready)
      BY <2>3 DEF Decode, Header, GroupByte, DecoderReady
    <3>2. out' = IF offset # Group THEN <<0>> ELSE <<>>
      BY <2>3, <3>1 DEF GroupEnd, Emit, NulAfterGroup
    <3>3. Gap(Here) = IF offset # Group THEN 1 ELSE 0
      BY <1>2, <2>3 DEF Gap
    <3>4. Len(out') = y.taken - Left(ready) /\ y.taken >= Left(ready) /\ Right(ready)
      <4>1. CASE offset # Group
        BY <1>5, <2>3, <3>1, <3>2, <3>3, <4>1
      <4>2. CASE offset = Group
        <5>1. y.taken = Len(out)
          BY <1>1, <2>3, <3>3, <4>2
        <5> QED BY <1>4, <3>1, <3>2, <4>2, <5>1
      <4> QED BY <4>1, <4>2
    <3> QED BY <2>3, <3>1, <3>4 DEF GroupEnd
  <2>4. CASE /\ decoder = "Data" /\ count # offset /\ rData # 0
             /\ y.mode = "Data" /\ y.count = count + 1 /\ y.offset = offset
             /\ y.taken = Len(out) + 1
             /\ Entered[y.taken] = rData
    <3>1. GroupByte(rData, ready) /\ BufferReady(ready)
      BY <2>4 DEF Decode, Header, GroupEnd, DecoderReady
    <3>2. out' = <<rData>>
      BY <2>4, <3>1 DEF GroupByte, Emit
    <3> QED BY <1>5, <2>4, <3>1, <3>2 DEF GroupByte
  <2> QED BY <1>2, <2>1, <2>2, <2>3, <2>4 DEF Parsed
<1>7. Here' = [y EXCEPT !.taken = @ - Left(ready)]
  <2> HIDE DEF Here
  <2> QED BY ZenonT(30), SMTT(30), <1>2, <1>6, PlaceIs
<1> QED BY <1>6, <1>7

LEMMA ReadPlaces ==
    ASSUME NEW n \in Nat, NEW m \in Nat, m <= n, NEW s \in Nat, s >= 1, NEW k \in Nat, n + s <= k
    PROVE  /\ \A i \in 0..(n - m + s - 1) : i \in 0..(k - 1) /\ i + m < k
           /\ \A i \in 0..(n - m - 1) : i \in 0..(n - m + s - 1)
  OBVIOUS

(* A cycle of the encoder, the memory and the decoder together. *)
LEMMA CycleParses ==
    ASSUME TypeOK, StagedFits, ParseFits, NEW open \in BOOLEAN, NEW ready \in BOOLEAN,
           Cycle(open, ready)
    PROVE  ParseFits'
<1> DEFINE moved == open /\ ~Empty /\ DecoderReady(ready)
<1>1. /\ Encode /\ Read(moved) /\ moved \in BOOLEAN
      /\ moved => ~Empty /\ DecoderReady(ready) /\ Decode(rData, ready)
      /\ ~moved => NoInput(ready)
      /\ inflight' = (IF ready /\ out # <<>> THEN Tail(inflight) ELSE inflight)
                         \o (IF Takes THEN offered ELSE <<>>)
  BY DEF Cycle
<1>2. rData = mem[rAddr] /\ inflight \in Seq(0..End) /\ RoundTrip
  BY DEF ParseFits
<1> HIDE DEF moved
<1>3. Encoded
  BY <1>1, EncodeEncodes
<1>4. PICK r : Encodes(r)
  <2>1. PICK p : Parsing(p)
    BY DEF ParseFits
  <2> QED BY <1>1, <1>2, <2>1, EncodeParses
<1> DEFINE m == One(moved)
           d == Left(ready)
           n == Written
<1>5. /\ Parses(r, n, Grown, Entered) /\ r[0] = Here
      /\ Stages(r[n], encoder', n, Grown, staged', Entered)
  BY <1>4 DEF Encodes
<1>6. /\ n \in Nat /\ m <= n /\ Level' = n - m /\ rData' = mem'[rAddr']
      /\ \A i \in 0..(Depth - 1) : i + m < Depth => Ring'[i] = Grown[i + m]
  BY <1>1, <1>3, RingMoves
<1>7. /\ inflight' \in Seq(0..End) /\ Len(inflight') \in Nat /\ Len(inflight') = Len(Entered) - d
      /\ \A i \in 1..Len(inflight') : inflight'[i] = Entered[i + d]
  BY <1>1, <1>2, TokensMove
<1>8. /\ m \in {0, 1} /\ (moved => m = 1) /\ (~moved => m = 0)
      /\ d \in {0, 1} /\ Len(Entered) \in Nat
      /\ staged' \in 1..Group /\ n + staged' <= Depth /\ Depth \in Nat
  <2>1. staged' \in 1..Group /\ n + staged' <= Depth /\ Depth \in Nat
    BY <1>3, CobsAssumption DEF Encoded, Written
  <2>2. m \in {0, 1} /\ (moved => m = 1) /\ (~moved => m = 0) /\ d \in {0, 1}
    BY DEF One, Left
  <2> QED BY <1>2, <2>1, <2>2, EnteredTokens
<1> HIDE DEF m, d, n
<1>9. r \in [0..n -> Places] /\ \A i, j \in 0..n : i <= j => r[i].taken <= r[j].taken
  BY <1>5 DEF Parses
<1>10. /\ r[m].taken >= d /\ Here' = [r[m] EXCEPT !.taken = @ - d] /\ Right(ready)
  <2>1. CASE moved
    <3>1. m = 1 /\ 0 \in 0..(n - 1) /\ 0 \in 0..n /\ 1 \in 0..n
      <4>1. m = 1 /\ n \in Nat /\ m <= n
        BY <1>6, <1>8, <2>1
      <4> QED BY ONLY <4>1
    <3>2. Parsed(r[0], r[0 + 1], Grown[0], Entered)
      BY <1>5, <3>1 DEF Parses
    <3>3. Grown[0] = rData
      <4>1. wAddr \in 0..(Depth - 1) /\ rAddr \in 0..(Depth - 1) /\ rAddr # wAddr
        BY <1>1, <2>1 DEF Empty, TypeOK
      <4>2. Level \in Nat /\ Level > 0
        BY <1>8, <4>1, LevelRange DEF Empty
      <4>3. Grown[0] = Ring[0]
        <5>1. 0 \in 0..(Level - 1)
          BY <4>2
        <5> QED BY <1>1, <5>1, WritesBehind
      <4>4. Address(rAddr + 0) = rAddr
        <5>1. 0 \in 0..Depth /\ rAddr + 0 = rAddr /\ rAddr < Depth
          BY <1>8, <4>1
        <5>2. Address(rAddr + 0) = IF rAddr + 0 < Depth THEN rAddr + 0 ELSE rAddr + 0 - Depth
          BY <4>1, <5>1, Moving
        <5> QED BY <5>1, <5>2
      <4>5. Ring[0] = mem[Address(rAddr + 0)]
        BY <1>8, <4>1 DEF Ring
      <4> QED BY <1>2, <4>3, <4>4, <4>5
    <3>4. Parsed(Here, r[1], rData, Entered) /\ r[1] \in Places /\ Here \in Places
      BY <1>5, <1>9, <3>1, <3>2, <3>3
    <3>5. /\ r[1].taken >= Left(ready)
          /\ Here' = [r[1] EXCEPT !.taken = @ - Left(ready)] /\ Right(ready)
      BY <1>1, <2>1, <3>4, DecoderParses
    <3> QED BY <3>1, <3>5 DEF d
  <2>2. CASE ~moved
    <3>1. m = 0 /\ r[0] = Here /\ Here \in Places
      <4>1. 0 \in 0..n
        BY <1>6
      <4> QED BY <1>5, <1>8, <1>9, <2>2, <4>1
    <3>2. /\ Here.taken >= Left(ready)
          /\ Here' = [Here EXCEPT !.taken = @ - Left(ready)] /\ Right(ready)
      BY <1>1, <2>2, <3>1, DecoderWaits
    <3> QED BY <3>1, <3>2 DEF d
  <2> QED BY <2>1, <2>2
<1>11. /\ \A i \in 0..(n - m + staged' - 1) : Ring'[i] = Grown[i + m]
       /\ \A i \in 0..(n - m - 1) : Ring'[i] = Grown[i + m]
  <2> SUFFICES ASSUME NEW s, s = staged', NEW e, e = Ring', NEW c, c = Grown
               PROVE  /\ \A i \in 0..(n - m + s - 1) : e[i] = c[i + m]
                      /\ \A i \in 0..(n - m - 1) : e[i] = c[i + m]
    OBVIOUS
  <2>1. /\ n \in Nat /\ m \in Nat /\ m <= n /\ s \in Nat /\ s >= 1 /\ Depth \in Nat
        /\ n + s <= Depth
    <3>1. s \in 1..Group /\ m \in {0, 1} /\ n \in Nat /\ m <= n /\ Depth \in Nat /\ n + s <= Depth
      BY <1>6, <1>8
    <3> QED BY ONLY <3>1, CobsAssumption
  <2>2. /\ \A i \in 0..(n - m + s - 1) : i \in 0..(Depth - 1) /\ i + m < Depth
        /\ \A i \in 0..(n - m - 1) : i \in 0..(n - m + s - 1)
    BY ONLY <2>1, ReadPlaces
  <2>3. \A i \in 0..(Depth - 1) : i + m < Depth => e[i] = c[i + m]
    BY <1>6
  <2> QED BY ONLY <2>2, <2>3
<1> DEFINE p == [i \in 0..(n - m) |-> [r[i + m] EXCEPT !.taken = @ - d]]
<1>12. Parses(p, n - m, Ring', inflight')
  <2> SUFFICES ASSUME NEW c, c = Grown, NEW e, e = Ring', NEW q, q = Entered, NEW t, t = inflight'
               PROVE  Parses(p, n - m, e, t)
    OBVIOUS
  <2>1. /\ n \in Nat /\ m \in {0, 1} /\ d \in {0, 1} /\ m <= n
        /\ Len(q) \in Nat /\ Len(t) \in Nat /\ Parses(r, n, c, q) /\ r[m].taken >= d
        /\ Len(t) = Len(q) - d /\ \A i \in 1..Len(t) : t[i] = q[i + d]
    BY <1>5, <1>6, <1>7, <1>8, <1>10
  <2>2. \A i \in 0..(n - m - 1) : e[i] = c[i + m]
    BY <1>11
  <2> QED BY ONLY <2>1, <2>2, ParseMoves
<1>13. p[0] = Here'
  <2>1. 0 \in 0..(n - m) /\ 0 + m = m
    BY <1>6, <1>8
  <2> QED BY <1>10, <2>1
<1>14. Stages(p[n - m], encoder', n - m, Ring', staged', inflight')
  <2>1. p[n - m] = [r[n] EXCEPT !.taken = @ - d]
    <3>1. n - m \in 0..(n - m) /\ (n - m) + m = n
      BY <1>6, <1>8
    <3> QED BY <3>1
  <2>2. r[n] \in Places /\ r[n].taken >= d
    <3>1. n \in 0..n /\ m \in 0..n /\ m <= n
      BY <1>6, <1>8
    <3>2. r[m].taken <= r[n].taken /\ r[m] \in Places /\ r[n] \in Places
      BY <1>9, <3>1
    <3> QED BY <1>8, <1>10, <3>2 DEF Places
  <2> SUFFICES ASSUME NEW c, c = Grown, NEW e, e = Ring', NEW q, q = Entered, NEW t, t = inflight',
                      NEW s, s = staged', NEW enc, enc = encoder', NEW x, x = r[n]
               PROVE  Stages([x EXCEPT !.taken = @ - d], enc, n - m, e, s, t)
    BY <2>1
  <2>3. /\ n \in Nat /\ m \in {0, 1} /\ d \in {0, 1} /\ m <= n /\ x \in Places /\ x.taken >= d
        /\ s \in 1..Group /\ Len(q) \in Nat /\ Len(t) \in Nat /\ Stages(x, enc, n, c, s, q)
        /\ Len(t) = Len(q) - d /\ \A i \in 1..Len(t) : t[i] = q[i + d]
        /\ \A i \in 0..(n - m + s - 1) : e[i] = c[i + m]
    BY <1>5, <1>6, <1>7, <1>8, <1>11, <2>2
  <2> QED BY ONLY ZenonT(30), SMTT(30), <2>3, StagesMove
<1>15. PICK z : /\ Parses(z, Level', Ring', inflight') /\ z[0] = Here'
                /\ Stages(z[Level'], encoder', Level', Ring', staged', inflight')
  <2>1. /\ Parses(p, Level', Ring', inflight') /\ p[0] = Here'
        /\ Stages(p[Level'], encoder', Level', Ring', staged', inflight')
    BY <1>6, <1>12, <1>13, <1>14
  <2> HIDE DEF p
  <2> QED BY <2>1
<1>16. Parsing(z)'
  BY <1>15 DEF Parsing
<1>17. RoundTrip'
  <2> SUFFICES ASSUME out' # <<>> PROVE inflight' # <<>> /\ Head(inflight') = Head(out')
    BY DEF RoundTrip
  <2>1. CASE out' = out /\ d = 0
    <3>1. inflight # <<>> /\ Head(inflight) = Head(out) /\ Len(inflight) \in Nat /\ Len(inflight) >= 1
      BY <1>2, <2>1 DEF RoundTrip
    <3>2. Len(Entered) >= 1 /\ Entered[1] = inflight[1]
      <4>1. /\ Len(inflight) <= Len(Entered) /\ Len(Entered) \in Nat
            /\ \A i \in 1..Len(inflight) : Entered[i] = inflight[i]
        BY <1>2, EnteredTokens
      <4> QED BY <3>1, <4>1
    <3>3. 1 \in 1..Len(inflight') /\ inflight'[1] = Entered[1]
      <4>1. 1 \in 1..Len(inflight') /\ 1 + d = 1
        BY <1>7, <1>8, <2>1, <3>2
      <4> QED BY <1>7, <4>1
    <3> QED BY <1>7, <2>1, <3>1, <3>2, <3>3
  <2>2. CASE d + 1 <= Len(Entered) /\ out' = <<Entered[d + 1]>>
    <3>1. 1 \in 1..Len(inflight') /\ 1 + d = d + 1
      BY <1>7, <1>8, <2>2
    <3>2. inflight'[1] = Entered[d + 1]
      BY <1>7, <3>1
    <3> QED BY <1>7, <2>2, <3>1, <3>2
  <2>3. Right(ready)
    BY <1>10
  <2> QED BY <2>1, <2>2, <2>3 DEF Right, d
<1> QED BY <1>6, <1>7, <1>16, <1>17 DEF ParseFits

LEMMA InitParses == Init => ParseFits
<1> SUFFICES ASSUME Init PROVE ParseFits
  OBVIOUS
<1> DEFINE p == [i \in 0..0 |-> Here]
<1>1. /\ encoder = "Data" /\ mem = [a \in 0..(Depth - 1) |-> 0] /\ wAddr = 0 /\ staged = 1
      /\ rAddr = 0 /\ rData = 0 /\ decoder = "Start" /\ count = 0 /\ offset = 0 /\ out = <<>>
      /\ inflight = <<>>
  BY DEF Init
<1>2. Level = 0
  <2>1. 0 \in 0..(Depth - 1)
    BY CobsAssumption
  <2> QED BY <1>1, <2>1, LevelValue DEF Level
<1>3. /\ Here \in Places /\ Here.mode = "Start" /\ Here.taken = 0 /\ p[0] = Here
      /\ p \in [0..0 -> Places]
  <2>1. 0 \in 0..Group
    BY CobsAssumption
  <2> QED BY <1>1, <2>1 DEF Here, Places
<1>4. Parses(p, Level, Ring, inflight)
  <2>1. 0..(0 - 1) = {} /\ \A i \in 0..0 : i = 0
    OBVIOUS
  <2>2. Here.taken <= Here.taken
    BY <1>3
  <2> QED BY <1>2, <1>3, <2>1, <2>2 DEF Parses
<1>5. Stages(p[Level], encoder, Level, Ring, staged, inflight)
  <2>1. Gap(Here) = 0 /\ Len(inflight) = 0 /\ p[Level] = Here
    BY <1>1, <1>2, <1>3 DEF Gap
  <2>2. 1..(1 - 1) = {} /\ 0 + 0 + 1 - 1 = 0
    OBVIOUS
  <2> HIDE DEF p
  <2> QED BY <1>1, <1>3, <2>1, <2>2 DEF Stages
<1>6. Parsing(p)
  BY <1>2, <1>3, <1>4, <1>5 DEF Parsing
<1>7. rData = mem[rAddr] /\ RoundTrip /\ inflight \in Seq(0..End)
  <2>1. 0 \in 0..(Depth - 1)
    BY CobsAssumption
  <2> QED BY <1>1, <2>1 DEF RoundTrip
<1> QED BY <1>6, <1>7 DEF ParseFits

LEMMA NextParses == IInv /\ ParseFits /\ [Next]_vars => ParseFits'
<1> SUFFICES ASSUME IInv, ParseFits, [Next]_vars PROVE ParseFits'
  OBVIOUS
<1>1. CASE Next
  <2>1. PICK open \in BOOLEAN, ready \in BOOLEAN : Cycle(open, ready)
    BY <1>1 DEF Next
  <2> QED BY <2>1, CycleParses DEF IInv
<1>2. CASE UNCHANGED vars
  <2>1. Level' = Level /\ Ring' = Ring /\ Here' = Here
    BY <1>2 DEF vars, encoderVars, decoderVars, Level, Ring, Here
  <2>2. PICK p : Parsing(p)
    BY DEF ParseFits
  <2>3. Parsing(p)'
    BY <1>2, <2>1, <2>2 DEF vars, encoderVars, Parsing
  <2> QED BY <1>2, <2>3 DEF vars, encoderVars, decoderVars, ParseFits, RoundTrip
<1> QED BY <1>1, <1>2

THEOREM SpecParses == Spec => []ParseFits
  BY SpecIInv, InitParses, NextParses, PTL DEF Spec

(* What the decoder holds for output is the oldest token that has entered  *)
(* the encoder and not left, for every traffic, every depth of the memory  *)
(* above the size of a group, and every width of a byte: no token is lost, *)
(* made up, changed or put out of order, in whichever cycles either end    *)
(* waits, and wherever the groups fall in a memory that goes round.        *)
THEOREM TokensReturn == Spec => []RoundTrip
<1>1. ParseFits => RoundTrip
  BY DEF ParseFits
<1> QED BY <1>1, SpecParses, PTL

(* Nothing the encoder makes leads the decoder to its error state, which   *)
(* it does not leave: no NUL comes first in a packet or within a group.    *)
THEOREM NeverInError == Spec => [](decoder # "Error")
<1>1. IInv /\ ParseFits => decoder # "Error"
  <2> SUFFICES ASSUME IInv, ParseFits PROVE decoder # "Error"
    OBVIOUS
  <2>1. PICK p : Parsing(p)
    BY DEF ParseFits
  <2>2. Here \in Places
    <3>1. TypeOK
      BY DEF IInv
    <3>2. 0 \in 0..Level
      BY <3>1, LevelRange, CobsAssumption
    <3> QED BY <2>1, <3>2 DEF Parsing, Parses
  <2> QED BY <2>2 DEF Here, Places
<1> QED BY <1>1, SpecIInv, SpecParses, PTL

================================================================================
