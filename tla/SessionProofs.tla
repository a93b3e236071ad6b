----------------------------- MODULE SessionProofs -----------------------------
(***************************************************************************)
(* Theorems about Session, for any number of host processes and builds,    *)
(* and any size of a bitstream, its chunks and their packets.  All of them *)
(* are under the condition that `glasgow flash` is not cut short: without  *)
(* it the device may report a build that it does not run.  The device may  *)
(* fail to read its bitstream at power-up, and a write to its pipe reset   *)
(* register may fail.                                                      *)
(*                                                                         *)
(* A process that goes on after its first request knows that the firmware  *)
(* has nothing left of earlier processes: then the firmware's half of the  *)
(* control transfer and the host's half stay in step (InStep).  Until then *)
(* the main loop may be in the middle of a request of a process that was   *)
(* killed, whose data it takes from whatever is in EP0BUF.  What makes     *)
(* this harmless is that no identifier of a build is left in EP0BUF or in  *)
(* the configuration by the time the FPGA can be started (NotNamed,        *)
(* NotBuffered).                                                           *)
(***************************************************************************)
EXTENDS Session, TLAPS

(* Places where a process has an answer to its first request. *)
Loaders == {"download", "set_id"}

Users == {"health", "configure", "voltage", "start", "run", "reset", "stop"}

Flashers == {"flash", "flash_2", "flash_config"}

Live(h) == pc[h] \notin Ended

OneAtATime == \A g, h \in Hosts : Live(g) /\ Live(h) => g = h

(* The request that a process makes where it is. *)
RequestAt(h) ==
    CASE pc[h] = "get_id"    -> Request("get_id", 0)
      [] pc[h] = "download"  -> Request("cfg", chunk[h])
      [] pc[h] = "set_id"    -> Request("set_id", 0)
      [] pc[h] = "health"    -> Request("health", 0)
      [] pc[h] = "voltage"   -> Request("volt", 0)
      [] pc[h] = "configure" -> Request("config", 2)
      [] pc[h] = "start"     -> Request("interface", 1)
      [] OTHER               -> Request("interface", 0)

(* What is left of InterfaceSteps and ConfigSteps. *)
Done1 == <<"done">>
Interface2 == <<"clear_rst", "done">>
Interface3 == <<"reset_fifo", "clear_rst", "done">>
Config2 == <<"set_rst", "done">>
Config3 == <<"deselect", "set_rst", "done">>

Interrupts == {<<>>, Done1, Interface2, Interface3, InterfaceSteps, Config2, Config3, ConfigSteps}

IsrFits ==
    /\ isr \in Interrupts
    /\ isr \in {Interface2, Interface3, InterfaceSteps} => setup.arg \in {0, 1}

(* The firmware has nothing to do. *)
Idle == ~pending_setup /\ handler = NoRequest /\ isr = <<>>

Unanswered == ~xfer.stalled /\ ~Succeeded

(* The stages of a transfer that is not answered yet. *)
Pending(h) ==
    /\ pending_setup /\ isr = <<>>
    /\ pc[h] \in {"get_id", "download", "set_id", "health", "voltage"}
    /\ xfer.left = (IF pc[h] = "download" THEN Packets ELSE 1)
    /\ pc[h] # "get_id" => handler = NoRequest /\ ~xfer.acked /\ ~busy

InDataStage(h) ==
    /\ ~pending_setup /\ isr = <<>> /\ ~xfer.acked
    /\ pc[h] \in {"download", "set_id", "voltage"}
    /\ handler = xfer.req /\ left > 0 /\ (pc[h] # "download" => left = 1)
    /\ xfer.left = (IF arm \/ busy THEN left ELSE left - 1)
    /\ pc[h] = "download" /\ ~arm /\ ~busy =>
          ep0buf = Packet(plan[h], chunk[h] * Packets + (Packets - left) + 1)

InInterrupt(h) ==
    /\ ~pending_setup /\ handler = NoRequest /\ isr # <<>> /\ ~xfer.acked /\ xfer.left = 0
    /\ pc[h] \in {"configure", "start", "stop", "reset"}
    /\ pc[h] = "start" => isr \in {Done1, Interface2, Interface3, InterfaceSteps}

InStep(h) ==
    xfer.host = h =>
        /\ pc[h] \in {"get_id"} \cup Loaders \cup (Users \ {"run"})
        /\ xfer.req = RequestAt(h) /\ setup = xfer.req
        /\ xfer.stalled => ~xfer.acked /\ (pc[h] = "get_id" \/ Idle)
        /\ Succeeded => Idle
        /\ Unanswered => Pending(h) \/ InDataStage(h) \/ InInterrupt(h)

Quiet(h) == Free /\ pc[h] \in Loaders \cup Users => Idle

(* The FPGA has the first n packets of build b, and no more. *)
Holds(s, b, n) == Len(s) = n /\ \A i \in 1..n : s[i] = Packet(b, i)

Loaded(b, n) == Holds(sram, b, n)

Got(h) ==
    chunk[h] * Packets + (IF xfer.host = h /\ Succeeded THEN Packets
                          ELSE IF handler.kind = "cfg" THEN Packets - left ELSE 0)

Begun(h) == chunk[h] > 0 \/ handler.kind = "cfg" \/ (xfer.host = h /\ Succeeded)

Downloading(h) ==
    /\ pc[h] \in {"off", "get_id"} => chunk[h] = 0
    /\ pc[h] = "download" => chunk[h] < Chunks /\ (Begun(h) => Loaded(plan[h], Got(h)))
    /\ pc[h] = "set_id" => /\ chunk[h] = Chunks /\ Loaded(plan[h], Size)
                           /\ xfer.host = h /\ Succeeded => cdone

Runs(h) == cdone /\ Loaded(plan[h], Size)

(* The bitstream that could not be read at power-up was not downloaded. *)
Skipped(h) == unread /\ ~cdone /\ ~reload[h] /\ pc[h] # "health"

Using(h) == pc[h] \in Users => Runs(h) \/ Skipped(h)

(* No build is named from the first chunk on until its identifier is set. *)
NotNamed(h) ==
    \/ pc[h] = "download" /\ Begun(h)
    \/ pc[h] = "set_id" /\ ~(xfer.host = h /\ Succeeded)
    => bitstream_id \notin Builds

StageFits ==
    /\ handler.kind = "cfg" => left > 0 /\ bitstream_id \notin Builds
    /\ handler.kind = "set_id" => cdone /\ bitstream_id \notin Builds /\ \E b \in Builds : Loaded(b, Size)
    /\ handler.kind = "volt" => cdone \/ unread
    /\ handler # NoRequest => handler.kind \in {"cfg", "set_id", "volt"}
    /\ arm \/ busy => handler # NoRequest
    /\ arm => ~busy

SetupFits ==
    pending_setup =>
        /\ setup.kind = "cfg" /\ setup.arg # 0 => bitstream_id \notin Builds
        /\ setup.kind = "set_id" => bitstream_id \notin Builds
        /\ setup.kind = "volt" => cdone \/ unread
        /\ handler # NoRequest => setup.kind = "get_id"

IdLoaded ==
    /\ bitstream_id \in Builds => IF unread THEN ~cdone ELSE cdone /\ Loaded(bitstream_id, Size)
    /\ unread => bitstream_id \in Builds

(* EP0BUF never names another build than the one that may be started. *)
NotBuffered ==
    \A b \in Builds :
        bitstream_id \notin Builds /\ Loaded(b, Size) => ep0buf \notin Builds \ {b}

Answer(h) ==
    pc[h] = "get_id" /\ xfer.host = h /\ Succeeded /\ xfer.value \in Builds
        => bitstream_id = xfer.value

Fresh(h) ==
    \/ pc[h] = "run"
    \/ pc[h] = "start" /\ xfer.host = h /\ ~xfer.stalled /\ isr \in {Interface2, Done1, <<>>}
    => "old" \notin fifo

EepromFits ==
    /\ (\A h \in Hosts : ~Flashing(h)) /\ eeprom.id # NoId
          => eeprom.halves = <<eeprom.id, eeprom.id>>
    /\ \A h \in Hosts :
          /\ pc[h] = "flash_2" => eeprom.halves[1] = plan[h]
          /\ pc[h] = "flash_config" => eeprom.halves = <<plan[h], plan[h]>>

HostFits(h) ==
    /\ InStep(h) /\ Quiet(h) /\ Downloading(h) /\ Using(h) /\ NotNamed(h) /\ Answer(h) /\ Fresh(h)

IInv ==
    /\ TypeOK /\ IsrFits /\ OneAtATime /\ EepromFits
    /\ \A h \in Hosts : HostFits(h)
    /\ StageFits /\ SetupFits /\ IdLoaded /\ NotBuffered /\ PortsOff

--------------------------------------------------------------------------------
(* Data *)

LEMMA SizeNat == Size \in Nat \ {0} /\ Chunks \in Nat \ {0} /\ Packets \in Nat \ {0}
<1>1. \A a, b \in Nat \ {0} : a * b \in Nat \ {0}
  OBVIOUS
<1> QED BY <1>1, FirmwareAssumption DEF Size

LEMMA NextChunk ==
    ASSUME NEW c \in Nat, c < Chunks
    PROVE  /\ c * Packets \in Nat /\ (c + 1) * Packets = c * Packets + Packets
           /\ c * Packets + Packets <= Size
           /\ c + 1 = Chunks => c * Packets + Packets = Size
<1>1. \A a, p \in Nat : a * p \in Nat /\ (a + 1) * p = a * p + p
  OBVIOUS
<1>2. \A a, b, p \in Nat : a <= b => a * p <= b * p
  OBVIOUS
<1>3. c + 1 \in Nat /\ c + 1 <= Chunks /\ Chunks \in Nat /\ Packets \in Nat
  BY SizeNat
<1>4. (c + 1) * Packets <= Chunks * Packets
  BY <1>2, <1>3
<1> QED BY <1>1, <1>3, <1>4 DEF Size

(* A bitstream is complete when its last packet is there. *)
LEMMA CompleteHolds ==
    ASSUME NEW s \in Seq(Data), NEW b \in Builds
    PROVE  s = Complete(b) <=> Holds(s, b, Size)
<1>1. Size \in Nat
  BY SizeNat
<1>2. Len(s) \in Nat /\ DOMAIN s = 1..Len(s) /\ s = [n \in 1..Len(s) |-> s[n]]
  OBVIOUS
<1>3. Len(Complete(b)) = Size
  BY <1>1 DEF Complete
<1> QED BY <1>1, <1>2, <1>3 DEF Complete, Holds

LEMMA OneBuild ==
    ASSUME NEW s, NEW b \in Builds, NEW c \in Builds, Holds(s, b, Size), Holds(s, c, Size)
    PROVE  b = c
BY SizeNat DEF Holds, Packet

LEMMA PacketIsNoBuild ==
    ASSUME NEW b \in Builds, NEW n \in Nat
    PROVE  Packet(b, n) \notin Builds /\ Packet(b, n) # NoId
BY FirmwareAssumption DEF Packet

LEMMA NoIdIsNoBuild == NoId \notin Builds
BY FirmwareAssumption

(* What the FPGA has is not complete before it is started anew. *)
LEMMA EmptyIsIncomplete == \A b : ~Holds(<<>>, b, Size)
BY SizeNat DEF Holds



--------------------------------------------------------------------------------
(* Control transfers *)

LEMMA NoRequestKind == NoRequest \in Requests /\ NoRequest.kind = "health" /\ NoRequest.arg = 0
BY DEF NoRequest, Request, Requests, Kinds

LEMMA NoXferFits == NoXfer \in Xfers /\ NoXfer.host = NoHost
<1>1. NoXfer = [host |-> NoHost, req |-> NoRequest, left |-> 0, acked |-> FALSE, stalled |-> FALSE,
                value |-> NoId] /\ NoId \in Data
  BY DEF NoXfer, Data
<1> QED BY <1>1, SizeNat, NoRequestKind DEF Xfers

SameTransfer(x) ==
    x \in Xfers /\ x.host = xfer.host /\ x.req = xfer.req /\ x.stalled = xfer.stalled

(* What the firmware's answers do to the transfer on endpoint 0. *)
LEMMA Answers ==
    ASSUME TypeOK, NEW v \in Data
    PROVE  /\ SameTransfer(Ack(xfer)) /\ Ack(xfer).left = xfer.left /\ Ack(xfer).value = xfer.value
           /\ IF Answered THEN Ack(xfer) = xfer ELSE Ack(xfer).acked
           /\ SameTransfer(Reply(xfer, v))
           /\ IF Answered \/ ~In(xfer.req.kind)
              THEN Reply(xfer, v) = xfer
              ELSE Reply(xfer, v).left = 0 /\ Reply(xfer, v).acked /\ Reply(xfer, v).value = v
<1>1. xfer \in Xfers
  BY DEF TypeOK
<1>2. SameTransfer(xfer)
  BY <1>1 DEF SameTransfer
<1> DEFINE y == [xfer EXCEPT !.acked = TRUE]
           z == [xfer EXCEPT !.left = 0, !.acked = TRUE, !.value = v]
<1>3. /\ SameTransfer(y) /\ y.left = xfer.left /\ y.value = xfer.value /\ y.acked
      /\ SameTransfer(z) /\ z.left = 0 /\ z.acked /\ z.value = v
  <2>1. y \in Xfers /\ z \in Xfers
    <3>1. 0 \in 0..Packets
      BY SizeNat
    <3>2. y = [xfer EXCEPT !.acked = TRUE] /\ y \in Xfers
      BY <1>1 DEF Xfers
    <3>3. [xfer EXCEPT !.left = 0] \in Xfers
      BY <1>1, <3>1 DEF Xfers
    <3> QED BY <3>2, <3>3 DEF Xfers
  <2>2. /\ y.host = xfer.host /\ y.req = xfer.req /\ y.stalled = xfer.stalled
        /\ y.left = xfer.left /\ y.value = xfer.value /\ y.acked
    BY <1>1 DEF Xfers
  <2>3. /\ z.host = xfer.host /\ z.req = xfer.req /\ z.stalled = xfer.stalled
        /\ z.left = 0 /\ z.value = v /\ z.acked
    BY <1>1 DEF Xfers
  <2> QED BY <2>1, <2>2, <2>3 DEF SameTransfer
<1>4. xfer.acked \in BOOLEAN
  BY <1>1 DEF Xfers
<1> HIDE DEF y, z
<1>5. Ack(xfer) = (IF Answered THEN xfer ELSE y)
  BY DEF Ack, y
<1>6. Reply(xfer, v) = (IF Answered \/ ~In(xfer.req.kind) THEN xfer ELSE z)
  BY DEF Reply, z
<1> QED BY <1>2, <1>3, <1>4, <1>5, <1>6

LEMMA Stalls ==
    ASSUME TypeOK
    PROVE  /\ Stall(xfer) \in Xfers /\ Stall(xfer).host = xfer.host /\ Stall(xfer).req = xfer.req
           /\ Stall(xfer).acked = xfer.acked /\ Stall(xfer).left = xfer.left
           /\ Stall(xfer).stalled = (xfer.stalled \/ ~Answered)
<1>1. xfer \in Xfers
  BY DEF TypeOK
<1> QED BY <1>1 DEF Stall, Xfers

(* A process whose requests the firmware may have in hand has the transfer. *)
LEMMA Owner ==
    ASSUME IInv, NEW h \in Hosts, pc[h] \in Loaders \cup Users, ~Idle
    PROVE  xfer.host = h /\ InStep(h)
<1>1. ~Free
  BY DEF IInv, HostFits, Quiet
<1>2. xfer.host \in Hosts
  BY <1>1 DEF IInv, TypeOK, Xfers, Free
<1>3. Live(xfer.host)
  BY <1>2 DEF IInv, HostFits, InStep, Live, Ended, Loaders, Users
<1>4. Live(h)
  BY DEF Live, Ended, Loaders, Users
<1> QED BY <1>2, <1>3, <1>4 DEF IInv, HostFits, OneAtATime

(* A setup packet is that of the current transfer, if there is one. *)
LEMMA AtSetup ==
    ASSUME IInv, Main, NEW h \in Hosts
    PROVE  /\ xfer.host = h => /\ setup = RequestAt(h) /\ xfer.req = setup
                               /\ (pc[h] = "get_id" /\ xfer.stalled) \/ (Unanswered /\ Pending(h))
           /\ pc[h] \in Loaders \cup Users => xfer.host = h
<1>1. ~Idle
  BY DEF Main, Idle
<1>2. pc[h] \in Loaders \cup Users => xfer.host = h
  BY <1>1, Owner
<1>3. InStep(h)
  BY DEF IInv, HostFits
<1> QED BY <1>1, <1>2, <1>3 DEF InStep, Unanswered, InDataStage, InInterrupt, Main, Idle

(* The main loop waits for the data of the current transfer, or of one     *)
(* whose process was killed.                                               *)
LEMMA AtData ==
    ASSUME IInv, handler # NoRequest, isr = <<>>, NEW h \in Hosts
    PROVE  /\ pc[h] \in Loaders \cup Users => xfer.host = h
           /\ xfer.host = h =>
                 /\ setup = RequestAt(h) /\ xfer.req = setup
                 /\ \/ pc[h] = "get_id" /\ xfer.stalled
                    \/ pc[h] = "get_id" /\ Unanswered /\ Pending(h)
                    \/ pc[h] # "get_id" /\ Unanswered /\ InDataStage(h)
<1>1. ~Idle
  BY DEF Idle
<1>2. pc[h] \in Loaders \cup Users => xfer.host = h
  BY <1>1, Owner
<1>3. InStep(h)
  BY DEF IInv, HostFits
<1> QED BY <1>1, <1>2, <1>3 DEF InStep, Unanswered, Pending, InInterrupt, InDataStage

LEMMA AtInterrupt ==
    ASSUME IInv, isr # <<>>, NEW h \in Hosts
    PROVE  /\ pc[h] \in Loaders \cup Users => xfer.host = h
           /\ xfer.host = h =>
                 /\ setup = RequestAt(h) /\ xfer.req = setup
                 /\ \/ pc[h] = "get_id" /\ xfer.stalled
                    \/ pc[h] # "get_id" /\ Unanswered /\ InInterrupt(h)
<1>1. ~Idle
  BY DEF Idle
<1>2. pc[h] \in Loaders \cup Users => xfer.host = h
  BY <1>1, Owner
<1>3. InStep(h)
  BY DEF IInv, HostFits
<1> QED BY <1>1, <1>2, <1>3 DEF InStep, Unanswered, Pending, InInterrupt, InDataStage

--------------------------------------------------------------------------------
(* The main loop *)

(* A step of the device. *)
LEMMA DeviceFrame ==
    ASSUME IInv, UNCHANGED <<hostVars, eeprom>>
    PROVE  OneAtATime' /\ EepromFits'
BY DEF IInv, OneAtATime, Live, EepromFits, Flashing, hostVars

LEMMA GetBitstreamIdStep ==
    ASSUME IInv, GetBitstreamId, UNCHANGED hostVars
    PROVE  IInv'
<1> USE DEF hostVars, fpgaVars, pipeVars
<1>1. Main /\ setup.kind = "get_id" /\ bitstream_id \in Data /\ TypeOK
  BY DEF GetBitstreamId, Parse, IInv, TypeOK
<1>2. SameTransfer(xfer') /\ xfer' = Reply(xfer, bitstream_id)
  BY <1>1, Answers DEF GetBitstreamId
<1>3. TypeOK'
  BY <1>1, <1>2 DEF GetBitstreamId, Parse, TypeOK, SameTransfer
<1>4. IsrFits' /\ StageFits' /\ SetupFits' /\ IdLoaded' /\ NotBuffered' /\ PortsOff'
  BY DEF GetBitstreamId, Parse, IInv, IsrFits, StageFits, SetupFits, IdLoaded, NotBuffered, Loaded,
         PortsOff
<1>5. ASSUME NEW h \in Hosts PROVE HostFits(h)'
  <2>1. HostFits(h) /\ UNCHANGED <<xfer.host, xfer.req, xfer.stalled>>
    BY <1>2 DEF IInv, SameTransfer
  <2>2. xfer.host = h => pc[h] = "get_id" /\ In(xfer.req.kind)
    BY <1>1, AtSetup DEF RequestAt, Request, In
  <2>3. pc[h] \notin Loaders \cup Users
    BY <1>1, <2>2, AtSetup DEF Loaders, Users
  <2>4. xfer.host = h => IF xfer.stalled THEN xfer' = xfer /\ ~xfer.acked
                         ELSE xfer'.left = 0 /\ xfer'.acked /\ xfer'.value = bitstream_id
    BY <1>1, <1>2, <2>1, <2>2, AtSetup, Answers, FirmwareAssumption
       DEF HostFits, InStep, Answered, Free, Unanswered, Succeeded
  <2>5. Idle'
    BY <1>1 DEF Main, GetBitstreamId, Parse, Idle
  <2>6. InStep(h)'
    BY <2>1, <2>2, <2>4, <2>5 DEF HostFits, InStep, Unanswered, Succeeded, RequestAt, GetBitstreamId
  <2>7. Answer(h)'
    BY <2>1, <2>4 DEF Answer, GetBitstreamId, Succeeded
  <2> QED BY <2>1, <2>3, <2>5, <2>6, <2>7
          DEF HostFits, Quiet, Downloading, Using, Runs, Skipped, NotNamed, Fresh, Loaders, Users,
              GetBitstreamId
<1> QED BY <1>3, <1>4, <1>5, DeviceFrame DEF GetBitstreamId, IInv

LEMMA ReadRegisterStep ==
    ASSUME IInv, ReadRegister, UNCHANGED hostVars
    PROVE  IInv'
<1> USE DEF hostVars, fpgaVars, pipeVars
<1>1. Main /\ setup.kind = "health" /\ NoId \in Data /\ TypeOK
  BY DEF ReadRegister, Parse, IInv, Data
<1>2. SameTransfer(xfer') /\ xfer' = Reply(xfer, NoId)
  BY <1>1, Answers DEF ReadRegister
<1>3. TypeOK'
  BY <1>1, <1>2 DEF ReadRegister, Parse, TypeOK, SameTransfer
<1>4. IsrFits' /\ StageFits' /\ SetupFits' /\ IdLoaded' /\ NotBuffered' /\ PortsOff'
  BY NoIdIsNoBuild DEF ReadRegister, Parse, IInv, IsrFits, StageFits, SetupFits, IdLoaded,
                       NotBuffered,
                       Loaded, PortsOff
<1>5. ASSUME NEW h \in Hosts PROVE HostFits(h)'
  <2>1. HostFits(h) /\ UNCHANGED <<xfer.host, xfer.req, xfer.stalled>>
    BY <1>2 DEF IInv, SameTransfer
  <2>2. xfer.host = h => pc[h] = "health" /\ Unanswered /\ ~Free /\ In(xfer.req.kind)
    BY <1>1, AtSetup, FirmwareAssumption DEF RequestAt, Request, In, Free
  <2>3. pc[h] \in Loaders \cup Users => pc[h] = "health"
    BY <1>1, <2>2, AtSetup
  <2>4. xfer.host = h => xfer'.left = 0 /\ xfer'.acked
    BY <1>1, <1>2, <2>2, Answers DEF Answered, Unanswered
  <2>5. Idle'
    BY <1>1 DEF Main, ReadRegister, Parse, Idle
  <2>6. InStep(h)'
    BY <2>1, <2>2, <2>4, <2>5 DEF HostFits, InStep, Unanswered, Succeeded, RequestAt, ReadRegister
  <2> QED BY <2>1, <2>2, <2>3, <2>5, <2>6
          DEF HostFits, Quiet, Downloading, Using, Runs, Skipped, NotNamed, Answer, Fresh, Loaders,
              Users, Loaded,
              ReadRegister
<1> QED BY <1>3, <1>4, <1>5, DeviceFrame DEF ReadRegister, IInv

LEMMA DownloadChunkStep ==
    ASSUME IInv, DownloadChunk, UNCHANGED hostVars
    PROVE  IInv'
<1> USE DEF hostVars, fpgaVars, pipeVars
<1>1. /\ Main /\ setup.kind = "cfg" /\ TypeOK
      /\ handler' = setup /\ left' = Packets /\ arm' /\ ~pending_setup'
      /\ UNCHANGED <<setup, busy, ep0buf, isr, xfer, bitstream_idx, pipe_rst, alt, eeprom>>
  BY DEF DownloadChunk, DataStage, Parse, IInv
<1>2. IF setup.arg = 0
      THEN /\ bitstream_id' = NoId /\ sram' = <<>> /\ cdone' = FALSE /\ unread' = FALSE
           /\ vio' = (vio /\ ~RevC) /\ fifo' \subseteq {"old"}
      ELSE UNCHANGED <<bitstream_id, sram, cdone, unread, vio, fifo>>
  BY DEF DownloadChunk, ForgetId, FpgaReset, ResetFpga
<1>3. TypeOK'
  <2>1. arm' \in BOOLEAN /\ pending_setup' \in BOOLEAN
    BY DEF DownloadChunk, DataStage, Parse
  <2>2. /\ bitstream_id' \in Data /\ sram' \in Seq(Data) /\ fifo' \subseteq {"old", "new"}
        /\ cdone' \in BOOLEAN /\ unread' \in BOOLEAN /\ vio' \in BOOLEAN
    <3>1. CASE setup.arg = 0
      <4>1. cdone' \in BOOLEAN /\ unread' \in BOOLEAN /\ vio' \in BOOLEAN /\ bitstream_id' \in Data
        BY <1>2, <3>1 DEF Data
      <4>2. <<>> \in Seq(Data)
        OBVIOUS
      <4> QED BY <1>2, <3>1, <4>1, <4>2
    <3>2. CASE setup.arg # 0
      BY <1>1, <1>2, <3>2 DEF TypeOK
    <3> QED BY <3>1, <3>2
  <2> QED BY <1>1, <2>1, <2>2, SizeNat DEF TypeOK
<1>4. bitstream_id' \notin Builds /\ ~unread' /\ ~busy
  BY <1>1, <1>2, NoIdIsNoBuild DEF Main, IInv, SetupFits, StageFits, IdLoaded
<1>5. IsrFits' /\ StageFits' /\ SetupFits' /\ IdLoaded' /\ NotBuffered' /\ PortsOff'
  <2>1. StageFits'
    BY <1>1, <1>4, SizeNat, NoRequestKind DEF StageFits
  <2>2. NotBuffered'
    BY <1>1, <1>2, EmptyIsIncomplete DEF IInv, NotBuffered, Loaded
  <2> QED BY <1>1, <1>2, <1>4, <2>1, <2>2 DEF IInv, IsrFits, SetupFits, IdLoaded, PortsOff
<1>6. ASSUME NEW h \in Hosts PROVE HostFits(h)'
  <2>1. HostFits(h)
    BY DEF IInv
  <2>2. xfer.host = h => /\ pc[h] = "download" /\ Unanswered /\ Pending(h)
                         /\ setup.arg = chunk[h] /\ handler' = xfer.req
    BY <1>1, AtSetup DEF RequestAt, Request
  <2>3. pc[h] \in Loaders \cup Users => xfer.host = h
    BY <1>1, AtSetup
  <2>4. InStep(h)'
    <3>1. xfer.host = h => InDataStage(h)'
      BY <1>1, <2>2, SizeNat DEF Pending, InDataStage
    <3> QED BY <1>1, <2>1, <2>2, <3>1
            DEF HostFits, InStep, Unanswered, Succeeded, RequestAt
  <2>5. ASSUME xfer.host = h PROVE Loaded(plan[h], Got(h))' /\ chunk[h] < Chunks
    <3>1. chunk[h] \in Nat /\ chunk[h] < Chunks /\ Got(h)' = chunk[h] * Packets
      BY <1>1, <2>1, <2>2, <2>5, SizeNat, NextChunk
         DEF HostFits, Downloading, Got, TypeOK, Unanswered, Succeeded
    <3>2. CASE chunk[h] = 0
      BY <1>1, <1>2, <2>2, <2>5, <3>1, <3>2, SizeNat DEF Loaded, Holds
    <3>3. CASE chunk[h] # 0
      <4>1. Begun(h) /\ Got(h) = chunk[h] * Packets
        <5>1. chunk[h] * Packets \in Nat /\ handler.kind = "health" /\ ~Succeeded
          BY <1>1, <2>2, <2>5, <3>1, NoRequestKind, NextChunk DEF Main, Unanswered
        <5> QED BY <3>1, <3>3, <5>1 DEF Begun, Got
      <4> QED BY <1>1, <1>2, <2>1, <2>2, <2>5, <3>1, <3>3, <4>1 DEF HostFits, Downloading, Loaded
    <3> QED BY <3>1, <3>2, <3>3
  <2>6. Downloading(h)' /\ NotNamed(h)'
    BY <1>4, <2>1, <2>2, <2>3, <2>5 DEF HostFits, Downloading, NotNamed, Loaders
  <2> QED BY <1>1, <2>1, <2>2, <2>3, <2>4, <2>6, FirmwareAssumption
          DEF HostFits, Quiet, Using, Runs, Skipped, Answer, Fresh, Loaders, Users, Free
<1> QED BY <1>1, <1>3, <1>5, <1>6, DeviceFrame DEF IInv

LEMMA SetBitstreamIdStep ==
    ASSUME IInv, SetBitstreamId, UNCHANGED hostVars
    PROVE  IInv'
<1> USE DEF hostVars, fpgaVars, pipeVars
<1>1. /\ Main /\ setup.kind = "set_id" /\ TypeOK /\ cdone' /\ pipe_rst'
      /\ handler' = setup /\ left' = 1 /\ arm' /\ ~pending_setup'
      /\ UNCHANGED <<setup, busy, ep0buf, isr, xfer, bitstream_idx, bitstream_id, sram, unread, vio,
                     fifo, alt, eeprom>>
  BY DEF SetBitstreamId, DataStage, Parse, IInv
<1>2. bitstream_id \notin Builds /\ (\E b \in Builds : Loaded(b, Size)) /\ ~unread /\ ~busy
  <2>1. \E b \in Builds : Loaded(b, Size)
    BY <1>1, CompleteHolds DEF SetBitstreamId, StartsFpga, Startable, TypeOK, Loaded
  <2> QED BY <1>1, <2>1 DEF Main, IInv, SetupFits, StageFits, IdLoaded
<1>3. TypeOK'
  <2>1. cdone' \in BOOLEAN /\ pipe_rst' \in BOOLEAN /\ arm' \in BOOLEAN /\ pending_setup' \in BOOLEAN
    BY DEF SetBitstreamId, DataStage, Parse
  <2> QED BY <1>1, <2>1, SizeNat DEF TypeOK
<1>4. IsrFits' /\ StageFits' /\ SetupFits' /\ IdLoaded' /\ NotBuffered' /\ PortsOff'
  <2>1. StageFits' /\ SetupFits'
    BY <1>1, <1>2, NoRequestKind DEF StageFits, SetupFits, Loaded
  <2>2. IdLoaded' /\ NotBuffered' /\ PortsOff'
    BY <1>1, <1>2 DEF IInv, IdLoaded, NotBuffered, PortsOff, Loaded
  <2> QED BY <1>1, <2>1, <2>2 DEF IInv, IsrFits
<1>5. ASSUME NEW h \in Hosts PROVE HostFits(h)'
  <2>1. HostFits(h)
    BY DEF IInv
  <2>2. xfer.host = h => pc[h] = "set_id" /\ Unanswered /\ Pending(h) /\ handler' = xfer.req
    BY <1>1, AtSetup DEF RequestAt, Request
  <2>3. pc[h] \in Loaders \cup Users => xfer.host = h
    BY <1>1, AtSetup
  <2>4. xfer.host = h => InDataStage(h)'
    BY <1>1, <2>2 DEF Pending, InDataStage
  <2>5. InStep(h)'
    BY <1>1, <2>1, <2>2, <2>4 DEF HostFits, InStep, Unanswered, Succeeded, RequestAt
  <2> QED BY <1>1, <1>2, <2>1, <2>2, <2>3, <2>5, FirmwareAssumption
          DEF HostFits, Quiet, Downloading, Using, Runs, Skipped, NotNamed, Answer, Fresh, Loaders,
              Users, Free, Loaded
<1> QED BY <1>1, <1>3, <1>4, <1>5, DeviceFrame DEF IInv

LEMMA SetVoltageStep ==
    ASSUME IInv, SetVoltage, UNCHANGED hostVars
    PROVE  IInv'
<1> USE DEF hostVars, fpgaVars, pipeVars
<1>1. /\ Main /\ setup.kind = "volt" /\ TypeOK
      /\ handler' = setup /\ left' = 1 /\ arm' /\ ~pending_setup'
      /\ UNCHANGED <<setup, busy, ep0buf, isr, xfer, fpgaVars, pipeVars, eeprom>>
  BY DEF SetVoltage, DataStage, Parse, IInv
<1>2. TypeOK'
  <2>1. arm' \in BOOLEAN /\ pending_setup' \in BOOLEAN
    BY DEF SetVoltage, DataStage, Parse
  <2> QED BY <1>1, <2>1, SizeNat DEF TypeOK
<1>3. IsrFits' /\ StageFits' /\ SetupFits' /\ IdLoaded' /\ NotBuffered' /\ PortsOff'
  <2>1. (cdone \/ unread) /\ ~busy
    BY <1>1 DEF Main, IInv, StageFits, SetupFits
  <2>2. StageFits' /\ SetupFits'
    BY <1>1, <2>1, NoRequestKind DEF StageFits, SetupFits
  <2> QED BY <1>1, <2>2 DEF IInv, IsrFits, IdLoaded, NotBuffered, PortsOff, Loaded
<1>4. ASSUME NEW h \in Hosts PROVE HostFits(h)'
  <2>1. HostFits(h)
    BY DEF IInv
  <2>2. xfer.host = h => pc[h] = "voltage" /\ Unanswered /\ Pending(h) /\ handler' = xfer.req
    BY <1>1, AtSetup DEF RequestAt, Request
  <2>3. pc[h] \in Loaders \cup Users => xfer.host = h
    BY <1>1, AtSetup
  <2>4. xfer.host = h => InDataStage(h)'
    BY <1>1, <2>2 DEF Pending, InDataStage
  <2>5. InStep(h)'
    BY <1>1, <2>1, <2>2, <2>4 DEF HostFits, InStep, Unanswered, Succeeded, RequestAt
  <2> QED BY <1>1, <2>1, <2>2, <2>3, <2>5, FirmwareAssumption
          DEF HostFits, Quiet, Downloading, Using, Runs, Skipped, NotNamed, Answer, Fresh, Loaders,
              Users, Free, Loaded
<1> QED BY <1>1, <1>2, <1>3, <1>4, DeviceFrame DEF IInv

LEMMA RefuseStep ==
    ASSUME IInv, Refuse, UNCHANGED hostVars
    PROVE  IInv'
<1> USE DEF hostVars, fpgaVars, pipeVars
<1>1. /\ Main /\ setup.kind # "get_id" /\ TypeOK /\ ~pending_setup' /\ xfer' = Stall(xfer)
      /\ UNCHANGED <<setup, handler, left, arm, busy, ep0buf, isr, fpgaVars, pipeVars, eeprom>>
  BY DEF Refuse, StallRequest, Acceptable, IInv
<1>2. TypeOK'
  BY <1>1, Stalls DEF Refuse, StallRequest, TypeOK
<1>3. IsrFits' /\ StageFits' /\ SetupFits' /\ IdLoaded' /\ NotBuffered' /\ PortsOff'
  BY <1>1 DEF IInv, IsrFits, StageFits, SetupFits, IdLoaded, NotBuffered, PortsOff, Loaded
<1>4. ASSUME NEW h \in Hosts PROVE HostFits(h)'
  <2>1. HostFits(h) /\ UNCHANGED <<xfer.host, xfer.req, xfer.acked, xfer.left>>
    BY <1>1, Stalls DEF IInv
  <2>2. xfer.host = h => /\ pc[h] # "get_id" /\ Unanswered /\ Pending(h)
                         /\ xfer'.stalled /\ ~xfer'.acked
    <3>1. xfer.host = h => pc[h] # "get_id" /\ Unanswered /\ Pending(h)
      BY <1>1, AtSetup DEF RequestAt, Request
    <3> QED BY <1>1, <2>1, <3>1, Stalls, FirmwareAssumption DEF Answered, Free, Unanswered, Pending
  <2>3. pc[h] \in Loaders \cup Users => xfer.host = h
    BY <1>1, AtSetup
  <2>4. Idle'
    BY <1>1 DEF Main, Idle
  <2>5. InStep(h)'
    BY <1>1, <2>1, <2>2, <2>4 DEF HostFits, InStep, Unanswered, Succeeded, RequestAt
  <2> QED BY <1>1, <2>1, <2>2, <2>3, <2>4, <2>5
          DEF HostFits, Quiet, Downloading, Using, Runs, Skipped, NotNamed, Answer, Fresh, Begun,
              Got, Succeeded,
              Loaders, Users, Free, Loaded
<1> QED BY <1>1, <1>2, <1>3, <1>4, DeviceFrame DEF IInv

--------------------------------------------------------------------------------
(* The data stage *)

LEMMA AppendHolds ==
    ASSUME NEW s \in Seq(Data), NEW e \in Data, NEW b \in Builds, NEW n \in Nat
    PROVE  /\ Append(s, e) \in Seq(Data)
           /\ Holds(Append(s, e), b, n + 1) <=> Holds(s, b, n) /\ e = Packet(b, n + 1)
<1>1. /\ Append(s, e) \in Seq(Data) /\ Len(Append(s, e)) = Len(s) + 1 /\ Len(s) \in Nat
      /\ \A i \in 1..Len(s) : Append(s, e)[i] = s[i]
      /\ Append(s, e)[Len(s) + 1] = e
  OBVIOUS
<1>2. ASSUME Holds(Append(s, e), b, n + 1) PROVE Holds(s, b, n) /\ e = Packet(b, n + 1)
  BY <1>1, <1>2 DEF Holds
<1>3. ASSUME Holds(s, b, n), e = Packet(b, n + 1) PROVE Holds(Append(s, e), b, n + 1)
  BY <1>1, <1>3 DEF Holds
<1> QED BY <1>1, <1>2, <1>3

(* The first request of a process may be acknowledged for another: it is   *)
(* not answered by that.                                                   *)
LEMMA LateAck ==
    ASSUME IInv, NEW h \in Hosts, xfer.host # h \/ pc[h] = "get_id",
           handler # NoRequest, isr = <<>>,
           xfer' \in {xfer, Ack(xfer)}, UNCHANGED <<setup, pending_setup, isr, hostVars>>
    PROVE  InStep(h)' /\ ~(xfer.host = h /\ Succeeded')
<1> USE DEF hostVars
<1>4. TypeOK /\ InStep(h) /\ xfer \in Xfers /\ NoId \in Data
  BY DEF IInv, HostFits, TypeOK, Data
<1>1. /\ InStep(h) /\ SameTransfer(xfer') /\ xfer'.left = xfer.left
      /\ UNCHANGED <<xfer.host, xfer.req, xfer.stalled>>
  BY <1>4, Answers DEF SameTransfer
<1>2. xfer.host = h => \/ xfer.stalled /\ ~xfer'.acked
                       \/ Unanswered /\ Pending(h) /\ xfer'.left # 0
  <2>1. ASSUME xfer.host = h, xfer.stalled PROVE xfer' = xfer /\ ~xfer.acked
    BY <1>4, <2>1, Answers DEF Answered, InStep
  <2>2. ASSUME xfer.host = h, ~xfer.stalled PROVE Unanswered /\ Pending(h) /\ xfer.left # 0
    BY <2>2, AtData, SizeNat DEF Pending
  <2> QED BY <1>1, <2>1, <2>2
<1>3. xfer.host = h /\ Pending(h) => Pending(h)'
  BY <1>1 DEF Pending
<1> QED BY <1>1, <1>2, <1>3 DEF InStep, Unanswered, Succeeded, RequestAt

LEMMA ArmStep ==
    ASSUME IInv, Arm, UNCHANGED hostVars
    PROVE  IInv'
<1> USE DEF hostVars, fpgaVars, pipeVars
<1>1. /\ isr = <<>> /\ arm /\ ~arm' /\ busy' /\ TypeOK
      /\ UNCHANGED <<setup, pending_setup, handler, left, ep0buf, isr, xfer, fpgaVars, pipeVars,
                     eeprom>>
  BY DEF Arm, IInv
<1>2. handler # NoRequest /\ ~Idle
  BY <1>1 DEF IInv, StageFits, Idle
<1>3. TypeOK'
  <2>1. arm' \in BOOLEAN /\ busy' \in BOOLEAN
    BY DEF Arm
  <2> QED BY <1>1, <2>1 DEF TypeOK
<1>4. IsrFits' /\ StageFits' /\ SetupFits' /\ IdLoaded' /\ NotBuffered' /\ PortsOff'
  BY <1>1, <1>2
     DEF IInv, IsrFits, StageFits, SetupFits, IdLoaded, NotBuffered, PortsOff, Loaded
<1>5. ASSUME NEW h \in Hosts PROVE HostFits(h)'
  <2>1. HostFits(h)
    BY DEF IInv
  <2>2. InStep(h)'
    BY <1>1, <1>2, <2>1
       DEF HostFits, InStep, Pending, InDataStage, InInterrupt, Unanswered, Succeeded, RequestAt,
           Idle
  <2> QED BY <1>1, <1>2, <2>1, <2>2
          DEF HostFits, Quiet, Downloading, Using, Runs, Skipped, NotNamed, Answer, Fresh, Begun,
              Got,
              Succeeded, Free, Loaded, Idle
<1> QED BY <1>1, <1>3, <1>4, <1>5, DeviceFrame DEF IInv

LEMMA ChunkPacketStep ==
    ASSUME IInv, ChunkPacket, UNCHANGED hostVars
    PROVE  IInv'
<1> USE DEF hostVars, fpgaVars, pipeVars
<1>1. /\ isr = <<>> /\ handler # NoRequest /\ handler.kind = "cfg" /\ ~arm /\ ~busy /\ TypeOK
      /\ sram' = Append(sram, ep0buf) /\ left' = left - 1 /\ arm' = (left > 1)
      /\ UNCHANGED <<setup, pending_setup, busy, ep0buf, isr, bitstream_id, cdone, unread, vio,
                     pipeVars, eeprom>>
  BY DEF ChunkPacket, Received, IInv
<1>2. left \in 1..Packets /\ bitstream_id \notin Builds /\ ~unread
  BY <1>1 DEF IInv, StageFits, IdLoaded, TypeOK
<1>3. IF left > 1
      THEN UNCHANGED <<handler, xfer, bitstream_idx>>
      ELSE handler' = NoRequest /\ xfer' = Ack(xfer) /\ bitstream_idx' = handler.arg
  BY DEF ChunkPacket
<1>4. Append(sram, ep0buf) \in Seq(Data)
  BY <1>1 DEF TypeOK
<1>5. SameTransfer(xfer') /\ xfer'.left = xfer.left
  BY <1>1, <1>3, Answers DEF TypeOK, SameTransfer, Data
<1>6. TypeOK'
  <2>1. arm' \in BOOLEAN /\ handler' \in Requests /\ bitstream_idx' \in Nat
    BY <1>1, <1>3, NoRequestKind DEF TypeOK, Requests
  <2> QED BY <1>1, <1>2, <1>4, <1>5, <2>1, SizeNat DEF TypeOK, SameTransfer
<1>7. NotBuffered'
  <2>1. ASSUME NEW b \in Builds, Holds(Append(sram, ep0buf), b, Size) PROVE ep0buf \notin Builds
    <3>1. Size - 1 \in Nat /\ Size - 1 + 1 = Size /\ sram \in Seq(Data) /\ ep0buf \in Data
      BY <1>1, SizeNat DEF TypeOK
    <3>2. ep0buf = Packet(b, Size)
      BY <2>1, <3>1, AppendHolds
    <3> QED BY <3>2, PacketIsNoBuild, SizeNat
  <2> QED BY <1>1, <2>1 DEF NotBuffered, Loaded
<1>8. IsrFits' /\ StageFits' /\ SetupFits' /\ IdLoaded' /\ PortsOff'
  <2>1. left > 1 \/ left = 1
    BY <1>2
  <2>2. StageFits'
    <3>1. CASE left > 1
      BY <1>1, <1>2, <1>3, <3>1 DEF IInv, StageFits
    <3>2. CASE left = 1
      <4>1. (left > 1) = FALSE
        BY <3>2
      <4>2. arm' = FALSE
        BY <1>1, <4>1, Zenon
      <4>3. handler' = NoRequest
        BY <1>3, <3>2
      <4> QED BY <1>1, <4>2, <4>3, NoRequestKind DEF StageFits
    <3> QED BY <2>1, <3>1, <3>2
  <2>3. SetupFits'
    BY <1>1, <1>2, <1>3 DEF IInv, SetupFits
  <2> QED BY <1>1, <1>2, <2>2, <2>3 DEF IInv, IsrFits, IdLoaded, PortsOff, Loaded
<1>9. ASSUME NEW h \in Hosts PROVE HostFits(h)'
  <2>1. HostFits(h) /\ UNCHANGED <<xfer.host, xfer.req, xfer.stalled>>
    BY <1>5 DEF IInv, SameTransfer
  <2>2. pc[h] \in Loaders \cup Users => xfer.host = h
    BY <1>1, AtData
  <2>3. CASE xfer.host = h /\ pc[h] # "get_id"
    <3>1. /\ pc[h] = "download" /\ Unanswered /\ InDataStage(h) /\ handler = xfer.req /\ ~Free
          /\ xfer.left = left - 1
          /\ ep0buf = Packet(plan[h], chunk[h] * Packets + (Packets - left) + 1)
      BY <1>1, <2>3, AtData, FirmwareAssumption DEF RequestAt, Request, InDataStage, Free
    <3>2. /\ chunk[h] \in Nat /\ plan[h] \in Builds /\ chunk[h] < Chunks
          /\ chunk[h] * Packets \in Nat /\ chunk[h] * Packets + (Packets - left) \in Nat
      <4>1. chunk[h] \in Nat /\ plan[h] \in Builds /\ chunk[h] < Chunks
        BY <1>1, <2>1, <3>1, SizeNat DEF HostFits, Downloading, TypeOK
      <4>2. chunk[h] * Packets \in Nat /\ Packets - left \in Nat
        BY <1>2, <4>1, NextChunk, SizeNat
      <4> QED BY <4>1, <4>2
    <3>3. Loaded(plan[h], chunk[h] * Packets + (Packets - left))
      BY <1>1, <2>1, <3>1 DEF HostFits, Downloading, Begun, Got, Unanswered
    <3>4. Holds(sram', plan[h], chunk[h] * Packets + (Packets - left) + 1)
      <4>1. PICK n \in Nat : n = chunk[h] * Packets + (Packets - left)
        BY <3>2
      <4>2. sram \in Seq(Data) /\ ep0buf \in Data
        BY <1>1 DEF TypeOK
      <4>3. Holds(Append(sram, ep0buf), plan[h], n + 1)
        BY <3>1, <3>2, <3>3, <4>1, <4>2, AppendHolds DEF Loaded
      <4> QED BY <1>1, <4>1, <4>3
    <3>5. CASE left > 1
      <4>1. handler' = handler /\ xfer' = xfer /\ arm'
        BY <1>1, <1>3, <3>5
      <4>2. InStep(h)'
        BY <1>1, <1>2, <2>1, <2>3, <3>1, <3>5, <4>1
           DEF HostFits, InStep, InDataStage, Unanswered, Succeeded, RequestAt
      <4>3. Got(h)' = chunk[h] * Packets + (Packets - left) + 1
        <5>1. ~Succeeded'
          BY <3>1, <4>1 DEF Unanswered, Succeeded
        <5>2. Got(h)' = chunk[h] * Packets + (Packets - (left - 1))
          BY <1>1, <4>1, <5>1 DEF Got
        <5> QED BY <1>2, <3>2, <5>2, SizeNat
      <4> QED BY <1>1, <1>2, <2>1, <2>3, <3>1, <3>2, <3>4, <4>1, <4>2, <4>3
              DEF HostFits, Quiet, Downloading, Using, Runs, Skipped, NotNamed, Answer, Fresh,
                  Users, Free, Loaded
    <3>6. CASE left = 1
      <4>1. handler' = NoRequest /\ xfer'.left = 0 /\ xfer'.acked
        BY <1>1, <1>3, <1>5, <3>1, <3>6, Answers DEF Answered, Unanswered, TypeOK, Data
      <4>2. Succeeded' /\ Idle'
        BY <1>1, <3>1, <4>1 DEF Succeeded, Idle, InDataStage
      <4>3. InStep(h)'
        BY <1>1, <2>1, <2>3, <3>1, <4>2 DEF HostFits, InStep, Unanswered, RequestAt
      <4>4. Got(h)' = chunk[h] * Packets + (Packets - left) + 1
        BY <2>1, <2>3, <3>2, <3>6, <4>2, SizeNat DEF Got
      <4> QED BY <1>1, <1>2, <2>1, <2>3, <3>1, <3>2, <3>4, <4>2, <4>3, <4>4
              DEF HostFits, Quiet, Downloading, Using, Runs, Skipped, NotNamed, Answer, Fresh,
                  Users, Loaded
    <3> QED BY <1>2, <3>5, <3>6
  <2>4. CASE xfer.host # h \/ pc[h] = "get_id"
    <3>1. pc[h] \notin Loaders \cup Users
      BY <2>2, <2>4 DEF Loaders, Users
    <3>2. InStep(h)' /\ ~(xfer.host = h /\ Succeeded')
      BY <1>1, <1>3, <2>4, LateAck
    <3> QED BY <1>1, <2>1, <3>1, <3>2
            DEF HostFits, Quiet, Downloading, Using, Runs, Skipped, NotNamed, Answer, Fresh,
                Loaders, Users
  <2> QED BY <2>3, <2>4
<1> QED BY <1>1, <1>6, <1>7, <1>8, <1>9, DeviceFrame DEF IInv

LEMMA BitstreamIdReceivedStep ==
    ASSUME IInv, BitstreamIdReceived, UNCHANGED hostVars
    PROVE  IInv'
<1> USE DEF hostVars, fpgaVars, pipeVars
<1>1. /\ isr = <<>> /\ handler # NoRequest /\ handler.kind = "set_id" /\ ~arm /\ ~busy /\ TypeOK
      /\ bitstream_id' = ep0buf /\ handler' = NoRequest /\ left' = 0 /\ xfer' = Ack(xfer)
      /\ UNCHANGED <<setup, pending_setup, arm, busy, ep0buf, isr, bitstream_idx, sram, cdone,
                     unread, vio, pipeVars, eeprom>>
  BY DEF BitstreamIdReceived, Received, EndOfStage, IInv
<1>2. SameTransfer(xfer') /\ xfer'.left = xfer.left
  BY <1>1, Answers DEF TypeOK, SameTransfer, Data
<1>3. TypeOK'
  BY <1>1, <1>2, NoRequestKind, SizeNat DEF TypeOK, SameTransfer
<1>4. IdLoaded' /\ NotBuffered'
  <2>1. PICK b \in Builds : Loaded(b, Size) /\ cdone /\ bitstream_id \notin Builds
    BY <1>1 DEF IInv, StageFits
  <2>2. ep0buf \in Builds => ep0buf = b
    BY <2>1 DEF IInv, NotBuffered
  <2>3. ~unread
    BY <2>1 DEF IInv, IdLoaded
  <2> QED BY <1>1, <2>1, <2>2, <2>3 DEF IdLoaded, NotBuffered, Loaded
<1>5. IsrFits' /\ StageFits' /\ SetupFits' /\ PortsOff'
  BY <1>1, NoRequestKind DEF IInv, IsrFits, StageFits, SetupFits, PortsOff
<1>6. ASSUME NEW h \in Hosts PROVE HostFits(h)'
  <2>1. HostFits(h) /\ UNCHANGED <<xfer.host, xfer.req, xfer.stalled>>
    BY <1>2 DEF IInv, SameTransfer
  <2>2. pc[h] \in Loaders \cup Users => xfer.host = h
    BY <1>1, AtData
  <2>3. CASE xfer.host = h /\ pc[h] # "get_id"
    <3>1. /\ pc[h] = "set_id" /\ Unanswered /\ InDataStage(h) /\ ~Free /\ xfer.left = 0
      BY <1>1, <2>3, AtData, FirmwareAssumption DEF RequestAt, Request, InDataStage, Free
    <3>2. Succeeded' /\ Idle'
      BY <1>1, <1>2, <3>1, Answers
         DEF Answered, Unanswered, TypeOK, Data, Succeeded, Idle, InDataStage
    <3>3. InStep(h)' /\ cdone'
      BY <1>1, <2>1, <2>3, <3>1, <3>2 DEF IInv, StageFits, HostFits, InStep, Unanswered, RequestAt
    <3> QED BY <1>1, <2>1, <2>3, <3>1, <3>2, <3>3
            DEF HostFits, Quiet, Downloading, Using, Runs, Skipped, NotNamed, Answer, Fresh, Users,
                Loaded
  <2>4. CASE xfer.host # h \/ pc[h] = "get_id"
    <3>1. pc[h] \notin Loaders \cup Users
      BY <2>2, <2>4 DEF Loaders, Users
    <3>2. InStep(h)' /\ ~(xfer.host = h /\ Succeeded')
      BY <1>1, <1>2, <2>1, <2>4, LateAck
    <3> QED BY <1>1, <2>1, <3>1, <3>2
            DEF HostFits, Quiet, Downloading, Using, Runs, Skipped, NotNamed, Answer, Fresh,
                Loaders, Users
  <2> QED BY <2>3, <2>4
<1> QED BY <1>1, <1>3, <1>4, <1>5, <1>6, DeviceFrame DEF IInv

LEMMA VoltageReceivedStep ==
    ASSUME IInv, VoltageReceived, UNCHANGED hostVars
    PROVE  IInv'
<1> USE DEF hostVars, fpgaVars, pipeVars
<1>1. /\ isr = <<>> /\ handler # NoRequest /\ handler.kind = "volt" /\ ~arm /\ ~busy /\ TypeOK
      /\ vio' \in BOOLEAN /\ handler' = NoRequest /\ left' = 0 /\ xfer' = Ack(xfer)
      /\ UNCHANGED <<setup, pending_setup, arm, busy, ep0buf, isr, bitstream_idx, bitstream_id,
                     sram,
                     cdone, unread, pipeVars, eeprom>>
  BY DEF VoltageReceived, Received, EndOfStage, IInv
<1>2. SameTransfer(xfer') /\ xfer'.left = xfer.left
  BY <1>1, Answers DEF TypeOK, SameTransfer, Data
<1>3. TypeOK'
  <2>1. vio' \in BOOLEAN
    BY <1>1
  <2> QED BY <1>1, <1>2, <2>1, NoRequestKind, SizeNat DEF TypeOK, SameTransfer
<1>4. IsrFits' /\ StageFits' /\ SetupFits' /\ IdLoaded' /\ NotBuffered' /\ PortsOff'
  BY <1>1, NoRequestKind DEF IInv, IsrFits, StageFits, SetupFits, IdLoaded, NotBuffered, PortsOff,
                             Loaded
<1>5. ASSUME NEW h \in Hosts PROVE HostFits(h)'
  <2>1. HostFits(h) /\ UNCHANGED <<xfer.host, xfer.req, xfer.stalled>>
    BY <1>2 DEF IInv, SameTransfer
  <2>2. pc[h] \in Loaders \cup Users => xfer.host = h
    BY <1>1, AtData
  <2>3. CASE xfer.host = h /\ pc[h] # "get_id"
    <3>1. /\ pc[h] = "voltage" /\ Unanswered /\ InDataStage(h) /\ ~Free /\ xfer.left = 0
      BY <1>1, <2>3, AtData, FirmwareAssumption DEF RequestAt, Request, InDataStage, Free
    <3>2. Succeeded' /\ Idle'
      BY <1>1, <1>2, <3>1, Answers
         DEF Answered, Unanswered, TypeOK, Data, Succeeded, Idle, InDataStage
    <3>3. InStep(h)'
      BY <1>1, <2>1, <2>3, <3>1, <3>2 DEF HostFits, InStep, Unanswered, RequestAt
    <3> QED BY <1>1, <2>1, <2>3, <3>1, <3>2, <3>3
            DEF HostFits, Quiet, Downloading, Using, Runs, Skipped, NotNamed, Answer, Fresh, Users,
                Loaded
  <2>4. CASE xfer.host # h \/ pc[h] = "get_id"
    <3>1. pc[h] \notin Loaders \cup Users
      BY <2>2, <2>4 DEF Loaders, Users
    <3>2. InStep(h)' /\ ~(xfer.host = h /\ Succeeded')
      BY <1>1, <1>2, <2>1, <2>4, LateAck
    <3> QED BY <1>1, <2>1, <3>1, <3>2
            DEF HostFits, Quiet, Downloading, Using, Runs, Skipped, NotNamed, Answer, Fresh,
                Loaders, Users
  <2> QED BY <2>3, <2>4
<1> QED BY <1>1, <1>3, <1>4, <1>5, DeviceFrame DEF IInv

--------------------------------------------------------------------------------
(* Standard requests, and data of the design *)

LEMMA InterruptOrder ==
    ASSUME IsrFits, isr # <<>>
    PROVE  /\ Tail(isr) \in Interrupts
           /\ Head(isr) \in {"set_rst", "reset_fifo", "clear_rst", "deselect", "done"}
           /\ Head(isr) = "done" <=> Tail(isr) = <<>>
           /\ Tail(isr) = Interface2 => Head(isr) = "reset_fifo"
           /\ Head(isr) = "clear_rst" => isr = Interface2
           /\ Tail(isr) \in {Interface2, Interface3, InterfaceSteps}
                 => isr \in {Interface2, Interface3, InterfaceSteps}
           /\ Tail(isr) \in {Done1, <<>>} /\ isr \in {Done1, Interface2, Interface3, InterfaceSteps}
                 => isr \in {Done1, Interface2} /\ Head(isr) \in {"clear_rst", "done"}
           /\ isr \in {Done1, Interface2, Interface3, InterfaceSteps} /\ Tail(isr) # <<>>
                 => Tail(isr) \in {Done1, Interface2, Interface3, InterfaceSteps}
<1> USE DEF Interrupts, Done1, Interface2, Interface3, InterfaceSteps, Config2, Config3, ConfigSteps
<1>1. CASE isr = Done1
  BY <1>1
<1>2. CASE isr = Interface2
  BY <1>2
<1>3. CASE isr = Interface3
  BY <1>3
<1>4. CASE isr = InterfaceSteps
  BY <1>4
<1>5. CASE isr = Config2
  BY <1>5
<1>6. CASE isr = Config3
  BY <1>6
<1>7. CASE isr = ConfigSteps
  BY <1>7
<1> QED BY <1>1, <1>2, <1>3, <1>4, <1>5, <1>6, <1>7 DEF IsrFits

LEMMA InterruptStep ==
    ASSUME IInv, Interrupt, UNCHANGED hostVars
    PROVE  IInv'
<1> USE DEF hostVars, fpgaVars, pipeVars
<1>1. /\ isr # <<>> /\ isr' = Tail(isr) /\ TypeOK /\ IsrFits
      /\ UNCHANGED <<setup, pending_setup, handler, left, arm, busy, ep0buf, fpgaVars, eeprom>>
  BY DEF Interrupt, IInv
<1>2. /\ xfer' = IF Tail(isr) = <<>> THEN Ack(xfer) ELSE xfer
      /\ pipe_rst' \in BOOLEAN /\ alt' \in {0, 1} /\ fifo' \subseteq {"old", "new"}
      /\ Head(isr) \in {"clear_rst", "done"} => fifo' = fifo
      /\ Head(isr) = "reset_fifo" => fifo' = {}
  <2>1. CASE Head(isr) = "set_rst"
    BY <1>1, <2>1, InterruptOrder DEF Interrupt, SetPipeRst, TypeOK
  <2>2. CASE Head(isr) = "reset_fifo"
    BY <1>1, <2>2, InterruptOrder DEF Interrupt, TypeOK
  <2>3. CASE Head(isr) = "clear_rst"
    <3>1. setup.arg \in {0, 1}
      BY <1>1, <2>3, InterruptOrder DEF IsrFits
    <3> QED BY <1>1, <2>3, <3>1, InterruptOrder DEF Interrupt, ClearPipeRst, TypeOK
  <2>4. CASE Head(isr) = "deselect"
    BY <1>1, <2>4, InterruptOrder DEF Interrupt, TypeOK
  <2>5. CASE Head(isr) = "done"
    BY <1>1, <2>5, InterruptOrder DEF Interrupt, TypeOK
  <2> QED BY <1>1, <2>1, <2>2, <2>3, <2>4, <2>5, InterruptOrder
<1>3. SameTransfer(xfer') /\ xfer'.left = xfer.left
  BY <1>1, <1>2, Answers DEF TypeOK, SameTransfer, Data
<1>4. TypeOK'
  <2>1. Tail(isr) \in Seq({"set_rst", "reset_fifo", "clear_rst", "deselect", "done"})
    BY <1>1 DEF TypeOK
  <2> QED BY <1>1, <1>2, <1>3, <2>1 DEF TypeOK, SameTransfer
<1>5. IsrFits' /\ StageFits' /\ SetupFits' /\ IdLoaded' /\ NotBuffered' /\ PortsOff'
  BY <1>1, InterruptOrder
     DEF IInv, IsrFits, StageFits, SetupFits, IdLoaded, NotBuffered, PortsOff, Loaded
<1>6. ASSUME NEW h \in Hosts PROVE HostFits(h)'
  <2>1. HostFits(h) /\ UNCHANGED <<xfer.host, xfer.req, xfer.stalled>>
    BY <1>3 DEF IInv, SameTransfer
  <2>2. pc[h] \in Loaders \cup Users => xfer.host = h
    BY <1>1, AtInterrupt
  <2>3. CASE xfer.host = h /\ pc[h] # "get_id"
    <3>1. Unanswered /\ InInterrupt(h) /\ ~Free
      BY <1>1, <2>3, AtInterrupt, FirmwareAssumption DEF Free
    <3>2. ASSUME Tail(isr) # <<>> PROVE InStep(h)'
      <4>1. InInterrupt(h)' /\ Unanswered'
        BY <1>1, <1>2, <3>1, <3>2, InterruptOrder DEF InInterrupt, Unanswered, Succeeded
      <4> QED BY <1>1, <2>1, <2>3, <4>1 DEF HostFits, InStep, Unanswered, RequestAt
    <3>3. ASSUME Tail(isr) = <<>> PROVE InStep(h)'
      <4>1. Succeeded' /\ Idle'
        BY <1>1, <1>2, <1>3, <3>1, <3>3, Answers
           DEF Answered, Unanswered, InInterrupt, Succeeded, Idle, TypeOK, Data
      <4> QED BY <1>1, <2>1, <2>3, <3>1, <4>1 DEF HostFits, InStep, Unanswered, RequestAt
    <3>4. pc[h] = "start" /\ isr' \in {Interface2, Done1, <<>>} => "old" \notin fifo'
      <4>1. CASE Tail(isr) = Interface2
        BY <1>1, <1>2, <4>1, InterruptOrder
      <4>2. CASE Tail(isr) \in {Done1, <<>>}
        BY <1>1, <1>2, <2>1, <2>3, <3>1, <4>2, InterruptOrder
           DEF HostFits, Fresh, InInterrupt, Unanswered
      <4> QED BY <1>1, <4>1, <4>2
    <3> QED BY <1>1, <2>1, <2>3, <3>1, <3>2, <3>3, <3>4
            DEF HostFits, InInterrupt, Quiet, Downloading, Using, Runs, Skipped, NotNamed, Answer,
                Fresh, Users,
                Loaded, Free
  <2>4. CASE xfer.host # h \/ pc[h] = "get_id"
    <3>1. pc[h] \notin Loaders \cup Users
      BY <2>2, <2>4 DEF Loaders, Users
    <3>2. xfer.host = h => xfer.stalled /\ xfer' = xfer
      BY <1>1, <1>2, <2>4, AtInterrupt, Answers DEF Answered, TypeOK, Data
    <3>3. InStep(h)' /\ Answer(h)'
      BY <1>1, <2>1, <2>4, <3>2, FirmwareAssumption
         DEF HostFits, InStep, Unanswered, Succeeded, RequestAt, Answer, Idle
    <3> QED BY <1>1, <2>1, <3>1, <3>3
            DEF HostFits, Quiet, Downloading, Using, Runs, Skipped, NotNamed, Fresh, Loaders, Users
  <2> QED BY <2>3, <2>4
<1> QED BY <1>1, <1>4, <1>5, <1>6, DeviceFrame DEF IInv

LEMMA PipeRstFailsStep ==
    ASSUME IInv, PipeRstFails, UNCHANGED hostVars
    PROVE  IInv'
<1> USE DEF hostVars, fpgaVars, pipeVars
<1>1. /\ isr # <<>> /\ Head(isr) \in {"set_rst", "clear_rst"} /\ TypeOK /\ IsrFits
      /\ UNCHANGED <<setup, pending_setup, handler, left, arm, busy, ep0buf, fpgaVars, alt, eeprom>>
  BY DEF PipeRstFails, IInv
<1>2. /\ IF setup.kind = "config" THEN isr' = Tail(isr) /\ xfer' = xfer
                                  ELSE isr' = <<>> /\ xfer' = Stall(xfer)
      /\ pipe_rst' \in BOOLEAN /\ fifo' \subseteq {"old", "new"}
  BY <1>1 DEF PipeRstFails, IgnoresPipeRst, SetPipeRst, ClearPipeRst, TypeOK
<1>3. /\ xfer' \in Xfers /\ UNCHANGED <<xfer.host, xfer.req, xfer.acked, xfer.left>>
      /\ xfer' \in {xfer, Stall(xfer)}
  BY <1>1, <1>2, Stalls DEF TypeOK
<1>4. isr' \in Interrupts /\ Tail(isr) \in Interrupts /\ Tail(isr) # <<>>
  BY <1>1, <1>2, InterruptOrder DEF Interrupts
<1>5. TypeOK'
  <2>1. isr' \in Seq({"set_rst", "reset_fifo", "clear_rst", "deselect", "done"})
    <3>1. Tail(isr) \in Seq({"set_rst", "reset_fifo", "clear_rst", "deselect", "done"})
      BY <1>1 DEF TypeOK
    <3>2. <<>> \in Seq({"set_rst", "reset_fifo", "clear_rst", "deselect", "done"})
      OBVIOUS
    <3> QED BY <1>2, <3>1, <3>2
  <2> QED BY <1>1, <1>2, <1>3, <2>1 DEF TypeOK
<1>6. IsrFits'
  <2>1. CASE isr' = <<>>
    BY <1>4, <2>1 DEF IsrFits, Interface2, Interface3, InterfaceSteps
  <2>2. CASE isr' = Tail(isr)
    BY <1>1, <1>4, <2>2, InterruptOrder DEF IsrFits
  <2> QED BY <1>2, <2>1, <2>2
<1>7. StageFits' /\ SetupFits' /\ IdLoaded' /\ NotBuffered' /\ PortsOff'
  BY <1>1 DEF IInv, StageFits, SetupFits, IdLoaded, NotBuffered, PortsOff, Loaded
<1>8. ASSUME NEW h \in Hosts PROVE HostFits(h)'
  <2>1. HostFits(h)
    BY DEF IInv
  <2>2. pc[h] \in Loaders \cup Users => xfer.host = h
    BY <1>1, AtInterrupt
  <2>3. CASE xfer.host = h /\ pc[h] # "get_id"
    <3>1. /\ Unanswered /\ InInterrupt(h) /\ ~Free /\ setup = RequestAt(h)
          /\ pc[h] \in {"configure", "start", "stop", "reset"}
      BY <1>1, <2>3, AtInterrupt, FirmwareAssumption DEF Free, InInterrupt
    <3>2. CASE pc[h] = "configure"
      <4>1. setup.kind = "config"
        BY <3>1, <3>2 DEF RequestAt, Request
      <4>2. isr' # <<>> /\ xfer' = xfer
        BY <1>2, <1>4, <4>1
      <4>3. InStep(h)'
        BY <1>1, <2>1, <2>3, <3>1, <3>2, <4>2
           DEF HostFits, InStep, InInterrupt, Unanswered, Succeeded, RequestAt
      <4> QED BY <1>1, <2>1, <2>3, <3>1, <3>2, <4>2, <4>3
              DEF HostFits, Quiet, Downloading, Using, Runs, Skipped, NotNamed, Answer, Fresh,
                  Loaded,
                  Free, Users
    <3>3. CASE pc[h] # "configure"
      <4>1. setup.kind = "interface"
        BY <3>1, <3>3 DEF RequestAt, Request
      <4>2. xfer'.stalled /\ ~xfer'.acked /\ isr' = <<>> /\ Idle'
        BY <1>1, <1>2, <1>3, <3>1, <4>1, Stalls DEF Answered, Unanswered, InInterrupt, Idle
      <4>3. InStep(h)' /\ ~Succeeded'
        BY <1>1, <1>3, <2>1, <2>3, <3>1, <4>2 DEF HostFits, InStep, Unanswered, Succeeded, RequestAt
      <4> QED BY <1>1, <1>3, <2>1, <2>3, <3>1, <4>2, <4>3
              DEF HostFits, Quiet, Downloading, Using, Runs, Skipped, NotNamed, Answer, Fresh,
                  Loaded,
                  Users
    <3> QED BY <3>2, <3>3
  <2>4. CASE xfer.host # h \/ pc[h] = "get_id"
    <3>1. pc[h] \notin Loaders \cup Users
      BY <2>2, <2>4 DEF Loaders, Users
    <3>2. xfer.host = h => xfer.stalled /\ xfer' = xfer
      BY <1>1, <1>3, <2>4, AtInterrupt DEF Answered, Stall
    <3>3. InStep(h)' /\ Answer(h)'
      BY <1>1, <1>3, <2>1, <2>4, <3>2, FirmwareAssumption
         DEF HostFits, InStep, Unanswered, Succeeded, RequestAt, Answer, Idle
    <3> QED BY <1>1, <2>1, <3>1, <3>3
            DEF HostFits, Quiet, Downloading, Using, NotNamed, Fresh, Loaders, Users
  <2> QED BY <2>3, <2>4
<1> QED BY <1>1, <1>5, <1>6, <1>7, <1>8, DeviceFrame DEF IInv

LEMMA ProduceStep ==
    ASSUME IInv, Produce, UNCHANGED hostVars
    PROVE  IInv'
<1> USE DEF hostVars, ep0Vars, fpgaVars
<1>1. /\ UNCHANGED <<ep0Vars, fpgaVars, pipe_rst, alt, eeprom>> /\ TypeOK
      /\ fifo' = fifo \cup {"new"}
  BY DEF Produce, IInv
<1>2. TypeOK'
  BY <1>1 DEF TypeOK
<1>3. IsrFits' /\ StageFits' /\ SetupFits' /\ IdLoaded' /\ NotBuffered' /\ PortsOff'
  BY <1>1 DEF IInv, IsrFits, StageFits, SetupFits, IdLoaded, NotBuffered, PortsOff, Loaded
<1>4. ASSUME NEW h \in Hosts PROVE HostFits(h)'
  BY <1>1 DEF IInv, HostFits, InStep, Quiet, Downloading, Using, Runs, Skipped, NotNamed, Answer,
              Fresh, RequestAt,
              Unanswered, Succeeded, Pending, InDataStage, InInterrupt, Idle, Free, Begun, Got, Loaded
<1> QED BY <1>1, <1>2, <1>3, <1>4, DeviceFrame DEF IInv

--------------------------------------------------------------------------------
(* The processes *)

(* A process that has not begun, or has ended, is not concerned. *)
LEMMA Dormant ==
    ASSUME NEW g \in Hosts, HostFits(g), pc[g] \in Ended \cup Flashers,
           pc'[g] = pc[g], chunk'[g] = chunk[g], xfer'.host # g
    PROVE  HostFits(g)'
BY DEF HostFits, InStep, Quiet, Downloading, Using, Runs, Skipped, NotNamed, Answer, Fresh, Ended,
       Flashers, Loaders,
       Users

LEMMA OthersEnded ==
    ASSUME IInv, NEW h \in Hosts, Live(h), NEW g \in Hosts, g # h
    PROVE  pc[g] \in Ended
BY DEF IInv, OneAtATime, Live

LEMMA OpenStep ==
    ASSUME IInv, NEW h \in Hosts, NEW where \in {"get_id", "flash"}, Open(h, where)
    PROVE  IInv'
<1> USE DEF deviceVars, ep0Vars, fpgaVars, pipeVars
<1>1. /\ \A g \in Hosts : pc[g] \in Ended
      /\ pc[h] = "off" /\ pc' = [pc EXCEPT ![h] = where] /\ TypeOK
      /\ UNCHANGED <<deviceVars, plan, reload, chunk, reboots>>
  BY DEF Open, Go, IInv
<1>2. pc'[h] = where /\ \A g \in Hosts : g # h => pc'[g] = pc[g]
  BY <1>1 DEF TypeOK
<1>3. TypeOK'
  BY <1>1 DEF TypeOK
<1>4. IsrFits' /\ StageFits' /\ SetupFits' /\ IdLoaded' /\ NotBuffered' /\ PortsOff'
  BY <1>1 DEF IInv, IsrFits, StageFits, SetupFits, IdLoaded, NotBuffered, PortsOff, Loaded
<1>5. OneAtATime' /\ EepromFits'
  BY <1>1, <1>2 DEF IInv, OneAtATime, Live, EepromFits, Flashing, Ended
<1>6. ASSUME NEW g \in Hosts PROVE HostFits(g)'
  <2>1. HostFits(g) /\ xfer.host # g
    BY <1>1 DEF IInv, HostFits, InStep, Ended, Loaders, Users
  <2>2. CASE g = h
    BY <1>1, <1>2, <2>1, <2>2
       DEF HostFits, InStep, Quiet, Downloading, Using, Runs, Skipped, NotNamed, Answer, Fresh,
           Loaders, Users
  <2>3. CASE g # h
    BY <1>1, <1>2, <2>1, <2>3, Dormant
  <2> QED BY <2>2, <2>3
<1> QED BY <1>3, <1>4, <1>5, <1>6 DEF IInv

LEMMA SubmitVendor ==
    ASSUME IInv, NEW h \in Hosts, Submit(h),
           pc[h] \in {"get_id", "download", "set_id", "health", "voltage"}
    PROVE  IInv'
<1> USE DEF hostVars, fpgaVars, pipeVars
<1>1. /\ Free /\ isr = <<>> /\ TypeOK /\ setup' = RequestAt(h)
      /\ xfer' = [NoXfer EXCEPT !.host = h, !.req = RequestAt(h),
                                !.left = IF pc[h] = "download" THEN Packets ELSE 1,
                                !.stalled = pending_setup]
      /\ pending_setup' = TRUE /\ busy' = FALSE
      /\ UNCHANGED <<handler, left, arm, ep0buf, isr, fpgaVars, pipeVars, eeprom, hostVars>>
  BY DEF Submit, Vendor, RequestAt, IInv
<1>2. RequestAt(h) \in Requests
  BY <1>1, SizeNat DEF RequestAt, Request, Requests, Kinds, TypeOK
<1>3. /\ xfer' \in Xfers /\ xfer'.host = h /\ xfer'.req = RequestAt(h) /\ ~xfer'.acked
      /\ xfer'.left = (IF pc[h] = "download" THEN Packets ELSE 1) /\ xfer'.left # 0
      /\ xfer'.stalled = pending_setup
  <2>1. xfer' = [host |-> h, req |-> RequestAt(h),
                 left |-> IF pc[h] = "download" THEN Packets ELSE 1,
                 acked |-> FALSE, stalled |-> pending_setup, value |-> NoId]
    BY <1>1 DEF NoXfer
  <2>2. pending_setup \in BOOLEAN /\ NoId \in Data
    BY <1>1 DEF TypeOK, Data
  <2> QED BY <1>2, <2>1, <2>2, SizeNat DEF Xfers
<1>4. TypeOK'
  <2>1. pending_setup' \in BOOLEAN /\ busy' \in BOOLEAN
    BY <1>1
  <2> QED BY <1>1, <1>2, <1>3, <2>1 DEF TypeOK
<1>5. HostFits(h) /\ (pc[h] # "get_id" => Idle)
  BY <1>1 DEF IInv, HostFits, Quiet, Loaders, Users
<1>6. SetupFits'
  <2>1. pc[h] = "set_id" => bitstream_id \notin Builds
    BY <1>1, <1>5, FirmwareAssumption DEF HostFits, NotNamed, Free
  <2>2. pc[h] = "download" /\ chunk[h] # 0 => bitstream_id \notin Builds
    BY <1>1, <1>5, SizeNat DEF HostFits, NotNamed, Begun, TypeOK
  <2>3. pc[h] = "voltage" => cdone \/ unread
    BY <1>5 DEF HostFits, Using, Runs, Skipped, Users
  <2> QED BY <1>1, <1>5, <2>1, <2>2, <2>3 DEF SetupFits, RequestAt, Request, Idle
<1>7. IsrFits' /\ StageFits' /\ IdLoaded' /\ NotBuffered' /\ PortsOff'
  BY <1>1 DEF IInv, IsrFits, StageFits, IdLoaded, NotBuffered, PortsOff, Loaded,
              Interface2, Interface3, InterfaceSteps
<1>8. OneAtATime' /\ EepromFits'
  BY <1>1 DEF IInv, OneAtATime, Live, EepromFits, Flashing
<1>9. ASSUME NEW g \in Hosts PROVE HostFits(g)'
  <2>1. CASE g = h
    <3>1. InStep(h)'
      <4>1. xfer'.stalled => pc[h] = "get_id"
        BY <1>3, <1>5 DEF Idle
      <4>2. Pending(h)'
        BY <1>1, <1>3, <1>5 DEF Pending, Idle
      <4> QED BY <1>1, <1>3, <4>1, <4>2 DEF InStep, RequestAt, Succeeded, Loaders, Users
    <3>2. ~Succeeded' /\ xfer.host # h
      BY <1>1, <1>3, FirmwareAssumption DEF Succeeded, Free
    <3> QED BY <1>1, <1>3, <1>5, <2>1, <3>1, <3>2, FirmwareAssumption
            DEF HostFits, Quiet, Downloading, Using, Runs, Skipped, NotNamed, Answer, Fresh, Begun,
                Got, Loaded, Free,
                Users
  <2>2. CASE g # h
    <3>1. Live(h)
      BY DEF Live, Ended
    <3> QED BY <1>1, <1>3, <2>2, <3>1, OthersEnded, Dormant DEF IInv
  <2> QED BY <2>1, <2>2
<1> QED BY <1>4, <1>6, <1>7, <1>8, <1>9 DEF IInv

LEMMA SubmitStandard ==
    ASSUME IInv, NEW h \in Hosts, Submit(h), pc[h] \in {"configure", "start", "stop", "reset"}
    PROVE  IInv'
<1> USE DEF hostVars, fpgaVars, pipeVars
<1>1. /\ Free /\ isr = <<>> /\ TypeOK /\ setup' = RequestAt(h)
      /\ xfer' = [NoXfer EXCEPT !.host = h, !.req = RequestAt(h)]
      /\ isr' = (IF pc[h] = "configure" THEN ConfigSteps ELSE InterfaceSteps)
      /\ busy' = FALSE
      /\ UNCHANGED <<pending_setup, handler, left, arm, ep0buf, fpgaVars, pipeVars, eeprom,
                     hostVars>>
  BY DEF Submit, Standard, RequestAt, IInv
<1>2. RequestAt(h) \in Requests /\ (pc[h] # "configure" => RequestAt(h).arg \in {0, 1})
  BY <1>1 DEF RequestAt, Request, Requests, Kinds
<1>3. /\ xfer' \in Xfers /\ xfer'.host = h /\ xfer'.req = RequestAt(h) /\ ~xfer'.acked
      /\ xfer'.left = 0 /\ ~xfer'.stalled
  <2>1. xfer' = [host |-> h, req |-> RequestAt(h), left |-> 0, acked |-> FALSE, stalled |-> FALSE,
                 value |-> NoId]
    BY <1>1 DEF NoXfer
  <2>2. NoId \in Data
    BY DEF Data
  <2> QED BY <1>2, <2>1, <2>2, SizeNat DEF Xfers
<1>4. TypeOK'
  <2>1. /\ busy' \in BOOLEAN
        /\ isr' \in Seq({"set_rst", "reset_fifo", "clear_rst", "deselect", "done"})
    <3> DEFINE S == {"set_rst", "reset_fifo", "clear_rst", "deselect", "done"}
    <3>1. ConfigSteps \in Seq(S)
      BY DEF ConfigSteps
    <3>2. InterfaceSteps \in Seq(S)
      BY DEF InterfaceSteps
    <3> QED BY <1>1, <3>1, <3>2
  <2> QED BY <1>1, <1>2, <1>3, <2>1 DEF TypeOK
<1>5. HostFits(h) /\ Idle
  BY <1>1 DEF IInv, HostFits, Quiet, Loaders, Users
<1>6. IsrFits'
  <2>1. ConfigSteps \notin {Interface2, Interface3, InterfaceSteps}
    BY DEF ConfigSteps, Interface2, Interface3, InterfaceSteps
  <2> QED BY <1>1, <1>2, <2>1 DEF IsrFits, Interrupts
<1>7. StageFits' /\ SetupFits' /\ IdLoaded' /\ NotBuffered' /\ PortsOff'
  BY <1>1, <1>5 DEF IInv, StageFits, SetupFits, IdLoaded, NotBuffered, PortsOff, Loaded, Idle
<1>8. OneAtATime' /\ EepromFits'
  BY <1>1 DEF IInv, OneAtATime, Live, EepromFits, Flashing
<1>9. ASSUME NEW g \in Hosts PROVE HostFits(g)'
  <2>1. CASE g = h
    <3>1. /\ isr' # <<>> /\ isr' \notin {Interface2, Done1, <<>>}
          /\ pc[h] = "start" => isr' \in {Done1, Interface2, Interface3, InterfaceSteps}
      BY <1>1 DEF ConfigSteps, InterfaceSteps, Interface2, Done1
    <3>2. InInterrupt(h)' /\ ~Succeeded'
      BY <1>1, <1>3, <1>5, <3>1 DEF InInterrupt, Idle, Succeeded
    <3>3. InStep(h)'
      BY <1>1, <1>3, <3>2 DEF InStep, RequestAt, Loaders, Users
    <3> QED BY <1>1, <1>3, <1>5, <2>1, <3>1, <3>2, <3>3, FirmwareAssumption
            DEF HostFits, Quiet, Downloading, Using, Runs, Skipped, NotNamed, Answer, Fresh,
                Loaded, Free, Users
  <2>2. CASE g # h
    <3>1. Live(h)
      BY DEF Live, Ended
    <3> QED BY <1>1, <1>3, <2>2, <3>1, OthersEnded, Dormant DEF IInv
  <2> QED BY <2>1, <2>2
<1> QED BY <1>4, <1>6, <1>7, <1>8, <1>9 DEF IInv

LEMMA SubmitStep ==
    ASSUME IInv, NEW h \in Hosts, Submit(h)
    PROVE  IInv'
<1>1. \/ pc[h] \in {"get_id", "download", "set_id", "health", "voltage"}
      \/ pc[h] \in {"configure", "start", "stop", "reset"}
  BY DEF Submit
<1> QED BY <1>1, SubmitVendor, SubmitStandard

LEMMA TransferStep ==
    ASSUME IInv, NEW h \in Hosts, Transfer(h)
    PROVE  IInv'
<1> USE DEF hostVars, fpgaVars, pipeVars
<1>1. /\ xfer.host = h /\ ~Answered /\ ~In(xfer.req.kind) /\ xfer.left > 0 /\ busy /\ TypeOK
      /\ ep0buf' = DataOf(h) /\ busy' = FALSE /\ xfer' = [xfer EXCEPT !.left = @ - 1]
      /\ UNCHANGED <<setup, pending_setup, handler, left, arm, isr, fpgaVars, pipeVars, eeprom,
                     hostVars>>
  BY DEF Transfer, HostData, IInv
<1>2. HostFits(h) /\ Unanswered /\ xfer \in Xfers
  BY <1>1 DEF IInv, Answered, Unanswered, TypeOK
<1>3. InDataStage(h) /\ xfer.req = RequestAt(h) /\ setup = xfer.req /\ left \in 1..Packets
      /\ xfer.left = left /\ ~arm
  BY <1>1, <1>2, SizeNat
     DEF IInv, StageFits, HostFits, InStep, Pending, InDataStage, InInterrupt, In, RequestAt,
         Request, TypeOK
<1>4. /\ xfer' \in Xfers /\ xfer'.left = left - 1
      /\ UNCHANGED <<xfer.host, xfer.req, xfer.acked, xfer.stalled>>
  BY <1>1, <1>2, <1>3, SizeNat DEF Xfers
<1>5. ASSUME pc[h] = "download"
      PROVE  /\ ep0buf' = Packet(plan[h], chunk[h] * Packets + (Packets - left) + 1)
             /\ chunk[h] * Packets + (Packets - left) + 1 \in 1..Size
  <2>1. chunk[h] \in Nat /\ chunk[h] < Chunks /\ xfer.req.arg = chunk[h]
    BY <1>1, <1>2, <1>3, <1>5, SizeNat DEF HostFits, Downloading, TypeOK, RequestAt, Request
  <2>2. chunk[h] * Packets \in Nat /\ chunk[h] * Packets + Packets <= Size
    BY <2>1, NextChunk
  <2> QED BY <1>1, <1>3, <1>5, <2>1, <2>2, SizeNat DEF DataOf
<1>6. ep0buf' \in Data
  BY <1>1, <1>3, <1>5 DEF Data, DataOf, Packet, TypeOK, InDataStage
<1>7. TypeOK'
  <2>1. busy' \in BOOLEAN
    BY <1>1
  <2> QED BY <1>1, <1>4, <1>6, <2>1 DEF TypeOK
<1>8. NotBuffered'
  <2>1. CASE pc[h] = "set_id"
    <3>1. ep0buf' = plan[h] /\ plan[h] \in Builds /\ Loaded(plan[h], Size)
      BY <1>1, <1>2, <2>1 DEF DataOf, TypeOK, HostFits, Downloading
    <3> QED BY <1>1, <3>1, OneBuild DEF NotBuffered, Loaded
  <2>2. CASE pc[h] = "download"
    <3>1. ep0buf' \notin Builds
      BY <1>1, <1>5, <2>2, PacketIsNoBuild DEF TypeOK
    <3> QED BY <3>1 DEF NotBuffered
  <2>3. CASE pc[h] = "voltage"
    BY <1>1, <2>3, NoIdIsNoBuild DEF NotBuffered, DataOf
  <2> QED BY <1>3, <2>1, <2>2, <2>3 DEF InDataStage
<1>9. IsrFits' /\ StageFits' /\ SetupFits' /\ IdLoaded' /\ PortsOff'
  BY <1>1 DEF IInv, IsrFits, StageFits, SetupFits, IdLoaded, PortsOff, Loaded
<1>10. OneAtATime' /\ EepromFits'
  BY <1>1 DEF IInv, OneAtATime, Live, EepromFits, Flashing
<1>11. ASSUME NEW g \in Hosts PROVE HostFits(g)'
  <2>1. CASE g = h
    <3>1. InDataStage(h)' /\ Unanswered' /\ ~Succeeded
      BY <1>1, <1>2, <1>3, <1>4, <1>5, SizeNat DEF InDataStage, Unanswered, Succeeded
    <3>2. InStep(h)'
      BY <1>1, <1>2, <1>3, <1>4, <3>1 DEF HostFits, InStep, RequestAt, Unanswered
    <3> QED BY <1>1, <1>2, <1>4, <2>1, <3>1, <3>2, FirmwareAssumption
            DEF HostFits, Quiet, Downloading, Using, Runs, Skipped, NotNamed, Answer, Fresh, Begun,
                Got, Loaded, Free,
                Unanswered
  <2>2. CASE g # h
    <3>1. Live(h)
      BY <1>3 DEF InDataStage, Live, Ended
    <3> QED BY <1>1, <1>4, <2>2, <3>1, OthersEnded, Dormant DEF IInv
  <2> QED BY <2>1, <2>2
<1> QED BY <1>7, <1>8, <1>9, <1>10, <1>11 DEF IInv

LEMMA ReturnStep ==
    ASSUME IInv, NEW h \in Hosts, Return(h)
    PROVE  IInv'
<1> USE DEF fpgaVars, pipeVars
<1>1. /\ xfer.host = h /\ Answered /\ ~Free /\ xfer' = NoXfer /\ TypeOK
      /\ UNCHANGED <<setup, pending_setup, handler, left, arm, busy, ep0buf, isr, fpgaVars,
                     pipeVars,
                     eeprom, plan, reload, reboots>>
  BY FirmwareAssumption DEF Return, Free, IInv
<1>2. HostFits(h) /\ pc[h] \in {"get_id"} \cup Loaders \cup (Users \ {"run"})
  BY <1>1 DEF IInv, HostFits, InStep
<1>3. NoXfer \in Xfers /\ Free' /\ ~Succeeded'
  BY <1>1, NoXferFits DEF Free, Succeeded, NoXfer
<1>4. /\ pc' = [pc EXCEPT ![h] = IF Succeeded THEN AfterSuccess(h) ELSE "failed"]
      /\ chunk' = [chunk EXCEPT ![h] = IF Succeeded /\ pc[h] = "download" THEN @ + 1 ELSE @]
  <2>1. CASE Succeeded
    BY <2>1 DEF Return, Go
  <2>2. CASE ~Succeeded
    BY <1>1, <2>2 DEF Return, Go, TypeOK
  <2> QED BY <2>1, <2>2
<1>5. /\ pc'[h] = IF Succeeded THEN AfterSuccess(h) ELSE "failed"
      /\ chunk'[h] = IF Succeeded /\ pc[h] = "download" THEN chunk[h] + 1 ELSE chunk[h]
      /\ \A g \in Hosts : g # h => pc'[g] = pc[g] /\ chunk'[g] = chunk[g]
  BY <1>1, <1>4 DEF TypeOK
<1>6. pc[h] = "download" => chunk[h] \in Nat /\ chunk[h] < Chunks
  BY <1>1, <1>2, SizeNat DEF HostFits, Downloading, TypeOK
<1>7. pc'[h] \in {"failed", "closed"} \cup Loaders \cup Users
  BY <1>2, <1>5 DEF AfterSuccess, AfterGetId, Loaders, Users
<1>8. TypeOK'
  <2>1. pc' \in [Hosts -> Ended \cup Loaders \cup Users \cup Flashers \cup {"get_id"}]
    BY <1>1, <1>4, <1>5, <1>7 DEF TypeOK, Ended, Loaders, Users, Flashers
  <2>2. chunk' \in [Hosts -> 0..Chunks]
    BY <1>1, <1>4, <1>5, <1>6, SizeNat DEF TypeOK
  <2> QED BY <1>1, <1>3, <2>1, <2>2 DEF TypeOK, Ended, Loaders, Users, Flashers
<1>9. IsrFits' /\ StageFits' /\ SetupFits' /\ IdLoaded' /\ NotBuffered' /\ PortsOff'
  BY <1>1 DEF IInv, IsrFits, StageFits, SetupFits, IdLoaded, NotBuffered, PortsOff, Loaded
<1>10. \A g \in Hosts : g # h => pc[g] \in Ended
  BY <1>2, OthersEnded DEF Live, Ended, Loaders, Users
<1>11. OneAtATime' /\ EepromFits'
  <2>1. ~Flashing(h) /\ ~Flashing(h)'
    BY <1>2, <1>7 DEF Flashing, Loaders, Users
  <2> QED BY <1>1, <1>2, <1>5, <1>7, <1>10, <2>1
          DEF IInv, OneAtATime, Live, EepromFits, Flashing, Ended, Loaders, Users
<1>12. ASSUME Succeeded PROVE HostFits(h)'
  <2>1. Idle /\ Idle' /\ handler.kind # "cfg" /\ xfer'.host # h
    BY <1>1, <1>2, <1>3, <1>12, NoRequestKind, FirmwareAssumption DEF HostFits, InStep, Idle, Free
  <2>2. InStep(h)' /\ Quiet(h)' /\ Answer(h)'
    BY <2>1 DEF InStep, Quiet, Answer
  <2>3. CASE pc[h] = "get_id" /\ Keeps(h)
    <3>1. plan[h] \in Builds /\ bitstream_id = plan[h] /\ pc'[h] = "configure"
      BY <1>1, <1>2, <1>5, <1>12, <2>3
         DEF TypeOK, HostFits, Answer, Keeps, AfterSuccess, AfterGetId
    <3>2. Runs(h) \/ (unread /\ ~cdone /\ ~reload[h])
      BY <2>3, <3>1 DEF IInv, IdLoaded, Runs, Keeps
    <3> QED BY <1>1, <2>2, <3>1, <3>2 DEF HostFits, Downloading, Using, Runs, Skipped, NotNamed,
                                          Fresh, Loaded
  <2>4. CASE pc[h] = "get_id" /\ ~Keeps(h)
    <3>1. pc'[h] = "download" /\ chunk'[h] = 0 /\ ~Begun(h)'
      BY <1>1, <1>2, <1>3, <1>5, <1>12, <2>1, <2>4
         DEF HostFits, Downloading, AfterSuccess, AfterGetId, Begun
    <3> QED BY <2>2, <3>1, SizeNat DEF HostFits, Downloading, Using, Runs, Skipped, NotNamed,
                                       Fresh, Users
  <2>5. CASE pc[h] = "download"
    <3>1. /\ chunk'[h] = chunk[h] + 1 /\ chunk[h] \in Nat /\ chunk[h] < Chunks
          /\ chunk'[h] * Packets = chunk[h] * Packets + Packets /\ chunk[h] * Packets \in Nat
          /\ chunk[h] + 1 = Chunks => chunk[h] * Packets + Packets = Size
          /\ pc'[h] = IF chunk[h] + 1 = Chunks THEN "set_id" ELSE "download"
      BY <1>5, <1>6, <1>12, <2>5, NextChunk DEF AfterSuccess
    <3>2. Holds(sram, plan[h], chunk[h] * Packets + Packets) /\ bitstream_id \notin Builds
      BY <1>1, <1>2, <1>12, <2>5 DEF HostFits, Downloading, NotNamed, Begun, Got, Loaded
    <3>3. Got(h)' = chunk[h] * Packets + Packets
      BY <1>1, <1>3, <2>1, <3>1, SizeNat DEF Got
    <3>4. Downloading(h)'
      <4>1. CASE chunk[h] + 1 = Chunks
        BY <1>1, <2>1, <3>1, <3>2, <4>1 DEF Downloading, Loaded
      <4>2. CASE chunk[h] + 1 # Chunks
        BY <1>1, <3>1, <3>2, <3>3, <4>2, SizeNat DEF Downloading, Loaded
      <4> QED BY <4>1, <4>2
    <3> QED BY <1>1, <2>2, <3>1, <3>2, <3>4 DEF HostFits, Using, Runs, Skipped, NotNamed, Fresh,
                                                Users
  <2>6. CASE pc[h] = "set_id"
    <3>1. pc'[h] = "health" /\ cdone /\ Loaded(plan[h], Size)
      BY <1>1, <1>2, <1>5, <1>12, <2>6 DEF AfterSuccess, HostFits, Downloading
    <3> QED BY <1>1, <2>2, <3>1 DEF HostFits, Downloading, Using, Runs, Skipped, NotNamed, Fresh,
                                    Loaded
  <2>7. CASE pc[h] \in Users
    <3>1. Runs(h) \/ Skipped(h)
      BY <1>2, <2>7 DEF HostFits, Using
    <3>2. pc'[h] \in (Users \ {"health"}) \cup {"closed"} /\ (pc'[h] = "run" => pc[h] = "start")
      BY <1>2, <1>5, <1>12, <2>7 DEF AfterSuccess, Users, Loaders
    <3>3. pc[h] = "start" => "old" \notin fifo
      BY <1>1, <1>2, <1>12, <2>1 DEF HostFits, Fresh, Idle, InStep, Succeeded
    <3> QED BY <1>1, <2>1, <2>2, <3>1, <3>2, <3>3
            DEF HostFits, Downloading, Using, Runs, Skipped, NotNamed, Fresh, Users, Loaded
  <2> QED BY <1>2, <2>3, <2>4, <2>5, <2>6, <2>7 DEF Loaders
<1>13. ASSUME ~Succeeded PROVE HostFits(h)'
  <2>1. pc'[h] = "failed" /\ xfer'.host # h
    BY <1>1, <1>3, <1>5, <1>13, FirmwareAssumption DEF Free
  <2> QED BY <2>1 DEF HostFits, InStep, Quiet, Downloading, Using, Runs, Skipped, NotNamed, Answer,
                      Fresh, Loaders,
                      Users
<1>14. ASSUME NEW g \in Hosts PROVE HostFits(g)'
  <2>1. CASE g = h
    BY <1>12, <1>13, <2>1
  <2>2. CASE g # h
    <3>1. xfer'.host # g
      BY <1>3, FirmwareAssumption DEF Free
    <3> QED BY <1>5, <1>10, <2>2, <3>1, Dormant DEF IInv
  <2> QED BY <2>1, <2>2
<1> QED BY <1>8, <1>9, <1>11, <1>14 DEF IInv

LEMMA ReceiveStep ==
    ASSUME IInv, NEW h \in Hosts, Receive(h)
    PROVE  IInv'
<1> USE DEF hostVars, ep0Vars, fpgaVars
<1>1. fifo' = {} /\ UNCHANGED <<ep0Vars, fpgaVars, pipe_rst, alt, eeprom, hostVars>> /\ TypeOK
  BY DEF Receive, IInv
<1>2. TypeOK'
  BY <1>1 DEF TypeOK
<1>3. IsrFits' /\ StageFits' /\ SetupFits' /\ IdLoaded' /\ NotBuffered' /\ PortsOff'
  BY <1>1 DEF IInv, IsrFits, StageFits, SetupFits, IdLoaded, NotBuffered, PortsOff, Loaded
<1>4. ASSUME NEW g \in Hosts PROVE HostFits(g)'
  BY <1>1 DEF IInv, HostFits, InStep, Quiet, Downloading, Using, Runs, Skipped, NotNamed, Answer,
              Fresh, RequestAt,
              Unanswered, Succeeded, Pending, InDataStage, InInterrupt, Idle, Free, Begun, Got, Loaded
<1> QED BY <1>1, <1>2, <1>3, <1>4, DeviceFrame DEF IInv

LEMMA LeaveStep ==
    ASSUME IInv, NEW h \in Hosts, Leave(h)
    PROVE  IInv'
<1> USE DEF deviceVars, ep0Vars, fpgaVars, pipeVars
<1>1. /\ pc[h] = "run" /\ TypeOK /\ UNCHANGED <<deviceVars, plan, reload, chunk, reboots>>
  BY DEF Leave, IInv
<1>2. PICK where \in {"stop", "reset"} : pc' = [pc EXCEPT ![h] = where]
  BY DEF Leave, Go
<1>3. pc'[h] = where /\ \A g \in Hosts : g # h => pc'[g] = pc[g]
  BY <1>1, <1>2 DEF TypeOK
<1>4. TypeOK'
  BY <1>1, <1>2 DEF TypeOK
<1>5. IsrFits' /\ StageFits' /\ SetupFits' /\ IdLoaded' /\ NotBuffered' /\ PortsOff'
  BY <1>1 DEF IInv, IsrFits, StageFits, SetupFits, IdLoaded, NotBuffered, PortsOff, Loaded
<1>6. \A g \in Hosts : g # h => pc[g] \in Ended
  BY <1>1, OthersEnded DEF Live, Ended
<1>7. OneAtATime' /\ EepromFits'
  BY <1>1, <1>3, <1>6 DEF IInv, OneAtATime, Live, EepromFits, Flashing, Ended
<1>8. ASSUME NEW g \in Hosts PROVE HostFits(g)'
  <2>1. HostFits(g)
    BY DEF IInv
  <2>2. CASE g = h
    <3>1. xfer.host # h
      BY <1>1, <2>1, <2>2 DEF HostFits, InStep, Loaders, Users
    <3> QED BY <1>1, <1>3, <2>1, <2>2, <3>1
            DEF HostFits, InStep, Quiet, Downloading, Using, Runs, Skipped, NotNamed, Answer,
                Fresh, Users, Loaders,
                Idle, Free, Loaded
  <2>3. CASE g # h
    <3>1. xfer.host # g
      BY <1>6, <2>1, <2>3 DEF HostFits, InStep, Ended, Loaders, Users
    <3> QED BY <1>1, <1>3, <1>6, <2>1, <2>3, <3>1, Dormant
  <2> QED BY <2>2, <2>3
<1> QED BY <1>4, <1>5, <1>7, <1>8 DEF IInv

LEMMA FlashLemma ==
    ASSUME IInv, NEW h \in Hosts, Flash(h)
    PROVE  IInv'
<1> USE DEF ep0Vars, fpgaVars, pipeVars
<1>1. /\ pc[h] \in Flashers /\ TypeOK
      /\ UNCHANGED <<ep0Vars, fpgaVars, pipeVars, plan, reload, chunk, reboots>>
  BY DEF Flash, FlashStep, Flashers, IInv
<1>2. PICK to \in {"flash_2", "flash_config", "closed"} : pc' = [pc EXCEPT ![h] = to]
  BY DEF Flash, FlashStep, Go
<1>3. pc'[h] = to /\ \A g \in Hosts : g # h => pc'[g] = pc[g]
  BY <1>1, <1>2 DEF TypeOK
<1>4. \A g \in Hosts : g # h => pc[g] \in Ended
  BY <1>1, OthersEnded DEF Live, Ended, Flashers
<1>5. PICK i, a, b \in Builds \cup {NoId} : eeprom = [id |-> i, halves |-> <<a, b>>]
  BY <1>1 DEF TypeOK
<1>6. plan[h] \in Builds
  BY <1>1 DEF TypeOK
<1>7. \/ /\ pc[h] = "flash" /\ pc'[h] = "flash_2"
          /\ eeprom' = [id |-> i, halves |-> <<plan[h], b>>]
       \/ /\ pc[h] = "flash_2" /\ pc'[h] = "flash_config"
          /\ eeprom' = [id |-> i, halves |-> <<a, plan[h]>>]
       \/ /\ pc[h] = "flash_config" /\ pc'[h] = "closed"
          /\ eeprom' = [id |-> plan[h], halves |-> <<a, b>>]
  <2>1. /\ [eeprom EXCEPT !.halves[1] = plan[h]] = [id |-> i, halves |-> <<plan[h], b>>]
        /\ [eeprom EXCEPT !.halves[2] = plan[h]] = [id |-> i, halves |-> <<a, plan[h]>>]
        /\ [eeprom EXCEPT !.id = plan[h]] = [id |-> plan[h], halves |-> <<a, b>>]
    BY <1>5
  <2> QED BY <1>1, <2>1 DEF Flash, FlashStep, Go, TypeOK
<1>8. TypeOK'
  <2>1. eeprom' \in [id : Builds \cup {NoId}, halves : (Builds \cup {NoId}) \X (Builds \cup {NoId})]
    BY <1>6, <1>7
  <2> QED BY <1>1, <1>2, <2>1 DEF TypeOK, Ended
<1>9. IsrFits' /\ StageFits' /\ SetupFits' /\ IdLoaded' /\ NotBuffered' /\ PortsOff'
  BY <1>1 DEF IInv, IsrFits, StageFits, SetupFits, IdLoaded, NotBuffered, PortsOff, Loaded
<1>10. EepromFits'
  <2>1. eeprom.id = i /\ eeprom.halves = <<a, b>>
    BY <1>5
  <2>2. /\ pc[h] = "flash_2" => a = plan[h]
        /\ pc[h] = "flash_config" => a = plan[h] /\ b = plan[h]
    BY <2>1 DEF IInv, EepromFits
  <2>3. \A g \in Hosts : g # h => pc'[g] \in Ended
    BY <1>3, <1>4
  <2>4. \/ pc'[h] = "flash_2" /\ eeprom'.halves[1] = plan[h]
        \/ pc'[h] = "flash_config" /\ eeprom'.halves = <<plan[h], plan[h]>>
        \/ pc'[h] = "closed" /\ eeprom'.id = plan[h] /\ eeprom'.halves = <<plan[h], plan[h]>>
    BY <1>7, <2>2
  <2> QED BY <1>1, <2>3, <2>4 DEF EepromFits, Flashing, Ended
<1>11. OneAtATime'
  BY <1>1, <1>3, <1>4 DEF OneAtATime, Live, Ended
<1>12. ASSUME NEW g \in Hosts PROVE HostFits(g)'
  <2>1. HostFits(g) /\ xfer.host # g
    BY <1>1, <1>4 DEF IInv, HostFits, InStep, Flashers, Ended, Loaders, Users
  <2>2. CASE g = h
    BY <1>1, <1>3, <2>1, <2>2
       DEF HostFits, InStep, Quiet, Downloading, Using, Runs, Skipped, NotNamed, Answer, Fresh,
           Loaders, Users
  <2>3. CASE g # h
    BY <1>1, <1>3, <1>4, <2>1, <2>3, Dormant
  <2> QED BY <2>2, <2>3
<1> QED BY <1>8, <1>9, <1>10, <1>11, <1>12 DEF IInv

LEMMA KillStep ==
    ASSUME ~FlashInterrupted, IInv, NEW h \in Hosts, Kill(h)
    PROVE  IInv'
<1> USE DEF fpgaVars, pipeVars
<1>1. /\ pc[h] \notin Ended /\ ~Flashing(h) /\ TypeOK /\ pc' = [pc EXCEPT ![h] = "killed"]
      /\ xfer' = IF xfer.host = h THEN NoXfer ELSE xfer
      /\ UNCHANGED <<setup, pending_setup, handler, left, arm, busy, ep0buf, isr, fpgaVars,
                     pipeVars,
                     eeprom, plan, reload, chunk, reboots>>
  BY DEF Kill, MayEnd, Go, IInv
<1>2. pc'[h] = "killed" /\ \A g \in Hosts : g # h => pc'[g] = pc[g]
  BY <1>1 DEF TypeOK
<1>3. \A g \in Hosts : g # h => pc[g] \in Ended
  BY <1>1, OthersEnded DEF Live
<1>4. \A g \in Hosts : xfer'.host # g
  <2>1. \A g \in Hosts : g # h => xfer.host # g
    BY <1>3 DEF IInv, HostFits, InStep, Ended, Loaders, Users
  <2> QED BY <1>1, <2>1, NoXferFits, FirmwareAssumption
<1>5. TypeOK'
  BY <1>1, NoXferFits DEF TypeOK, Ended
<1>6. IsrFits' /\ StageFits' /\ SetupFits' /\ IdLoaded' /\ NotBuffered' /\ PortsOff'
  BY <1>1 DEF IInv, IsrFits, StageFits, SetupFits, IdLoaded, NotBuffered, PortsOff, Loaded
<1>7. OneAtATime' /\ EepromFits'
  BY <1>1, <1>2, <1>3 DEF IInv, OneAtATime, Live, EepromFits, Flashing, Ended
<1>8. ASSUME NEW g \in Hosts PROVE HostFits(g)'
  <2>1. HostFits(g)
    BY DEF IInv
  <2>2. pc'[g] \in Ended /\ (pc'[g] = "off" => pc[g] = "off")
    BY <1>1, <1>2, <1>3 DEF Ended
  <2> QED BY <1>1, <1>4, <2>1, <2>2
          DEF HostFits, InStep, Quiet, Downloading, Using, Runs, Skipped, NotNamed, Answer, Fresh,
              Ended, Loaders, Users
<1> QED BY <1>5, <1>6, <1>7, <1>8 DEF IInv

(* What main() loads from the EEPROM is the bitstream it names. *)
LEMMA PowerCycleStep ==
    ASSUME ~FlashInterrupted, IInv, PowerCycle
    PROVE  IInv'
<1>1. /\ \A h \in Hosts : ~Flashing(h)
      /\ pc' = [h \in Hosts |-> IF pc[h] \in Ended THEN pc[h] ELSE "failed"]
      /\ reboots' = reboots + 1 /\ TypeOK
      /\ UNCHANGED <<plan, reload, chunk, eeprom>>
      /\ setup' = NoRequest /\ pending_setup' = FALSE /\ handler' = NoRequest /\ left' = 0
      /\ arm' = FALSE /\ busy' = FALSE /\ ep0buf' = NoId /\ isr' = <<>> /\ xfer' = NoXfer
      /\ bitstream_idx' = 0 /\ bitstream_id' = eeprom.id
      /\ vio' = FALSE /\ pipe_rst' = TRUE /\ fifo' = {} /\ alt' = 0
  BY DEF PowerCycle, Boot, MayEnd, IInv
<1>2. /\ eeprom.id \in Builds \cup {NoId}
      /\ eeprom.id # NoId => eeprom.halves = <<eeprom.id, eeprom.id>>
  BY <1>1 DEF IInv, EepromFits, TypeOK
<1>3. /\ unread' \in BOOLEAN /\ (unread' => eeprom.id # NoId)
      /\ IF eeprom.id # NoId /\ ~unread' THEN sram' = Complete(eeprom.id) /\ cdone' = TRUE
                                          ELSE sram' = <<>> /\ cdone' = FALSE
  <2>1. unread' \in IF eeprom.id # NoId /\ "eeprom" \in BusFaults THEN BOOLEAN ELSE {FALSE}
    BY DEF PowerCycle, Boot
  <2>2. unread' \in BOOLEAN /\ (unread' => eeprom.id # NoId)
    BY <2>1
  <2>3. eeprom.id # NoId => eeprom.halves[1] = eeprom.id /\ eeprom.halves[2] = eeprom.id
    BY <1>2
  <2> QED BY <2>2, <2>3 DEF PowerCycle, Boot
<1>4. sram' \in Seq(Data)
  <2>1. eeprom.id # NoId => Complete(eeprom.id) \in Seq(Data)
    BY <1>2, SizeNat DEF Complete, Packet, Data
  <2>2. <<>> \in Seq(Data)
    OBVIOUS
  <2> QED BY <1>3, <2>1, <2>2
<1>5. TypeOK'
  <2>1. /\ pending_setup' \in BOOLEAN /\ arm' \in BOOLEAN /\ busy' \in BOOLEAN
        /\ cdone' \in BOOLEAN /\ unread' \in BOOLEAN /\ vio' \in BOOLEAN /\ pipe_rst' \in BOOLEAN
    BY <1>1, <1>3
  <2>2. isr' \in Seq({"set_rst", "reset_fifo", "clear_rst", "deselect", "done"})
    BY <1>1
  <2>3. /\ pc' \in [Hosts -> Ended]
        /\ left' \in 0..Packets /\ ep0buf' \in Data /\ bitstream_id' \in Data
    BY <1>1, <1>2, SizeNat DEF Ended, Data
  <2> QED BY <1>1, <1>4, <2>1, <2>2, <2>3, NoXferFits, NoRequestKind DEF TypeOK, Ended
<1>6. IdLoaded' /\ NotBuffered' /\ PortsOff'
  <2>1. eeprom.id # NoId /\ ~unread' => Holds(sram', eeprom.id, Size)
    BY <1>2, <1>3, <1>4, CompleteHolds
  <2> QED BY <1>1, <1>2, <1>3, <2>1, EmptyIsIncomplete, NoIdIsNoBuild
          DEF IdLoaded, NotBuffered, PortsOff, Loaded
<1>7. IsrFits' /\ StageFits' /\ SetupFits'
  BY <1>1, NoRequestKind
     DEF IsrFits, StageFits, SetupFits, Interrupts, Interface2, Interface3, InterfaceSteps
<1>8. OneAtATime' /\ EepromFits'
  BY <1>1, <1>2 DEF OneAtATime, Live, EepromFits, Flashing, Ended
<1>9. ASSUME NEW g \in Hosts PROVE HostFits(g)'
  <2>1. /\ pc'[g] \in Ended /\ (pc'[g] = "off" => pc[g] = "off") /\ xfer'.host # g
        /\ HostFits(g) /\ chunk'[g] = chunk[g]
    BY <1>1, NoXferFits, FirmwareAssumption DEF Ended, IInv
  <2> QED BY <2>1 DEF HostFits, InStep, Quiet, Downloading, Using, Runs, Skipped, NotNamed, Answer,
                      Fresh, Ended,
                      Loaders, Users
<1> QED BY <1>5, <1>6, <1>7, <1>8, <1>9 DEF IInv

--------------------------------------------------------------------------------
(* The invariant *)

LEMMA Initial == Init => IInv
<1> SUFFICES ASSUME Init PROVE IInv
  OBVIOUS
<1> USE DEF Init, FirmwareInit
<1>1. TypeOK
  <2>1. /\ isr \in Seq({"set_rst", "reset_fifo", "clear_rst", "deselect", "done"})
        /\ sram \in Seq(Data)
    OBVIOUS
  <2>2. eeprom \in [id : Builds \cup {NoId}, halves : (Builds \cup {NoId}) \X (Builds \cup {NoId})]
    BY DEF Erased
  <2>3. ep0buf \in Data /\ bitstream_id \in Data
    BY DEF Data
  <2>4. /\ pending_setup \in BOOLEAN /\ arm \in BOOLEAN /\ busy \in BOOLEAN
        /\ cdone \in BOOLEAN /\ unread \in BOOLEAN /\ vio \in BOOLEAN /\ pipe_rst \in BOOLEAN
    OBVIOUS
  <2>5. pc \in [Hosts -> Ended] /\ chunk \in [Hosts -> 0..Chunks] /\ left \in 0..Packets
    BY SizeNat DEF Ended
  <2> QED BY <2>1, <2>2, <2>3, <2>4, <2>5, NoXferFits, NoRequestKind DEF TypeOK, Ended
<1>2. IdLoaded /\ NotBuffered /\ PortsOff
  BY NoIdIsNoBuild, EmptyIsIncomplete DEF IdLoaded, NotBuffered, PortsOff, Loaded
<1>3. IsrFits /\ StageFits /\ SetupFits
  BY NoRequestKind DEF IsrFits, StageFits, SetupFits, Interrupts, Interface2, Interface3,
                       InterfaceSteps
<1>4. OneAtATime /\ EepromFits
  BY DEF OneAtATime, Live, EepromFits, Flashing, Ended, Erased
<1>5. ASSUME NEW g \in Hosts PROVE HostFits(g)
  <2>1. pc[g] = "off" /\ chunk[g] = 0 /\ xfer.host # g
    BY NoXferFits, FirmwareAssumption
  <2> QED BY <2>1 DEF HostFits, InStep, Quiet, Downloading, Using, Runs, Skipped, NotNamed, Answer,
                      Fresh, Loaders,
                      Users
<1> QED BY <1>1, <1>2, <1>3, <1>4, <1>5 DEF IInv

LEMMA Step == ~FlashInterrupted /\ IInv /\ [Next]_vars => IInv'
<1> SUFFICES ASSUME ~FlashInterrupted, IInv, [Next]_vars PROVE IInv'
  OBVIOUS
<1>1. ASSUME NEW h \in Hosts, HostStep(h) PROVE IInv'
  <2>1. CASE Open(h, "get_id") \/ Open(h, "flash")
    BY <2>1, OpenStep
  <2>2. CASE Submit(h)
    BY <2>2, SubmitStep
  <2>3. CASE Transfer(h)
    BY <2>3, TransferStep
  <2>4. CASE Return(h)
    BY <2>4, ReturnStep
  <2>5. CASE Receive(h)
    BY <2>5, ReceiveStep
  <2>6. CASE Leave(h)
    BY <2>6, LeaveStep
  <2>7. CASE Flash(h)
    BY <2>7, FlashLemma
  <2>8. CASE Kill(h)
    BY <2>8, KillStep
  <2> QED BY <1>1, <2>1, <2>2, <2>3, <2>4, <2>5, <2>6, <2>7, <2>8 DEF HostStep
<1>2. ASSUME MainLoop, UNCHANGED hostVars PROVE IInv'
  BY <1>2, GetBitstreamIdStep, ReadRegisterStep, DownloadChunkStep, SetBitstreamIdStep, SetVoltageStep,
     RefuseStep, ArmStep, ChunkPacketStep, BitstreamIdReceivedStep, VoltageReceivedStep
     DEF MainLoop
<1>3. CASE DeviceStep
  BY <1>2, <1>3, InterruptStep, PipeRstFailsStep, ProduceStep DEF DeviceStep
<1>4. CASE PowerCycle
  BY <1>4, PowerCycleStep
<1>5. CASE UNCHANGED vars
  <2> USE <1>5 DEF vars, deviceVars, ep0Vars, fpgaVars, pipeVars, hostVars
  <2>1. ASSUME NEW g \in Hosts PROVE HostFits(g)'
    BY DEF IInv, HostFits, InStep, Quiet, Downloading, Using, Runs, Skipped, NotNamed, Answer,
           Fresh, RequestAt,
           Unanswered, Succeeded, Pending, InDataStage, InInterrupt, Idle, Free, Begun, Got, Loaded
  <2> QED BY <2>1 DEF IInv, TypeOK, IsrFits, StageFits, SetupFits, IdLoaded, NotBuffered, PortsOff,
                      OneAtATime, Live, EepromFits, Flashing, Loaded
<1> QED BY <1>1, <1>3, <1>4, <1>5 DEF Next

(* Under the assumption that flashing is never cut short, IInv always holds. *)
THEOREM Inductive == ~FlashInterrupted /\ Spec => []IInv
<1>1. ~FlashInterrupted /\ IInv /\ [Next]_vars => IInv'
  BY Step
<1>2. Init => IInv
  BY Initial
<1>3. ~FlashInterrupted => [](~FlashInterrupted)
  OBVIOUS
<1> QED BY <1>1, <1>2, <1>3, PTL DEF Spec

(* Every variable keeps its type: a data stage never counts below zero, a  *)
(* standard request never goes on past its last step.                      *)
THEOREM TypeCorrect == ~FlashInterrupted /\ Spec => []TypeOK
<1>1. IInv => TypeOK
  BY DEF IInv
<1> QED BY <1>1, Inductive, PTL

(* The identifier that the device reports is that of a bitstream which the *)
(* FPGA runs, whichever processes were killed while they downloaded one:   *)
(* or that of one that could not be read at power-up, and it runs none.    *)
THEOREM ReportsWhatRuns == ~FlashInterrupted /\ Spec => []IdRunning
<1>1. IInv => IdRunning
  BY CompleteHolds DEF IInv, IdLoaded, IdRunning, Loaded, TypeOK
<1> QED BY <1>1, Inductive, PTL

(* A process that goes on from the download has its own build in the FPGA, *)
(* or none, if it skipped that of a build that could not be read.          *)
THEOREM RunsOwnBuild == ~FlashInterrupted /\ Spec => []OwnBuild
<1>1. IInv => OwnBuild
  BY CompleteHolds DEF IInv, HostFits, Using, Runs, Skipped, OwnBuild, Users, Loaded, TypeOK
<1> QED BY <1>1, Inductive, PTL

(* The chunks that the device has confirmed are in the FPGA, in order.     *)
THEOREM LoadsEachChunk == ~FlashInterrupted /\ Spec => []ChunksLoaded
<1>1. IInv => ChunksLoaded
  <2> SUFFICES ASSUME IInv, NEW h \in Hosts, pc[h] \in {"download", "set_id"}, Free, chunk[h] > 0
               PROVE  sram = SubSeq(Complete(plan[h]), 1, chunk[h] * Packets)
    BY DEF ChunksLoaded
  <2>1. PICK n \in 0..Size : n = chunk[h] * Packets /\ Holds(sram, plan[h], n)
    <3>1. HostFits(h) /\ chunk[h] \in Nat /\ xfer.host # h
      BY SizeNat, FirmwareAssumption DEF IInv, TypeOK, Free
    <3>2. CASE pc[h] = "set_id"
      <4>1. chunk[h] = Chunks /\ Holds(sram, plan[h], Size)
        BY <3>1, <3>2 DEF HostFits, Downloading, Loaded
      <4> QED BY <4>1, SizeNat DEF Size
    <3>3. CASE pc[h] = "download"
      <4>1. chunk[h] < Chunks /\ Holds(sram, plan[h], Got(h)) /\ handler.kind # "cfg"
        BY <3>1, <3>3, NoRequestKind DEF HostFits, Downloading, Begun, Quiet, Idle, Loaders, Loaded
      <4>2. chunk[h] * Packets \in 0..Size
        BY <3>1, <4>1, NextChunk, SizeNat
      <4>3. Got(h) = chunk[h] * Packets
        BY <3>1, <4>1, <4>2 DEF Got
      <4> QED BY <4>1, <4>2, <4>3
    <3> QED BY <3>2, <3>3
  <2>2. sram \in Seq(Data)
    BY DEF IInv, TypeOK
  <2>3. sram = [i \in 1..n |-> Packet(plan[h], i)]
    BY <2>1, <2>2 DEF Holds
  <2>4. SubSeq(Complete(plan[h]), 1, n) = [i \in 1..n |-> Packet(plan[h], i)]
    BY <2>1, SizeNat DEF Complete
  <2> QED BY <2>1, <2>3, <2>4
<1> QED BY <1>1, Inductive, PTL

(* The ports of revision C are unpowered while the FPGA has no design,     *)
(* unless its bitstream could not be read at power-up.                     *)
THEOREM KeepsPortsOff == ~FlashInterrupted /\ Spec => []PortsOff
<1>1. IInv => PortsOff
  BY DEF IInv
<1> QED BY <1>1, Inductive, PTL

(* An application never reads what was produced before it opened its pipe. *)
THEOREM ReadsFreshData == ~FlashInterrupted /\ Spec => []FreshData
<1>1. IInv => FreshData
  BY DEF IInv, HostFits, Fresh, FreshData
<1> QED BY <1>1, Inductive, PTL

(* The firmware and a process do not wait for each other, once the device  *)
(* has answered the first request of the process.                          *)
THEOREM NeverHangs == ~FlashInterrupted /\ Spec => []NoHang
<1>1. IInv => NoHang
  <2> SUFFICES ASSUME IInv, NEW h \in Hosts, xfer.host = h, ~Answered, handler # NoRequest, busy,
                      pc[h] # "get_id"
               PROVE  xfer.left > 0 /\ ~In(xfer.req.kind)
    BY DEF NoHang
  <2>1. InStep(h) /\ Unanswered
    BY DEF IInv, HostFits, Answered, Unanswered
  <2>2. InDataStage(h) /\ xfer.req = RequestAt(h)
    BY <2>1 DEF InStep, Pending, InInterrupt
  <2> QED BY <2>2 DEF InDataStage, RequestAt, Request, In
<1> QED BY <1>1, Inductive, PTL

================================================================================
