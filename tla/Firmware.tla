-------------------------------- MODULE Firmware -------------------------------
(***************************************************************************)
(* The part of the FX2 firmware (firmware/main.c, fpga.c, fifo.c) through  *)
(* which a host configures the FPGA and its pipes: control requests, the   *)
(* bitstream identifier, the pipe reset register, and what is left of it   *)
(* in the EEPROMs when the device is powered up again.                     *)
(*                                                                         *)
(* A bitstream is `Size` EP0 packets, sent as Chunks control transfers of  *)
(* Packets packets; packet n of build b is <<b, n>>.  There is one pipe, an *)
(* IN pipe.  Control transfers of all processes take turns on endpoint 0.  *)
(*                                                                         *)
(* Of the FX2 and its kernel driver, which are not in the repository, the  *)
(* model uses: a SETUP packet overwrites SETUPDAT, clears BUSY, ends a     *)
(* stall and runs the interrupt handler; ACK and STALL apply to whatever   *)
(* transfer is then on endpoint 0; a transfer whose process is killed ends *)
(* where it is.                                                            *)
(***************************************************************************)
EXTENDS Naturals, Sequences, FiniteSets

CONSTANTS Hosts,       \* host processes
          NoHost,
          Builds,      \* bitstream identifiers, each with its bitstream
          NoId,        \* the identifier that is all zeros
          Chunks, Packets,
          RevC,        \* the device is of revision C, not A or B
          BusFaults    \* accesses to the I2C bus that may fail

ASSUME FirmwareAssumption ==
    /\ NoHost \notin Hosts
    /\ NoId \notin Builds
    /\ Builds \cap (Builds \X Nat) = {} /\ NoId \notin Builds \X Nat
    /\ Chunks \in Nat \ {0} /\ Packets \in Nat \ {0}
    /\ RevC \in BOOLEAN /\ BusFaults \subseteq {"eeprom", "pipe_rst"}

VARIABLES
    setup,         \* SETUPDAT
    pending_setup,
    handler,       \* the request whose data stage the main loop waits in
    left,          \* packets of it that are still to come
    arm,           \* the main loop is about to arm EP0 for a packet of it
    busy,          \* EP0 is armed for an OUT packet (BUSY)
    ep0buf,        \* first packet's worth of EP0BUF
    isr,           \* what is left of a standard request, done in the interrupt
    xfer,          \* the control transfer on endpoint 0
    bitstream_idx,
    bitstream_id,  \* glasgow_config.bitstream_id
    sram,          \* the packets shifted into the FPGA since its reset
    cdone,         \* the FPGA is configured
    unread,        \* history: at power-up the bitstream could not be read, and
                   \* no other has been sent since
    vio,           \* a port is powered
    pipe_rst,      \* the pipe reset register in the FPGA
    fifo,          \* what the FX2 FIFO of the pipe holds, see Produce
    alt,           \* alternate setting of the pipe's interface
    eeprom         \* bitstream identifier and the two halves of a bitstream

ep0Vars  == <<setup, pending_setup, handler, left, arm, busy, ep0buf, isr, xfer>>
fpgaVars == <<bitstream_idx, bitstream_id, sram, cdone, unread, vio>>
pipeVars == <<pipe_rst, fifo, alt>>
deviceVars == <<ep0Vars, fpgaVars, pipeVars, eeprom>>

Size == Chunks * Packets

Packet(b, n) == <<b, n>>

Complete(b) == [n \in 1..Size |-> Packet(b, n)]

(* The FPGA checks the CRC of what it was sent: it starts with a whole     *)
(* bitstream, whichever it is, and with nothing else.                      *)
Startable == \E b \in Builds : sram = Complete(b)

--------------------------------------------------------------------------------
(* Control transfers.  An IN transfer counts as one packet to come. *)

Kinds == {"get_id", "cfg", "set_id", "health", "volt", "config", "interface"}

In(kind) == kind \in {"get_id", "health"}

Request(kind, arg) == [kind |-> kind, arg |-> arg]

NoRequest == Request("health", 0)

NoXfer == [host |-> NoHost, req |-> NoRequest, left |-> 0, acked |-> FALSE,
           stalled |-> FALSE, value |-> NoId]

Free == xfer.host = NoHost

Succeeded == xfer.acked /\ xfer.left = 0

Answered == Free \/ xfer.stalled \/ Succeeded

Ack(x) == IF Answered THEN x ELSE [x EXCEPT !.acked = TRUE]

Stall(x) == IF Answered THEN x ELSE [x EXCEPT !.stalled = TRUE]

(* SETUP_EP0_IN_BUF: for an OUT transfer, the data is not asked for. *)
Reply(x, value) ==
    IF Answered \/ ~In(x.req.kind) THEN x
    ELSE [x EXCEPT !.left = 0, !.acked = TRUE, !.value = value]

(* A SETUP packet arrives: for a vendor request, handle_usb_setup() is all *)
(* that the interrupt does.                                                *)
Vendor(h, kind, arg, packets) ==
    /\ Free /\ isr = <<>>
    /\ setup' = Request(kind, arg)
    /\ xfer' = [NoXfer EXCEPT !.host = h, !.req = Request(kind, arg), !.left = packets,
                              !.stalled = pending_setup]
    /\ pending_setup' = TRUE
    /\ busy' = FALSE
    /\ UNCHANGED <<handler, left, arm, ep0buf, isr>>

InterfaceStepsKeepFifo == <<"set_rst", "clear_rst", "done">>

(* A standard request is carried out in the interrupt, in these steps. *)
InterfaceSteps == <<"set_rst", "reset_fifo", "clear_rst", "done">>

ConfigSteps == <<"reset_fifo", "deselect", "set_rst", "done">>

Standard(h, kind, arg) ==
    /\ Free /\ isr = <<>>
    /\ setup' = Request(kind, arg)
    /\ xfer' = [NoXfer EXCEPT !.host = h, !.req = Request(kind, arg)]
    /\ isr' = IF kind = "config" THEN ConfigSteps ELSE InterfaceSteps
    /\ busy' = FALSE
    /\ UNCHANGED <<pending_setup, handler, left, arm, ep0buf>>

(* The host controller sends the next packet of an OUT transfer when EP0   *)
(* is armed, whatever the firmware armed it for.                           *)
HostData(data) ==
    /\ ~Answered /\ ~In(xfer.req.kind) /\ xfer.left > 0 /\ busy
    /\ ep0buf' = data
    /\ busy' = FALSE
    /\ xfer' = [xfer EXCEPT !.left = @ - 1]
    /\ UNCHANGED <<setup, pending_setup, handler, left, arm, isr, fpgaVars, pipeVars, eeprom>>

--------------------------------------------------------------------------------
(* handle_pending_usb_setup(), up to the data stage of an OUT request *)

Main == isr = <<>> /\ handler = NoRequest /\ pending_setup

Parse(kind) == Main /\ setup.kind = kind /\ pending_setup' = FALSE

DataStageOneMore(n) == handler' = setup /\ left' = n + 1 /\ arm' = TRUE

(* EP0 is armed later, see Arm: another SETUP packet may come before. *)
DataStage(n) == handler' = setup /\ left' = n /\ arm' = TRUE

StallRequest ==
    /\ pending_setup' = FALSE
    /\ xfer' = Stall(xfer)
    /\ UNCHANGED <<setup, handler, left, arm, busy, ep0buf, isr, fpgaVars, pipeVars, eeprom>>

GetBitstreamId ==
    /\ Parse("get_id")
    /\ ep0buf' = bitstream_id
    /\ xfer' = Reply(xfer, bitstream_id)
    /\ UNCHANGED <<setup, handler, left, arm, busy, isr, fpgaVars, pipeVars, eeprom>>

(* Every bitstream answers a read of register 0, unless the I2C bus to the *)
(* FPGA fails: see Refuse.                                                 *)
ReadRegister ==
    /\ Parse("health") /\ cdone
    /\ ep0buf' = NoId
    /\ xfer' = Reply(xfer, NoId)
    /\ UNCHANGED <<setup, handler, left, arm, busy, isr, fpgaVars, pipeVars, eeprom>>

KeepId == UNCHANGED bitstream_id

ForgetId == bitstream_id' = NoId

ResetFpgaPowered == sram' = <<>> /\ cdone' = FALSE /\ UNCHANGED vio

(* On revision C the ports are turned off first: iobuf_set_voltage() clears *)
(* their enable pins before it uses the I2C bus, which may fail.            *)
ResetFpga ==
    /\ sram' = <<>> /\ cdone' = FALSE
    /\ vio' = (vio /\ ~RevC)

(* fpga_reset().  What it leaves in the FIFO of the pipe comes from a       *)
(* design that is gone.                                                     *)
FpgaReset ==
    /\ ResetFpga
    /\ unread' = FALSE
    /\ fifo' = IF fifo = {} THEN {} ELSE {"old"}

InSequence == setup.arg = 0 \/ setup.arg = bitstream_idx + 1

DownloadChunk ==
    /\ Parse("cfg") /\ InSequence
    /\ DataStage(Packets)
    /\ IF setup.arg = 0 THEN ForgetId /\ FpgaReset
                        ELSE UNCHANGED <<bitstream_id, sram, cdone, unread, vio, fifo>>
    /\ UNCHANGED <<setup, busy, ep0buf, isr, xfer, bitstream_idx, pipe_rst, alt, eeprom>>

StartsFpga == Startable

(* The FPGA starts with all pipes in reset. *)
SetBitstreamId ==
    /\ Parse("set_id") /\ StartsFpga
    /\ cdone' = TRUE /\ pipe_rst' = TRUE
    /\ DataStage(1)
    /\ UNCHANGED <<setup, busy, ep0buf, isr, xfer, bitstream_idx, bitstream_id, sram, unread,
                   vio, fifo, alt, eeprom>>

SetVoltage ==
    /\ Parse("volt")
    /\ DataStage(1)
    /\ UNCHANGED <<setup, busy, ep0buf, isr, xfer, fpgaVars, pipeVars, eeprom>>

(* A SETUP packet that asks for something else is stalled. *)
Acceptable ==
    \/ setup.kind \in {"get_id", "volt"}
    \/ setup.kind = "cfg" /\ InSequence
    \/ setup.kind = "set_id" /\ StartsFpga

Refuse == Main /\ ~Acceptable /\ StallRequest

--------------------------------------------------------------------------------
(* The data stage: BUSY is cleared by a packet, or by the SETUP packet of  *)
(* another transfer; then EP0BUF still holds what it held before.          *)

(* SETUP_EP0_OUT_BUF(), for whatever transfer is on endpoint 0 by now. *)
Arm ==
    /\ isr = <<>> /\ arm
    /\ arm' = FALSE /\ busy' = TRUE
    /\ UNCHANGED <<setup, pending_setup, handler, left, ep0buf, isr, xfer, fpgaVars, pipeVars,
                   eeprom>>

Received(kind) == isr = <<>> /\ handler # NoRequest /\ handler.kind = kind /\ ~arm /\ ~busy

ChunkPacketEarlyAck ==
    /\ Received("cfg")
    /\ sram' = Append(sram, ep0buf)
    /\ left' = left - 1
    /\ xfer' = Ack(xfer)
    /\ arm' = (left > 1)
    /\ IF left > 1 THEN UNCHANGED <<handler, bitstream_idx>>
       ELSE handler' = NoRequest /\ bitstream_idx' = handler.arg
    /\ UNCHANGED <<setup, pending_setup, busy, ep0buf, isr, bitstream_id, cdone, unread, vio,
                   pipeVars, eeprom>>

ChunkPacket ==
    /\ Received("cfg")
    /\ sram' = Append(sram, ep0buf)
    /\ left' = left - 1
    /\ arm' = (left > 1)
    /\ IF left > 1
       THEN UNCHANGED <<handler, xfer, bitstream_idx>>
       ELSE /\ handler' = NoRequest /\ xfer' = Ack(xfer)
            /\ bitstream_idx' = handler.arg
    /\ UNCHANGED <<setup, pending_setup, busy, ep0buf, isr, bitstream_id, cdone, unread, vio,
                   pipeVars, eeprom>>

EndOfStage == handler' = NoRequest /\ left' = 0 /\ xfer' = Ack(xfer)

BitstreamIdReceived ==
    /\ Received("set_id")
    /\ bitstream_id' = ep0buf
    /\ EndOfStage
    /\ UNCHANGED <<setup, pending_setup, arm, busy, ep0buf, isr, bitstream_idx, sram, cdone,
                   unread, vio, pipeVars, eeprom>>

(* Whatever EP0BUF holds is a voltage: it powers the port, turns it off,   *)
(* or is refused, as it also is if the I2C bus fails.                      *)
VoltageReceived ==
    /\ Received("volt")
    /\ vio' \in BOOLEAN
    /\ EndOfStage
    /\ UNCHANGED <<setup, pending_setup, arm, busy, ep0buf, isr, bitstream_idx, bitstream_id,
                   sram, cdone, unread, pipeVars, eeprom>>

MainLoop ==
    \/ GetBitstreamId \/ ReadRegister \/ DownloadChunk \/ SetBitstreamId \/ SetVoltage
    \/ Refuse \/ Arm \/ ChunkPacket \/ BitstreamIdReceived \/ VoltageReceived

--------------------------------------------------------------------------------
(* handle_usb_set_configuration() and handle_usb_set_interface() *)

(* fpga_pipe_rst() does nothing without a design in the FPGA.  What was    *)
(* produced before a reset of the pipe is from then on old.                *)
SetPipeRst ==
    IF cdone THEN pipe_rst' = TRUE /\ fifo' = IF fifo = {} THEN {} ELSE {"old"}
             ELSE UNCHANGED <<pipe_rst, fifo>>

ClearPipeRst == pipe_rst' = (pipe_rst /\ ~(setup.arg = 1 /\ cdone)) /\ UNCHANGED fifo

Interrupt ==
    /\ isr # <<>>
    /\ isr' = Tail(isr)
    /\ CASE Head(isr) = "set_rst"    -> SetPipeRst /\ UNCHANGED <<alt, xfer>>
         [] Head(isr) = "reset_fifo" -> fifo' = {} /\ UNCHANGED <<pipe_rst, alt, xfer>>
         [] Head(isr) = "deselect"   -> alt' = 0 /\ UNCHANGED <<pipe_rst, fifo, xfer>>
         [] Head(isr) = "clear_rst"  -> ClearPipeRst /\ alt' = setup.arg /\ UNCHANGED xfer
         [] OTHER -> xfer' = Ack(xfer) /\ UNCHANGED pipeVars
    /\ UNCHANGED <<setup, pending_setup, handler, left, arm, busy, ep0buf, fpgaVars, eeprom>>

IgnoresPipeRst == setup.kind = "config"

(* The write to the reset register fails, and may have had its effect: the *)
(* request is stalled, unless it is SET_CONFIGURATION, which goes on.      *)
PipeRstFails ==
    /\ isr # <<>> /\ cdone /\ "pipe_rst" \in BusFaults
    /\ \/ Head(isr) = "set_rst" /\ (SetPipeRst \/ UNCHANGED <<pipe_rst, fifo>>)
       \/ Head(isr) = "clear_rst" /\ setup.arg = 1 /\ (ClearPipeRst \/ UNCHANGED <<pipe_rst, fifo>>)
    /\ IF IgnoresPipeRst THEN isr' = Tail(isr) /\ UNCHANGED xfer
                         ELSE isr' = <<>> /\ xfer' = Stall(xfer)
    /\ UNCHANGED <<setup, pending_setup, handler, left, arm, busy, ep0buf, fpgaVars, alt, eeprom>>

(* The design in the FPGA writes to the FX2 unless its pipe is in reset.   *)
(* `fifo` tells data from before the last reset, "old", from "new" data.   *)
Produce ==
    /\ cdone /\ ~pipe_rst
    /\ fifo' = fifo \cup {"new"}
    /\ UNCHANGED <<ep0Vars, fpgaVars, pipe_rst, alt, eeprom>>

--------------------------------------------------------------------------------
(* Power-up *)

Erased == [id |-> NoId, halves |-> <<NoId, NoId>>]

(* main(), to its main loop: the identifier is part of the configuration   *)
(* block, and the bitstream it names is read from the EEPROM and loaded.   *)
(* One whose halves do not fit does not start the FPGA.  One that cannot   *)
(* be read is given up, but the identifier stays.                          *)
Boot ==
    /\ setup' = NoRequest /\ pending_setup' = FALSE /\ handler' = NoRequest /\ left' = 0
    /\ arm' = FALSE /\ busy' = FALSE /\ ep0buf' = NoId /\ isr' = <<>> /\ xfer' = NoXfer
    /\ bitstream_idx' = 0 /\ bitstream_id' = eeprom.id
    /\ vio' = FALSE /\ pipe_rst' = TRUE /\ fifo' = {} /\ alt' = 0
    /\ unread' \in IF eeprom.id # NoId /\ "eeprom" \in BusFaults THEN BOOLEAN ELSE {FALSE}
    /\ IF eeprom.id # NoId /\ eeprom.halves[1] = eeprom.halves[2] /\ ~unread'
       THEN sram' = Complete(eeprom.halves[1]) /\ cdone' = TRUE
       ELSE sram' = <<>> /\ cdone' = FALSE
    /\ UNCHANGED eeprom

FirmwareInit ==
    /\ setup = NoRequest /\ pending_setup = FALSE /\ handler = NoRequest /\ left = 0
    /\ arm = FALSE /\ busy = FALSE /\ ep0buf = NoId /\ isr = <<>> /\ xfer = NoXfer
    /\ bitstream_idx = 0 /\ bitstream_id = NoId /\ unread = FALSE
    /\ vio = FALSE /\ pipe_rst = TRUE /\ fifo = {} /\ alt = 0
    /\ sram = <<>> /\ cdone = FALSE
    /\ eeprom = Erased

================================================================================
