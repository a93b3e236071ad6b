--------------------------------- MODULE Session -------------------------------
(***************************************************************************)
(* Host processes that use one device, one after the other: `glasgow run`  *)
(* (HardwareAssembly.start() and stop(), with GlasgowDevice.               *)
(* download_target()) and `glasgow flash`.  A process may be killed at any *)
(* point, also in the middle of a control transfer, and the device may be  *)
(* powered down; the next process takes the device as it finds it.         *)
(***************************************************************************)
EXTENDS Firmware

CONSTANTS FlashInterrupted, \* TRUE: `glasgow flash` may be cut short
          MaxReboots        \* bound: times the device is powered down

ASSUME SessionAssumption == FlashInterrupted \in BOOLEAN /\ MaxReboots \in Nat

VARIABLES pc,       \* where each process is
          plan,     \* the build that it wants
          reload,   \* its reload_bitstream
          chunk,    \* index of the next chunk it downloads
          reboots

hostVars == <<pc, plan, reload, chunk, reboots>>
vars == <<deviceVars, hostVars>>

Init ==
    /\ FirmwareInit
    /\ pc = [h \in Hosts |-> "off"]
    /\ plan \in [Hosts -> Builds] /\ reload \in [Hosts -> BOOLEAN]
    /\ chunk = [h \in Hosts |-> 0] /\ reboots = 0

Ended == {"off", "closed", "failed", "killed"}

Go(h, where) == pc' = [pc EXCEPT ![h] = where]

Open(h, where) ==
    /\ \A g \in Hosts : pc[g] \in Ended
    /\ pc[h] = "off"
    /\ Go(h, where)
    /\ UNCHANGED <<deviceVars, plan, reload, chunk, reboots>>

--------------------------------------------------------------------------------
(* start() and stop() are a sequence of control transfers. *)

Submit(h) ==
    /\ Free
    /\ CASE pc[h] = "get_id"    -> Vendor(h, "get_id", 0, 1)
         [] pc[h] = "download"  -> Vendor(h, "cfg", chunk[h], Packets)
         [] pc[h] = "set_id"    -> Vendor(h, "set_id", 0, 1)
         [] pc[h] = "health"    -> Vendor(h, "health", 0, 1)
         [] pc[h] = "voltage"   -> Vendor(h, "volt", 0, 1)
         [] pc[h] = "configure" -> Standard(h, "config", 2)
         [] pc[h] = "start"     -> Standard(h, "interface", 1)
         [] pc[h] \in {"stop", "reset"} -> Standard(h, "interface", 0)
         [] OTHER -> FALSE
    /\ UNCHANGED <<fpgaVars, pipeVars, eeprom, hostVars>>

(* The data of the OUT transfer that h has submitted. *)
DataOf(h) ==
    CASE pc[h] = "download" -> Packet(plan[h], xfer.req.arg * Packets + (Packets - xfer.left) + 1)
      [] pc[h] = "set_id"   -> plan[h]
      [] OTHER              -> NoId

Transfer(h) ==
    /\ xfer.host = h
    /\ HostData(DataOf(h))
    /\ UNCHANGED hostVars

KeepsAny(h) == xfer.value # NoId /\ ~reload[h]

Keeps(h) == xfer.value = plan[h] /\ ~reload[h]

(* download_target() does nothing if the device has the bitstream already. *)
AfterGetId(h) == IF Keeps(h) THEN "configure" ELSE "download"

AfterSuccess(h) ==
    CASE pc[h] = "get_id"    -> AfterGetId(h)
      [] pc[h] = "download"  -> IF chunk[h] + 1 = Chunks THEN "set_id" ELSE "download"
      [] pc[h] = "set_id"    -> "health"
      [] pc[h] = "health"    -> "configure"
      [] pc[h] = "configure" -> "voltage"
      [] pc[h] = "voltage"   -> "start"
      [] pc[h] = "reset"     -> "start"
      [] pc[h] = "start"     -> "run"
      [] pc[h] = "stop"      -> "closed"

(* A transfer ends; one that is stalled raises, and nothing on the way out *)
(* of start() or stop() touches the device again.                          *)
Return(h) ==
    /\ xfer.host = h /\ Answered
    /\ IF Succeeded
       THEN /\ Go(h, AfterSuccess(h))
            /\ chunk' = [chunk EXCEPT ![h] = IF pc[h] = "download" THEN @ + 1 ELSE @]
       ELSE Go(h, "failed") /\ UNCHANGED chunk
    /\ xfer' = NoXfer
    /\ UNCHANGED <<setup, pending_setup, handler, left, arm, busy, ep0buf, isr, fpgaVars,
                   pipeVars, eeprom, plan, reload, reboots>>

(* The application reads its pipe, resets it, and leaves the context of    *)
(* the assembly.                                                           *)
Receive(h) ==
    /\ pc[h] = "run" /\ fifo # {}
    /\ fifo' = {}
    /\ UNCHANGED <<ep0Vars, fpgaVars, pipe_rst, alt, eeprom, hostVars>>

Leave(h) ==
    /\ pc[h] = "run"
    /\ Go(h, "stop") \/ Go(h, "reset")
    /\ UNCHANGED <<deviceVars, plan, reload, chunk, reboots>>

--------------------------------------------------------------------------------
(* glasgow flash: the bitstream goes to the EEPROM first, and when it has  *)
(* been verified, the configuration with its identifier.                   *)

FlashStep(h, from, to, image) ==
    /\ pc[h] = from
    /\ Go(h, to)
    /\ eeprom' = image
    /\ UNCHANGED <<ep0Vars, fpgaVars, pipeVars, plan, reload, chunk, reboots>>

Flash(h) ==
    \/ FlashStep(h, "flash", "flash_2", [eeprom EXCEPT !.halves[1] = plan[h]])
    \/ FlashStep(h, "flash_2", "flash_config", [eeprom EXCEPT !.halves[2] = plan[h]])
    \/ FlashStep(h, "flash_config", "closed", [eeprom EXCEPT !.id = plan[h]])

Flashing(h) == pc[h] \in {"flash", "flash_2", "flash_config"}

--------------------------------------------------------------------------------
(* Faults *)

MayEnd(h) == Flashing(h) => FlashInterrupted

Kill(h) ==
    /\ pc[h] \notin Ended /\ MayEnd(h)
    /\ Go(h, "killed")
    /\ xfer' = IF xfer.host = h THEN NoXfer ELSE xfer
    /\ UNCHANGED <<setup, pending_setup, handler, left, arm, busy, ep0buf, isr, fpgaVars,
                   pipeVars, eeprom, plan, reload, chunk, reboots>>

(* A process that had the device open loses it. *)
PowerCycle ==
    /\ reboots < MaxReboots
    /\ \A h \in Hosts : MayEnd(h)
    /\ Boot
    /\ pc' = [h \in Hosts |-> IF pc[h] \in Ended THEN pc[h] ELSE "failed"]
    /\ reboots' = reboots + 1
    /\ UNCHANGED <<plan, reload, chunk>>

--------------------------------------------------------------------------------
HostStep(h) ==
    \/ Open(h, "get_id") \/ Open(h, "flash")
    \/ Submit(h) \/ Transfer(h) \/ Return(h) \/ Receive(h) \/ Leave(h) \/ Flash(h) \/ Kill(h)

DeviceStep == (MainLoop \/ Interrupt \/ PipeRstFails \/ Produce) /\ UNCHANGED hostVars

Next == (\E h \in Hosts : HostStep(h)) \/ DeviceStep \/ PowerCycle

Spec == Init /\ [][Next]_vars

--------------------------------------------------------------------------------
(* Properties *)

Data == Builds \cup {NoId} \cup (Builds \X (1..Size))

Requests == [kind : Kinds, arg : Nat]

Xfers == [host : Hosts \cup {NoHost}, req : Requests, left : 0..Packets, acked : BOOLEAN,
          stalled : BOOLEAN, value : Data]

TypeOK ==
    /\ setup \in Requests /\ handler \in Requests
    /\ pending_setup \in BOOLEAN /\ arm \in BOOLEAN /\ busy \in BOOLEAN
    /\ left \in 0..Packets /\ ep0buf \in Data
    /\ isr \in Seq({"set_rst", "reset_fifo", "clear_rst", "deselect", "done"})
    /\ xfer \in Xfers
    /\ bitstream_idx \in Nat /\ bitstream_id \in Data /\ sram \in Seq(Data)
    /\ cdone \in BOOLEAN /\ unread \in BOOLEAN /\ vio \in BOOLEAN /\ pipe_rst \in BOOLEAN
    /\ fifo \subseteq {"old", "new"} /\ alt \in {0, 1}
    /\ eeprom \in [id : Builds \cup {NoId}, halves : (Builds \cup {NoId}) \X (Builds \cup {NoId})]
    /\ pc \in [Hosts -> Ended \cup {"get_id", "download", "set_id", "health", "configure",
                                   "voltage", "start", "run", "reset", "stop",
                                   "flash", "flash_2", "flash_config"}]
    /\ plan \in [Hosts -> Builds] /\ reload \in [Hosts -> BOOLEAN]
    /\ chunk \in [Hosts -> 0..Chunks] /\ reboots \in Nat

(* A build's identifier is reported only while the FPGA runs that build's   *)
(* bitstream, whole, whatever process was killed while it downloaded one.   *)
(* The one exception: the bitstream that could not be read at power-up is   *)
(* reported until the next download begins, and the FPGA runs nothing.      *)
IdRunning ==
    bitstream_id \in Builds =>
        IF unread THEN ~cdone ELSE cdone /\ sram = Complete(bitstream_id)

(* A process that goes on from the download, done or skipped, has its own   *)
(* build in the FPGA, and never another: only if it skipped the download of *)
(* what could not be read at power-up, the FPGA runs nothing.               *)
OwnBuild ==
    \A h \in Hosts :
        pc[h] \in {"health", "configure", "voltage", "start", "run"} =>
            \/ cdone /\ sram = Complete(plan[h])
            \/ unread /\ ~cdone /\ ~reload[h] /\ pc[h] # "health"

(* Chunks that the device has confirmed are in the FPGA, each once and in   *)
(* order, although EP0 may still have served a killed process meanwhile.    *)
ChunksLoaded ==
    \A h \in Hosts :
        pc[h] \in {"download", "set_id"} /\ Free /\ chunk[h] > 0 =>
            sram = SubSeq(Complete(plan[h]), 1, chunk[h] * Packets)

(* On revision C no process, killed or not, leaves or gets a port powered   *)
(* while the FPGA has no design: its pull-ups would turn the level shifters *)
(* into outputs.  The exception is that of OwnBuild.                        *)
PortsOff == RevC /\ vio => cdone \/ unread

(* What an application reads from its pipe was produced since it opened it. *)
FreshData == \A h \in Hosts : pc[h] = "run" => "old" \notin fifo

(* The firmware and a process never wait for each other, once the device    *)
(* has answered the first request of the process.  (That one may wait in    *)
(* vain: the main loop may still expect the data of a process that was      *)
(* killed, and there is no timeout.)                                        *)
NoHang ==
    \A h \in Hosts :
        xfer.host = h /\ ~Answered /\ handler # NoRequest /\ busy
        => pc[h] = "get_id" \/ (xfer.left > 0 /\ ~In(xfer.req.kind))

================================================================================
