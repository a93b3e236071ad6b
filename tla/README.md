# Verification of the Glasgow host stack

Glasgow is a USB device with an FPGA, its firmware, its gateware and a Python program that runs
applets. An applet's data travels through *pipes*: the application writes to or reads from a pipe of
the host program, whose asyncio tasks keep several USB transfers going; the FX2 microcontroller's
crossbar moves packets between USB endpoints and FIFOs in the FPGA. This directory holds TLA+ models
of that machinery, their TLC configurations, and theorems checked by TLAPS.

Paths below are relative to the repository; `assembly.py` is
`software/glasgow/hardware/assembly.py`, `task_queue.py`, `chunked_fifo.py` and `endpoint.py` are in
`software/glasgow/support/`, `libusb1.py` is `software/glasgow/support/usb/libusb1.py`, `device.py`
is `software/glasgow/hardware/device.py`, `fx2_crossbar.py`, `stream.py` and `cobs.py` are in
`software/glasgow/gateware/`, `main.c`, `fpga.c` and `fifo.c` in `firmware/`.

## Inventory

| Part | State | Operations | Hard because |
|---|---|---|---|
| `TaskQueue` | `_live`, `_done` | submit, poll, wait_one, wait_all, cancel | a task that has ended is moved to `_done` one turn of the event loop later; several callers wait on the same tasks; errors surface in whoever polls first |
| USB transfers (`_perform_transfer`) | two futures, the libusb transfer | submit, callback, cancel | the callback comes from another thread and races the cancellation |
| OUT pipe (`HardwareOutPipe`) | `_out_buffer`, `_out_inflight`, tasks | send, flush, reset, detach | three places slice the buffer and submit; every `await` lets the others run |
| IN pipe (`HardwareInPipe`) | `_in_buffer`, `_in_pushback`, tasks | recv, recv_until, reset, detach | read pushback, callers that wait for a task rather than for data, failed reads |
| `ChunkedFIFO` | chunks, offset | write, read, read_until, clear | chunk boundaries decide what a transfer carries |
| `HardwareAssembly`, `HardwareInOutPipe` | pipes, ports, device | start, stop, claims, voltages | the device is as the previous process left it; one pipe that fails leaves the others half stopped |
| `ServerEndpoint` (`endpoint.py`) | transports, epochs, queue, future | connection and data callbacks, recv, recv_until, recv_wait, send | a new connection before the old one has ended, pushback on the wrong transport, cancelled waits |
| `GlasgowDevice` | USB device | vendor requests, bitstream download, registers, voltages | a process may be killed between any two packets; the bitstream identifier must tell a complete download from a partial one |
| FX2 firmware | pending setup, EP0, status, FIFO and FPGA registers | setup interrupt, main loop, alert polling | interrupt, main loop and endpoint 0 each go on by themselves; the data of one request may meet the handler of another |
| FX2 crossbar | arbiter, skid buffers, level counters | IN and OUT transactions, packet end, reset | flags lag behind the FIFOs they describe, strobes take effect two cycles later |
| COBS encoder and decoder | one memory for waiting bytes and lookahead, counters of eight bits | tokens in, bytes out and back | a group is staged in the room that unread bytes leave; groups that are full end in a special way |
| Other gateware streams, I/O streams, analyzer | queues, latches | stream handshakes | latency and back pressure at the same time |
| Gateware bus cores | one state machine each | bus transactions | protocol corner cases |
| GDB, NBD, SVF and other protocols | parser state | commands | cancelled waits of the GDB server's `continue` |
| Build plan, toolchain, command line, simulation, applets, databases | - | - | not concurrent, or one program per applet |

What makes each part correct: a *pipe* neither loses, repeats nor reorders bytes, holds no more than
its limits, keeps its queue of transfers full, returns from every call, and after `reset()` nothing
old is left. The *task queue* loses no error and no wake-up. The *endpoint* never answers one client
with another's reply and stops reading only while it is full. The *device* never takes a partial
bitstream for a whole one. The *firmware* handles each request with its own data, powers no port
without a design, and never waits for a host that waits for it. The *crossbar* and the *streams*
deliver every word once, with packet boundaries.

## The modules

    TaskQueue ── Transfers ──┬── OutPipe ── OutPipeStream ──┬── MCOutPipe   (TLC)
                             │                              └── OutPipeProofs (TLAPS)
                             ├── InPipe ─── InPipeStream ─┬──── MCInPipe    (TLC)
                             └── TransfersProofs ─────────┴──── InPipeProofs (TLAPS)
    ByteStream, refined by OutPipeStream and by InPipeStream
    Endpoint ──┬── MCEndpoint                                               (TLC)
               └── EndpointProofs                                           (TLAPS)
    Firmware ── Session ──┬── MCSession                                     (TLC)
                          └── SessionProofs                                 (TLAPS)
    Crossbar ──┬── MCCrossbar                                               (TLC)
               └── CrossbarProofs                                           (TLAPS)
    Cobs ──┬── MCCobs                                                       (TLC)
           └── CobsProofs                                                   (TLAPS)
    Totals, used by all proof modules but SessionProofs and CobsProofs

Data flows application - OutPipe/InPipe - USB - Crossbar - applet; Session is how all of that is set
up before the first byte and taken down after the last. The modules meet at the USB endpoints:
`SET_INTERFACE`, which `reset()` of a pipe awaits, is `Standard(h, "interface", ...)` in Session and
`SetReset`, `ResetFifo`, `ClearReset` in Crossbar.

**TaskQueue** is `task_queue.py` together with the asyncio event loop it runs on. `ready` is the
loop's FIFO of scheduled callbacks (handles); one runs at a time. `Callers` are coroutines of the
application; while one executes (`running`) no handle runs, and it gives up the loop only where the
code really suspends, in `asyncio.wait()`. Everything between two suspensions of a caller is thereby
atomic towards the loop, though it is split in actions named after the steps of the code. `live` and
`done` are `_live` and `_done`; `TaskCallback` is `_callback`. `waitFor` is what is left of each
caller's `asyncio.wait()`: done callbacks added to a task that has already ended are scheduled one
by one by asyncio, and merged here into one (`Late`).

**Transfers** adds what a task of a pipe goes through: `tasks` records, by number, the bytes it
carries, where its coroutine is, and the state of its USB transfer; `urbs` is the host controller's
queue. `TransferCallback` is `usb_callback` run in the loop's thread, `Cancel` is `Task.cancel()`,
`HasToCancel` the `except CancelledError` branch of `_perform_transfer`. `CancelQueue` is
`TaskQueue.cancel()`, with the order in which it comes across the set of tasks left open.

**OutPipe** is `HardwareOutPipe`. Bytes are numbered as they are sent: the buffer is the interval
`pos+1 .. wtotal` with the set `ends` of chunk boundaries, since the only thing the code tells apart
in the data is where chunks end. `SliceEnd` is `_out_slice()`, `Threshold` is `_out_threshold`,
`Submit` the common submit; `CallSend`, `SendWait`, `SendWrite`, `SendSubmit`, `SendReturn` are
`send()`, the `Flush...` actions `flush()` with and without `_wait`, `CallReset` and `EndCancel`
`reset()`; `TaskStart` and `TaskWake` the two halves of `_out_task()`. `TaskRefused` is the task
whose `submit()` raises: it ends at its first step, whatever transfers are queued before and behind
it. The history variable `refused` holds the bytes of such tasks.

**InPipe** is `HardwareInPipe`. `buffer` is the content of the FIFO, `waiters` the tasks that wait
on `_in_pushback`. Acquiring the condition's lock never suspends, because nobody suspends while
holding it, so that only `wait()` is a suspension. `Proceed` is the check and the submission,
`TaskRefused` a submission that fails, `Store` what a task does with its data. The device produces
bytes at will, in full, short and empty transfers. The history variable `shared` holds the callers
that had collected something in `recv_until()` when another caller read.

**Endpoint** is `ServerEndpoint`, which shares nothing with the pipes but asyncio. Connections are
numbered as they are made, and a data item of the queue is a range of its connection's bytes.
`ConnectionMade`, `DataReceived` and `ConnectionLost` are the protocol's callbacks, each with its
`_check_pushback()` (`Pushback`) and `_check_future()` (`CheckFuture`); `_send_epoch` is the number of
connections made. `Calls`, `Refill`, `Resume`, `Recv`, `RecvUntil` and `RecvWait` are the one
application coroutine in its calls, and `result` is the item between the completion of the future
and the turn of the loop in which the coroutine learns of it. `CancelWait` is what `continue` of the
GDB server (`protocol/gdb_remote.py`) does to its `recv_wait()`. `SocketEvent` is the rest of the
world: clients that close, fall silent or break. `heard` and `missed` are history variables.

**ByteStream** is what both pipes promise: a queue of numbered bytes that grows at one end and
shrinks at the other, but for resets and failed transfers. **OutPipeStream** and **InPipeStream**
map the pipes' state to it: the queue of an OUT pipe is what its transfers carry, in the order in
which the host controller will execute them, and then the buffer; that of an IN pipe is the buffer
and then what transfers hold that have completed but whose tasks have not run. `IsByteStream` is
`Stream!Spec` under this mapping. The number of failed transfers is the only fault that is visible
in `ByteStream`: `Fail` may take a run of bytes out of the queue (`Gap`), or lose bytes that were
never accepted, but not reorder any. The run is the oldest bytes if a transfer on the bus failed,
and may be in the middle if one could not be submitted. During a reset `Drop` may lose any bytes, in
as many steps as it takes, but what is left of the queue is still in the order in which it was sent.

**Firmware** is the FX2's part in setting up the FPGA and its pipes. Endpoint 0 is the transfer that
is on it (`xfer`), what the firmware has armed it for (`busy`, `ep0buf`) and the main loop's wait
for data (`handler`, `left`), which belong together only as long as no process is killed. It is
armed by an action of its own (`Arm`), as a setup packet may arrive after the request was parsed and
before `SETUP_EP0_OUT_BUF()`, with 250 ms of `fpga_reset()` in between. `Vendor` is a vendor request
as the SUDAV interrupt sees it (`handle_usb_setup`); the actions of `MainLoop` are
`handle_pending_usb_setup`, one per request and one per data stage: `DownloadChunk` and
`ChunkPacket` are the two halves of a bitstream chunk, before and in the loop on `BUSY`. `Standard`
starts a standard request, whose steps (`ConfigSteps`, `InterfaceSteps`) `Interrupt` takes one by
one, since the FPGA goes on producing data between them; `PipeRstFails` is a step whose I2C write
fails, with or without its effect. `Boot` is `main()` up to its loop, with what the EEPROMs hold; if
they cannot be read, the FPGA stays empty and the identifier stays set, which the history variable
`unread` records until the next download. `BusFaults` says which of these failures may happen,
`RevC` whether `fpga_reset()` turns the ports off. A bitstream is as many packets as `Chunks *
Packets`, and the FPGA starts with a whole one only (`Startable`), as iCE40 checks a CRC.

**Session** is the processes that use the device, one at a time: `Submit`, `Transfer` and `Return`
are the control transfers of `HardwareAssembly.start()` and `stop()` and of `download_target()`
and `download_bitstream()` in the order of the code (`AfterSuccess`), with the check that skips the
download (`Keeps`). `Flash` is `glasgow flash`. `Kill` ends a process at any point, in the middle of
a transfer too; `PowerCycle` is the cable. The next process finds what is left.

**Crossbar** is `fx2_crossbar.py`, a clock cycle per `Tick`. Variables are registers; the signals of
the cycle are named as in the source (`slwr`, `slrd`, `pend`, `Ready`, `Busy` for `nrdy_i`).
`InFifos` is `_INFIFO`, `OutFifos` is `_OUTFIFO` with its `SkidBuffer`, `Fsm` the state machine, `FX2`
and `Capture` the chip at the other end of the pins. `Offer`, `Drain`, `HostSends` and `HostTakes` are
the two users of each stream. `SetReset`, `ResetFifo`, `ClearReset` are the firmware's steps when an
interface is selected.

**Cobs** is `cobs.py`, a clock cycle per `Cycle`, with the output of the encoder connected to the input
of the decoder. `Encode` is the encoder's FSM, with an action for each branch (`TakeEnd`, `TakeNul`,
`TakeByte`, `CloseGroup`, `Terminate`); `Read` is the read port, which shows what is written in the
same cycle; `Decode` is the decoder's FSM and `Emit` its `StreamBuffer`. `Offer` is the stream at the
input, and the parameters of `Cycle` say whether the way between the two and the one behind them is
open. In the analyzers the host decodes and in the probe (`bridge/probe_rs`) it encodes, with the
`cobs` package, so that here each half stands for that package with regard to the other.
`inflight` is a history variable.

**OutPipeProofs**, **InPipeProofs**, **EndpointProofs**, **SessionProofs**, **CrossbarProofs** and
**CobsProofs** hold the theorems about the module they are named after, **TransfersProofs** lemmas
about the tasks and transfers of a pipe, and **Totals** lemmas about sums over finite sets, about
sequences that are concatenated, and about sequences that list a set of numbers in order.

### Assumptions of the models

* The libusb1 backend: `select_alternate_interface` is synchronous there. The WebUSB one suspends.
* `reset()` is called while no other caller is inside the pipe (no applet does otherwise), and no
  call starts while it runs.
* libusb reports a transfer whose cancellation it accepted as cancelled; one that has completed
  keeps its result. The host controller executes the transfers of an endpoint in order.
* An exception in a call returns the caller to its own code (`pc` is `"run"`): ValueError of
  `asyncio.wait()` without tasks, AssertionError of the assertions, the error of a transfer.
* Byte counts are unbounded integers, as in Python.
* `MaxFailures` counts transfers that fail on the bus and those that cannot be submitted alike.
* *Session*: libfx2 and the FX2 are not in the repository. What is used of them: a SETUP packet
  overwrites `SETUPDAT`, clears `BUSY`, ends a stall and runs the interrupt handler; an ACK or a
  STALL of the firmware applies to whatever transfer is then on endpoint 0; the kernel runs one
  control transfer at a time, and one whose process is killed ends where it is. One process has the
  device open at a time (libusb claims its interfaces). Bitstreams have one size, as those of one
  FPGA do. A read of register 0 (the health check) succeeds if the FPGA runs a design, unless the
  I2C bus fails (`Refuse`). A failing I2C access to the bitstream EEPROM at power-up and to the pipe
  reset register are modelled; that to the DAC ends with the port off or as it was
  (`VoltageReceived`), and turning ports off does not need the bus: `iobuf_set_voltage()` of 0 mV
  clears the enable pins before it (dac_ldo.c:70-72), so that it does not matter that `fpga_reset()`
  ignores its result. `ST_ERROR`, which the host reads after `IO_VOLT` (device.py:461), is not: a
  process that finds it set ends there, as one that is killed at that point does.
* *Crossbar*: an FX2 FIFO obeys the strobes on its pins at the clock edge, and a flag shows the
  state before that edge; strobes that the state of the FIFO forbids do nothing. Each endpoint is
  used through a Queue of the assembly, so that `valid` stays until its byte is taken. Output
  enables and the direction of the data bus are left out, as the FSM has states to wait for them.
  Two steps of the firmware are at least `Settle` cycles apart, which is a bound for the model
  checker where the real distance, an I2C transaction, is thousands of cycles; the proofs need two.
* The endpoint listens on one address: one connection is made in a turn of the event loop, so that a
  replaced connection that has nothing left to send is lost before a third one is made, and before
  the data of the one that replaces it arrive, whose reading asyncio starts after that
  `connection_lost()` is scheduled (`OldOneDying`). A connection that breaks while it is being
  closed is still lost only after the callbacks of the same turn (`Broken`). An application that
  limits its queue only receives, as the one that does (`ws2812-output`); the others never set a
  limit. An exception that no application handles ends the program (`pc` is `"dead"`).

## The runs

| Run | Shows | Bounds |
|---|---|---|
| `out_pipe` | types, usbfs limit, order, inflight count, flush and reset guarantees, refinement of `ByteStream` | one caller; packets and transfers of 2 bytes, 2 transfers at once, limit 5, chunks of 1 and 4 bytes, 6 bytes, a failure, a reset |
| `out_pipe_callers` | order, memory limit, every call returns (fair) | two callers; transfers of 1 byte, limit 1, chunks of 1 and 2, 3 bytes, a failure |
| `in_pipe` | order, no loss, pushback, queue depth, wake-ups, no deadlock, exact reads, refinement of `ByteStream` | two callers; transfers of 2 bytes, 2 at once, limit 1, `recv(3)`, 3 bytes, 3 transfers, a failure, a reset |
| `endpoint` | types, replies never cross clients, order and completeness of each client's stream, wake-ups, pushback ends | three connections of 1 byte or two of 3 bytes; no limit, limits of 1 and 2; `recv()`, `recv(2)`, `recv_until()`, `recv_wait()` |
| `session` | identifier, own build, chunks, ports, fresh data, no hang | three processes, two builds, bitstreams of two chunks of two packets, one power cycle, one flash per process; revision C, failing EEPROM reads and pipe reset writes |
| `crossbar` | conservation, level counters, packet ends, arrival (fair) | packets of 2 bytes, skid depth 3, timer 1, FIFOs of 2 packets; OUT+OUT, OUT+IN or IN+IN; 5, 2, 3 and 2 bytes, one reset of endpoint 0 or 2 |
| `cobs` | registers, staging, what goes in comes out (fair) | groups of 3, memory of 4, bytes 0, 1 and 2, packets and stream of any length |
| `session_flash` | an interrupted `glasgow flash` makes the device report a wrong identifier | as `session`, `FlashInterrupted` |
| `flush_assertion` | the assertion in `flush()` can fail | one caller, 8 bytes in chunks of 4, transfers of 2 |
| `inflight_exact` | `reset()` leaks the inflight count | one caller, a reset, no failure |
| `endpoint_replies` | a reply to the present client is discarded | two connections of 1 byte, no limit |
| `whole_packets` | transfers that are no multiple of a packet | one caller, chunks of 3, packets of 2 |

The bounds are the smallest that let the interesting cases meet. Two transfers per queue are enough
for a successor to be submitted while its predecessor is counted and another is in flight. A chunk
of 1 with packets of 2 takes the slow path of `_out_slice()`, one of 4 leaves a rest in the buffer
when it is cut, 6 bytes with a limit of 5 cause pushback. For the IN pipe, a limit of 1 with
transfers of 2 lets both transfers overshoot it, and `recv(3)` wants one byte more than such a pipe
holds back for, so that it may or may not be served; 3 transfers of 3 bytes include short and empty
ones and a successor of a successor. Every cap is a constant (`MaxBytes`, `MaxTransfers`,
`MaxFailures`, `MaxResets`) in a guard. `in_pipe` does not check for deadlock, because a caller may
wait for a device that has nothing more to send; `NotStuck` is the part of that question the code
answers for. The endpoint's runs do not check for deadlock either, since the connections may be used
up and the program may have died. Three connections are the fewest of which one is replaced before
it was current; three bytes let an item end before, in and after a `recv(2)` and hold a separator
with data on both sides. For `session`, three processes are one that is killed, one that is killed
in what the first left, and one that uses the device; two chunks of two packets have a first and a
later chunk and a first and a later packet in each. `session` does not check for deadlock: in the
end all processes are over, or the one exception of `NoHang` is met. For `crossbar`, 3 bytes are a
full packet and a short one, 2 bytes a full packet alone, which needs a packet of zero length after
it, and two FIFOs of two packets fill up against a slow host; `SkidDepth` is 3 as in the source, and
5 bytes overrun it. Packets of 2 bytes instead of 512 keep every comparison with the maximum size
and let a packet be empty, short or full. `crossbar` checks for deadlock: the clock never stops. For
`cobs`, the source has groups of 255 and a memory of at least 256 bytes; only their difference
matters, and it is the least the code allows, where staging and reading are closest to each other.
Nothing bounds the traffic: the states are finite because encoder and decoder hold only so much.

*Fairness* (`FairSpec` of OutPipe): weak fairness of the event loop's steps, of the host controller
and libusb, and of each caller's own steps (asyncio runs every scheduled callback, and the
controller every queued transfer; callers in the pipe go on when they are resumed). Strong fairness
of `Yields(c)` says that a coroutine that executes awaits something sooner or later: asyncio is
cooperative, and one that calls pipes without ever awaiting would stop the loop. Nothing says that a
caller makes calls, or ever runs.

`Spec` of Crossbar has weak fairness of `Tick` (the clock runs), of `Drain` (the application reads its
OUT Queue) and `HostTakes` (a host with an IN pipe always keeps reads queued, see `QueueDepth`), and of
the firmware's steps once a reset has begun. Nothing says that anybody sends, flushes or resets.
`Spec` of Cobs has weak fairness of cycles in which the way between encoder and decoder is open, and
of cycles in which that behind the decoder is: neither side stops taking data for ever.

### What the properties say

* `UsbMemoryBound`: the limit described by the comment on `_max_packets_per_ep`.
* `InOrder`: the transfers still to be executed and the buffer are pieces of the stream, in order,
  and between them only the bytes of transfers whose submission failed are missing.
* `InflightCovers`, `MemoryBound`: the accounting behind write pushback.
* `FlushDelivers`: a `flush()` that returns has waited for all that was sent before it, but for what
  could not be submitted. That the error reaches its caller is not claimed: `poll()` of another call
  may have taken it.
* `ResetQuiesces`: nothing old can reach a restarted interface.
* `CallsReturn`: no call waits for ever.
* `StreamOrder`, `NoByteLost`: the byte stream of the IN pipe, up to its buffer.
* `RecvExact`: what calls return is in order, of the right length, and consecutive unless a transfer
  failed or another caller read while a `recv_until()` collected.
* `PushbackBound`, `QueueDepth`: its limits, with failures.
* `NoLostWakeup`, `NotStuck`: a caller of `recv()` does not sleep on data, nor in a deadlock with
  pushback, but for the one that the code allows: a `recv()` of more than one byte beyond the limit,
  on a buffer that has reached its limit.

* `NoCrossTalk`: what is sent goes to the client that was read from, or nowhere.
* `StreamOrder` of Endpoint: each client's bytes arrive once and in order, but for what a cancelled
  `recv_wait()` takes along.
* `WaiterWoken`, `NoStall`: the application does not sleep on queued items, nor on a connection it has
  itself left paused.

* `IsByteStream`: a pipe implements `ByteStream`, with every interleaving, failure and reset.

* `IdRunning`: the identifier that the device reports is that of the bitstream in the FPGA. If that
  bitstream could not be read at power-up, the FPGA runs none, until the next download.
* `OwnBuild`: a process that has skipped or done the download runs on its own build, and on no
  other; on none only if it has skipped the download of what could not be read.
* `ChunksLoaded`: what is confirmed is loaded, though endpoint 0 may still serve a killed process.
* `PortsOff`: on revision C no port is powered while the FPGA has no design. The one exception is the
  time after a failed start, until the next download, as a process that skips it goes on without a
  design.
* `FreshData`: no application reads what its pipe produced for the one before.
* `NoHang`: firmware and process never wait for each other after the first answer.

* `Conserved`: no strobe that is too late and no flag that is stale loses, repeats, reorders or
  misdirects a byte, before or after a reset.
* `LevelExact`: the level counter agrees with the FX2's packet, on which all packet ends depend.
* `ZlpAfterFull`, `EverythingArrives`: packets of zero length where they are needed and nowhere else.

* `StagedFits`: a group that is staged never reaches bytes that have yet to be read.
* `RoundTrip`: the decoder puts out what the encoder has taken, in order, with full groups, NULs and
  ends of packets at every position of a group.
* `PacketsArrive`: every token is taken and every packet comes out; the memory never fills up with a
  group whose overhead byte is not known yet.

### Where the code and its comments disagree

* `flush_assertion`: `flush()` asserts that the buffer holds at most one transfer. `send()` submits
  only if `len(_out_tasks)` leaves room, and that counts a task whose coroutine has ended but whose
  callback has not run, which no longer submits a successor either. So data above the threshold can
  stay without a task, and the next `flush()` fails its assertion. With a bounded pipe the same state
  makes the next `send()` call `asyncio.wait()` with an empty set, a ValueError.
* `inflight_exact`: a task cancelled before its first step never enters the `try` of `_out_task()`,
  so that `send()` followed at once by `reset()` leaks `_out_inflight`. This is why `InflightCovers`
  claims equality only without resets.
* `whole_packets`: the comment in `send()` says that automatic transfers are multiples of the packet
  size; a first chunk longer than a packet is sent as it is.

* `session_flash`: `glasgow flash` writes the bitstream first and its identifier, with the rest of the
  configuration, last. If it is cut short in between, the device starts with the old identifier and
  the new bitstream, or with none at all, and the next process that wants the old build skips the
  download and runs on the wrong design. `OwnBuild` and `PortsOff` fail in the same way, which is why
  the theorems about `Session` assume `~FlashInterrupted`.
* `endpoint_replies`: `send()` discards what it takes for a reply to a previous connection. While a
  connection that was replaced still has data to send, its end of stream is behind the new
  connection's data in the queue, so that the new client's request is read, and the reply to it
  discarded, with that client still connected.

The first two were reproduced on the real classes with a simulated device, `endpoint_replies` on the
real class with two TCP clients. Not stated as properties, but seen on the way: with two listening
addresses the endpoint can lose track of an open connection (`connection_lost()` then raises, as
`_transport` is None); data that arrive after a `recv_wait()` was cancelled raise InvalidStateError,
which closes the connection and, unless the application was waiting again by then, loses them;
`recv()` of more than one byte beyond the buffer limit can deadlock with read pushback (the
exception of `NotStuck`, which the run `in_pipe` meets); a write that cannot be submitted is missing
from the middle of the stream, as the transfers behind it stay queued (`TaskRefused`); a bitstream
that cannot be read at power-up leaves its identifier set, against `bitstream_id()`'s "or ``None``
if the FPGA does not have a bitstream" (device.py:368-370), so that a process that wants it skips
the download and goes on with an empty FPGA (the exception of `IdRunning`, `OwnBuild` and
`PortsOff`, for which `session` is run with `BusFaults`); a failed read is not resubmitted, so that
the pipe runs dry after as many failures as it has transfers (`QueueDepth`); `TaskQueue.cancel()`
re-raises the error of a task that ended long before, and `_stop()` then leaves the pipe marked as
running, uncleared and without tasks (`EndCancel`); `recv_until()` loses what it has collected when
a wait raises; a process killed within the data stage of a request leaves the main loop of the
firmware waiting, so that the first request of the next process may wait in vain (the exception in
`NoHang`) or, if that loop was in `IO_VOLT`, powers a port with whatever is in EP0BUF
(`VoltageReceived`).

## The theorems

### OUT pipe

`OutPipeProofs`, for all values of the constants under `CallersAssumption` (a finite set of
callers) and `OutPipeAssumption` (positive sizes):

* `Inductive`: `Spec => []IInv`
* `TypeCorrect`: `Spec => []TypeOK`
* `UsbMemoryBounded`: `Spec => []UsbMemoryBound`
* `MemoryBounded`: `Spec => []MemoryBound`

`TypeOK` and `UsbMemoryBound` are not inductive: a handle of the ready queue says nothing about the
task it names, so that a "wake" handle might find a task that is over, end it twice and submit two
successors. `IInv` adds what each kind of handle finds when it runs (`QueueFits`), that a task has
at most one "start" and one "wake" handle (`Once`), that a task that is not over is in `live` and
carries what fits a transfer (`TaskFits`), that a task whose transfer is queued has started
(`UrbsFit`), that the last byte of a non-empty buffer ends a chunk (`BufferFits`), and that a caller
in `send()` has a legal argument (`ArgFits`). With these, the number of unfinished tasks grows only
where `len(_out_tasks)` was below the limit (`RoomForOne`) or where the task that ends makes room
for its successor (`SuccessorOK`). `SliceProperties` proves that `_out_slice()` takes at least one
byte and at most a transfer, whatever the chunks. `MemoryBounded` follows from `IInv` and one
observation, `HeldNeverGrows`: every step but the write in `send()` moves bytes from the buffer to
transfers or drops them, and that write happens only below the limit.

* `InflightCovered`: `Spec => []InflightCovers`

`CoverInv` is that property with `IInv`: `_out_inflight` and the bytes of the unfinished tasks change
together, when a task is made and when it ends, and only a task cancelled before its first step ends
without giving its bytes back. `Totals` says what happens to a sum over the tasks if one is added,
ends, or makes room for its successor.

What needs the history of the queues comes last:

* `BytesInOrder`: `Spec => []InOrder`
* `FlushIsDelivered`: `Spec => FlushDelivers`
* `ResetIsQuiet`: `Spec => ResetQuiesces`

They rest on a tower of invariants, each proved with those below it. `CallersFit`: a caller that is
about to be resumed waits for nothing and is resumed once, and while one caller is in `reset()` the
others are outside the pipe. `UrbsInv`: the controller holds exactly the submitted transfers, each
once, whose tasks have not ended and have not been told a result. `ResetInv`: the caller in
`reset()` waits for every unfinished task, all of which are cancelled (`Doomed`), and without a
`reset()` none is; this gives `ResetIsQuiet`. `OrderInv`: outside `reset()`, tasks will be started
in the order of their creation (`StartsFit`: the event loop's queue is FIFO), and the controller's
queue is in that order (`UrbsOrdered`). `TiledInv`: every byte that left the buffer and that the
device has not taken is of a task that is still to be executed, or was refused (`Tiled`); since no
task is `Doomed`, a task leaves that set only by being executed, when the bytes up to its last are
taken, or by being refused. `BytesInOrder` joins both with `StreamInv`, see below. `MarkInv`: a
`flush()` that only waits has emptied the buffer of what was sent before it. A `flush()` that
returns has found no live task, so that what is not taken was refused. `StepKinds` sorts the steps
into those that leave tasks, transfers and buffer alone (`Quiet`) and the others; each invariant has
one lemma for each kind.

* `OutPipeIsStream`: `Spec => IsByteStream`

is the refinement of `ByteStream`. `OrderInv` is about the time outside `reset()`, but a reset may
be interrupted at any of its steps, and the queue must still be one. `StreamInv` is what also a
reset keeps: the controller's queue is in the order of the data (`UrbsOrdered`), and no byte is in
two tasks, nor in a task and in the buffer (`Cut`). The mapping concatenates what a list of tasks
carries; `StreamListed` proves that its result is the one ascending sequence of a set, the bytes
`Outstanding`, so that what a step does to the queue follows from what it does to that set: `Stays`,
`Leaves` (a task ends, its bytes were received, failed or were dropped) and `Grows` (bytes are
written). `BytesTaken` shows that outside a reset it is the oldest bytes that leave when a transfer
ends, a refused task takes a run of them out of the middle (`ListsGap`), and `StreamStep` says which
action of `ByteStream` each step of the pipe is.

### IN pipe

`InPipeProofs`, under `CallersAssumption` and `InPipeAssumption`:

* `TypeCorrect`: `Spec => []TypeOK`
* `Wakes`: `Spec => []NoLostWakeup`
* `NeverStuck`: `Spec => []NotStuck`
* `ReadsExact`: `Spec => RecvExact`
* `DepthKeeps`: `Spec => []QueueDepth`
* `PushbackBounded`: `Spec => []PushbackBound`
* `KeepsOrder`: `Spec => []StreamOrder`
* `NothingLost`: `Spec => []NoByteLost`

The common ground is `PipeInv`: types, and, from `TransfersProofs`, what a handle of the event loop
finds when it runs and that a task has one of each kind; to which it adds that only a completed
transfer has data (`DataFits`) and that a task in `waiters` waits, and is there once (`WaitersFit`).
`CallersFit` and `ResetAll` are as in the OUT pipe. On these stand three separate arguments.

*Who is woken.* `HeldBack`: a task waits only while the buffer is over its limit, since whoever
takes from it notifies all waiters. `SleepInv`: a caller that is suspended either has its wake-up in
the event loop's queue or waits for every unfinished task, and the buffer is too short for it;
`Retained` is the order of the queue that every step keeps. `NeverStuck` combines the two: a caller
whose tasks all wait would need a buffer that is over its limit and too short for it at once, which
only a `recv()` of more than `BufferSize + 1` can find.

*How many.* `DepthInv` counts tasks: one that ends is replaced unless it failed. `PushbackBound`
follows from that count, and from a sum over the tasks in flight that `Totals` takes apart.

*Which bytes.* Several tasks can hold data at once, and run in the order in which the event loop has
their handles. `FlowInv` says that this is the order of the data: handles whose tasks hold data are
in its order, those of tasks that have been told their result before those of tasks that have not
(`InOrder`), each such task has one (`Carried`), and all of it lies behind what is in
the buffer (`Behind`). A task that is held back has no data, since the check for room
comes before the transfer. `StreamInv` adds that no byte is missing in
between as long as no transfer failed (`Cover`), and `LossInv` that the parts add up.

*What is returned.* `UntilFits`: what `recv_until()` has collected has no delimiter. `CollectedInv`:
it is in order and lies before what is in the buffer, and, unless a transfer failed or another
caller read meanwhile, it is consecutive and ends at `taken`. `JoinedRuns` says what appending the
head of the buffer makes of that.

* `InPipeIsStream`: `Spec => IsByteStream`

follows the proof for the OUT pipe. `Apart` is what also a reset keeps: the completed transfers
whose tasks have not run (`Loaded`) have no byte in common, and none that belongs before what is in
the buffer. The queue lists the bytes of both in ascending order (`StreamListed`), although the
tasks are found in the order of their creation and the mapping sorts them by their data. Each step
is one of `Stays`, `Shrinks` (a caller takes from the buffer), `Arrives`, `Fails` (also a
submission), `Stores` (a task appends its data: the queue does not change, since by `FlowInv` it is
the first that has any) and `Drops`.

### Endpoint

`EndpointProofs`, for any number of connections, applications and sizes (the runs have three):

* `Inductive`: `Spec => []IInv`
* `RepliesToItsClient`: `Spec => []NoCrossTalk`
* `WakesWaiter`: `Spec => []WaiterWoken`
* `TypeCorrect`: `Spec => []TypeOK`
* `ReadsInOrder`: `Spec => []StreamOrder`
* `NeverStalls`: `Spec => []NoStall`

`send()` compares two counters, of connections made and of ends of streams seen, and writes to
`_transport`; that this is the client whose data was read is not said anywhere in the code. The
invariant counts: `EndedFits` names the connections whose ends the application has seen, one less
than `_recv_epoch`, each of which is lost, without items in the queue, and not heard since. When
`send()` may write, only one connection is left, so that what was heard is from that one. Usually it
is `_transport`. The exception is a connection that was lost before it became the transport:
`OldFits` says that its end comes after that of an older, still closing one (`ClosedBefore`), so
that nothing of the older one has been read if the end of this one has. `NewFits` is the
same while it is in `_new_transport`, and `LineFits` that an end is the last item of its
connection, whether in the queue or in the future that was set (`Line`). `Alone` is needed because
`_check_pushback()` raises without a transport: with a limit to the queue there always is one while a
connection is open, so that `data_received()` never loses its turn. `WaitFits` says what a pending
future means, and contains `WakesWaiter`. The callbacks only append to `Line` (`LineGrows`), the
application only takes from its front (`Calm`, `CalmReader`, `TakeItemOK`).

The last three rest on `IInv` and on `ReadFits`, which adds what is in the queue. `Ranged`: every item
is a range of its connection's bytes. `Counted`: `_queued` is at least the sum of the items' lengths,
and equal to it with a limit (only separators, which `recv_until()` drops without counting, make a
difference). `Streamed`: the items of a connection are a chain from what was read of it to what it
sent (`Chain`), unless a cancelled `recv_wait()` took an item along. `PauseFits`: only the transport
is paused, and only while as much is queued as the limit says; so that a wait, which finds nothing
queued and hence a count of zero, finds nobody paused. `ChainTail` and its neighbours are what
taking an item and appending one do to a chain; `StreamOrder` names the last item before a position,
which a chain determines.

### Session

`SessionProofs`, for any processes, builds, numbers of chunks, packets and power cycles, either kind
of revision and any `BusFaults`, under `FirmwareAssumption`, `SessionAssumption` and
`~FlashInterrupted`:

* `Inductive`: `~FlashInterrupted /\ Spec => []IInv`
* `TypeCorrect`, `ReportsWhatRuns`, `RunsOwnBuild`, `LoadsEachChunk`, `KeepsPortsOff`,
  `ReadsFreshData`, `NeverHangs`: the same for `TypeOK`, `IdRunning`, `OwnBuild`, `ChunksLoaded`,
  `PortsOff`, `FreshData`, `NoHang`.

All of them need the same invariant, since each is true only because the others are. What could go
wrong is that a data stage of a killed process takes the packets of the present one. `IInv` says why
it does not: once the first request of a process is answered, the main loop waits for no other
process any more, and from then on transfer, pending request and data stage are those of one request
(`InStep`). Before that, the process only asks for the identifier, and sends nothing: the data stage
of a killed process then takes what was left in EP0BUF, which never names another build than the one
that is loaded (`NotBuffered`), so that at worst the device reports an identifier of no build.
`Downloading` says how many packets are in the FPGA at each point of the download, `Using` that the
design stays while the process uses it (or that it has none, after a failed start: `Skipped`),
`NotNamed` that the identifier is cleared meanwhile, `Answer` that the answer on its way is still
true when it arrives, `Fresh` what is in the FIFO between the steps of `SET_INTERFACE`, `EepromFits`
that a block in the EEPROM names what is there unless somebody is flashing. The proof has a lemma
per action (`Step` collects them); `AtSetup`, `AtData`, `AtInterrupt` and `Owner` say what the main
loop finds when it gets to a request, and are used by all of them. `LoadsEachChunk` needs arithmetic
about where a chunk ends, in `CompleteHolds` and its neighbours.

### Crossbar

`CrossbarProofs`, for any set of endpoints in use, packet size, number and depth of FIFOs, traffic and
resets, under `CrossbarAssumption`:

* `InvHolds`: `Spec => []IInv`
* `TypeCorrect`: `Spec => []TypeOK`
* `LevelsExact`: `Spec => []LevelExact`
* `ZlpsAfterFull`: `Spec => []ZlpAfterFull`
* `BytesConserved`: `Spec => []Conserved`

A strobe meets the FX2 a cycle after the FSM has given it, and the flag that allowed it is older still.
`IInv` says why that does no harm. `BusFits`: strobes come only in the states that give them, and meet the
endpoint they are meant for; a write and a packet end never come together. `RoomFits`: the flag of
an IN endpoint is true unless `nrdy_o` hides it, and the endpoint that the FSM writes to has room. `LevelFits`: the level
counter is the length of the packet after the write on the pins. `SkidFits`: what is in a skid buffer and
what the strobes under way may bring is at most two bytes; this is where `SkidDepth >= 2` is needed (the
source has 3). `PendFits`: when the packet is empty and `pending` is set, the one before was full.
`ResetQuiet` and `Purged` follow an endpoint through its reset: a cycle after the reset is set, its
counter and its input are quiet, a cycle later no strobe for it is on the pins, which is why purging its
FIFO loses nothing that counts afterwards, and why `Settle >= 2` is needed. `FlowFits` is `Conserved` with
the bytes written as a run from `got` to `sent`; its proof for a cycle (`TickArrives`, `FlowOut`, `FlowIn`)
splits the run at the pins. There is a lemma per part of `IInv` for `Tick`, where all registers change
at once (`TickLevel`, `TickSkid`, ...), and one per action for the rest (`DrainKeeps`, `ResetFifoKeeps`, ...).

`FlattenSeq` is the bytes of the packets in a FIFO; `FlattenAppend` of `Totals` and `FlattenHead` say what
adding and taking a packet do to it.

### COBS

`CobsProofs`, for every width of a byte, every memory deeper than a group, and any data
(`CobsAssumption`):

* `RegistersFit`: `Spec => []TypeOK`
* `StagingIsSafe`: `Spec => []StagedFits`
* `TokensReturn`: `Spec => []RoundTrip`
* `NeverInError`: `Spec => [](decoder # "Error")`

`IInv` adds to the two that `count` has not passed `offset` while the decoder is in a group
(`GroupFits`), without which `count` could overflow. Addresses wrap around, so that the argument is
about `Level`, the bytes that wait to be read: `full` compares two addresses, and `RoomUnlessFull`
says that they differ only if `Level + staged` is below the depth; `LevelRises` and `LevelFalls` say
what moving an end does to it. The encoder's step and the read port's are separate lemmas
(`EncodeEncodes`, `ReadFollows`), since both ends move in one cycle. That the depth is a power of two,
which the source demands, is not needed.

`RoundTrip` says what the decoder puts out now, and is not inductive: the meaning of a byte in the
memory depends on the group it is in, and that of the first bytes on the state the decoder is in.
`ParseFits` looks ahead. A place is a state of the decoder between two bytes, with the number of
tokens in flight it has put out by then. `Parses` says that a function from positions to
places is how the decoder gets through a number of bytes, and what tokens of `inflight` it
makes of them; `ParseFits` that there is one, that it begins with the present state of the decoder,
gets through all committed bytes, and ends where the group that is staged goes on (`Stages`): with the
tokens of that group, the NUL that a group which is not full stands for, or the end of the packet.
The encoder's step (`EncodeParses`) makes that function longer by a group or a terminator
(`ParseGroup`, `ParseGrows`), and what it writes beyond the committed bytes disturbs none of them
(`WriteGrows`). The decoder's step (`DecoderParses`) takes its first place and its first
token away (`ParseMoves`). Both happen in one cycle, and with the addresses going round; `Ring` is the
memory as seen from the read end, and `CycleParses` puts the halves together. An "Error" would be a
place that `Parses` does not have.

### Sums and sequences

The library's induction theorems take a predicate, which the prover cannot instantiate. Where a
property is about a sum or about the packets of a sequence, the induction is over the set of numbers
that have the property: `NaturalInduction` and `LeastNatural` of `Totals` follow from the library's
theorem that `<` is well-founded on `Nat`. `Total`, the sum over a finite set of tasks, is
`MapThenSumSet`, which chooses an element at a time; `Totals` proves that the choice does not matter.

`FlattenSeq`, the concatenation of a sequence of sequences, is defined by recursion. `Flats` is its
graph on prefixes; `FlatsExist` and `FlatsAgree` prove, by induction over the length, that it exists
and is unique. `Lists(s, B)` says that `s` is the members of `B` in ascending order: `ListsUnique`,
that there is one such sequence at most; `ListsConcat` and `FlattenLists`, that sequences which list
parts of `B` one behind the other list it together; `RunsLists`, the same for the runs of bytes that
tasks carry; `ListsCut`, that a number cuts such a sequence in two; `ListsAbove`, that the part of
`B` above a number is a suffix; `ListsGap`, what is left when the numbers of an interval leave `B`.
`SortedExists` and `SortedAll` are about sorting a finite set by a number that each member has, as
both mappings do.

### Model-checked only

Every safety property of every run that passes, and both refinements, have a theorem. Liveness under
fairness is out of the prover's reach: `CallsReturn`, `EverythingArrives` and `PacketsArrive` are
checked by TLC on small instances only, as are the counterexamples of the runs that expect one.

## Plan

In this order; the most important behaviour comes first.

1. `TaskQueue`, `Transfers`, `OutPipe`, `InPipe` and the proofs of the OUT pipe (done).
2. `Endpoint`: `ServerEndpoint` with overlapping connections, pushback, failures, and the cancelled
   `recv_wait()` of the GDB server, with the proof that no reply goes astray (done).
3. `ByteStream`, refined by `OutPipe` and by `InPipe` (done).
4. `Firmware` and `Session`: setup interrupt against main loop, host processes that are killed,
   EEPROM and power cycle, with their proofs (done).
5. `Crossbar`: arbitration, packet ends, flag latency, reset, with their proofs (done).
6. Proofs: order, flush, reset and inflight count of `OutPipe`, the safety of `InPipe`, streams and
   pushback of `Endpoint`, safety of `Crossbar`, round trip of `Cobs`, and
   the refinements of `ByteStream` (done).
7. `Cobs` (done).
8. Left out: `Assembly`, the start, stop and detach of several pipes with failures half-way, voltages
   and alerts; `IOStream` and its skid buffer. `PacketQueue` is used by no applet.

## Hazards without a property

* `task_queue.py:57`, `cancel()` re-raises old errors, and `_stop()` leaves half-way: modelled
  (`EndCancel`), so that every safety property covers what follows; that the pipe can still be used
  is not claimed, since it cannot.
* `assembly.py:223`, `recv_until()` loses what it has collected when a wait raises: visible in the
  model, and nothing the code could keep.
* `endpoint.py:188`, separators stay in the count of queued bytes: no application both limits the
  queue and calls `recv_until()`; one that did would violate `NoStall`.
* `endpoint.py:103`, two connections in one turn of the loop: outside the assumption above.
* `assembly.py:816`, one pipe that fails to stop leaves the others running: Session has one pipe.
* `main.c:587`, a data stage without a timeout: the model does it, and the code does not prevent it.
  The first request of a process may go unanswered, and stale data be set as a voltage; `NoHang` and
  `PortsOff` claim that nothing worse follows.

Some properties cover a hazard in part: `FlushDelivers` says that the bytes are waited for, not that
the error comes to the caller of `flush()`; `StreamOrder` of Endpoint exempts the item that a
cancelled `recv_wait()` takes along, and `WaiterWoken` claims that the next wait does not hang for
it.

## Not modelled

The parts listed with status `not_modelled` in `PROJECT.json`: the WebUSB backend, whose interface
calls suspend where libusb1's do not; bus cores; the build plan and toolchain (files and processes,
no state of their own); simulation and legacy adapters; parsers; databases; the applets, each a
program of its own.

Of the modelled parts, these are left out. Pipes: statistics, logging, timing of waits, `writable`
and `readable` (reads of modelled state), `detach()`, Windows restrictions, and memory consumption
of `_done` when nobody polls. Endpoint: `attach_to_pipe()`, the deprecated cancel-on-EOF exception
and `ClientEndpoint`. Session: `download_prebuilt()`, which only warns when the file holds the
bitstream of another build than the one whose identifier it then sets (device.py:414-420); EEPROM,
sense, alert, limit, pull and status requests; the DAC and ADC drivers; descriptors; more than one
pipe. Crossbar: SLOE and the direction of the data bus; endpoints without a Queue. Streams:
`PacketQueue`, `AsyncQueue`, `IOStreamer`, the analyzer. Firmware: the `ST_ERROR` latch; the I2C
transfer that `SET_INTERFACE` makes in the interrupt handler may fall into one of the main loop
(main.c:420); what two such transfers do to each other is decided by the driver, which is not in the
repository.
