-------------------------------- MODULE OutPipe --------------------------------
(***************************************************************************)
(* HardwareOutPipe (hardware/assembly.py): the host side of an OUT pipe.   *)
(*                                                                         *)
(* Bytes are numbered in the order in which the application sends them.    *)
(* The ChunkedFIFO `_out_buffer` holds the bytes in pos+1 .. wtotal; the   *)
(* set `ends` holds the last byte of each of its chunks.  A task carries   *)
(* the bytes in from+1 .. to.  `urbs` is the host controller's queue of    *)
(* the endpoint, and bytes up to `taken` have left it for the device.      *)
(* `refused` is history: the bytes of transfers that were never submitted. *)
(***************************************************************************)
EXTENDS FiniteSetsExt, Transfers

CONSTANTS PacketSize,      \* _out_packet_size
          PacketsPerXfer,  \* _packets_per_xfer
          XfersPerQueue,   \* _xfers_per_queue
          BufferSize,      \* _out_buffer_size, or 0 for None
          ChunkSizes,      \* lengths of the data passed to send()
          MaxBytes,        \* bound: bytes sent in a behaviour
          MaxFailures,     \* bound: USB transfers that fail, or cannot be submitted
          MaxResets        \* bound: calls of reset()

ASSUME OutPipeAssumption ==
    /\ PacketSize \in Nat \ {0} /\ PacketsPerXfer \in Nat \ {0}
    /\ XfersPerQueue \in Nat \ {0} /\ BufferSize \in Nat
    /\ ChunkSizes \subseteq Nat \ {0}
    /\ MaxBytes \in Nat /\ MaxFailures \in Nat /\ MaxResets \in Nat

VARIABLES arg,        \* argument of each caller's operation
          mark,       \* bytes sent when each caller called flush()
          inflight,   \* _out_inflight
          pos, ends, wtotal,
          taken,
          refused,
          failures, resets

queueVars == <<live, done, waitFor>>
pipeVars  == <<tasks, inflight, pos, ends, wtotal>>
usbVars   == <<urbs, taken, refused, failures>>
restVars  == <<inflight, pos, ends, wtotal, taken, refused, failures, arg, mark, resets>>
outside   == <<pipeVars, usbVars, resets>>
vars == <<ready, running, pc, queueVars, outside, arg, mark>>

Least(a, b) == IF a <= b THEN a ELSE b

Size(t) == tasks[t].to - tasks[t].from

SumOver(S) == MapThenSumSet(Size, S)

Init ==
    /\ ready = <<>> /\ running = NoCaller
    /\ pc = [c \in Callers |-> "idle"]
    /\ live = {} /\ done = <<>>
    /\ waitFor = [c \in Callers |-> {}]
    /\ arg = [c \in Callers |-> 0] /\ mark = [c \in Callers |-> 0]
    /\ tasks = <<>> /\ inflight = 0
    /\ pos = 0 /\ ends = {} /\ wtotal = 0
    /\ urbs = <<>> /\ taken = 0 /\ refused = {}
    /\ failures = 0 /\ resets = 0

--------------------------------------------------------------------------------
(* The buffer *)

BufferLen == wtotal - pos
XferSize  == PacketSize * PacketsPerXfer
Bounded   == BufferSize # 0
Threshold == IF Bounded THEN Least(BufferSize, XferSize) ELSE XferSize

FirstChunkEnd == CHOOSE e \in ends : \A f \in ends : e <= f

(* Where the data that _out_slice() takes ends: the rest of the first      *)
(* chunk, up to a transfer; if that is less than a packet, as much of the  *)
(* buffer as makes up a packet.                                            *)
SliceEnd ==
    LET fast == Least(FirstChunkEnd, pos + XferSize)
    IN  IF fast - pos >= PacketSize THEN fast ELSE Least(wtotal, pos + PacketSize)

SubmitPeeked(b, ts, acked, queue) ==
    /\ tasks' = Append(ts, Task(pos, b))
    /\ inflight' = (inflight - acked) + (b - pos)
    /\ live' = live \cup {Len(ts) + 1}
    /\ ready' = queue
    /\ UNCHANGED <<pos, ends>>

(* `self._out_tasks.submit(self._out_task(data))`, data being the buffer   *)
(* up to byte b; `acked` bytes leave the inflight count in the same step.  *)
Submit(b, ts, acked, queue) ==
    /\ tasks' = Append(ts, Task(pos, b))
    /\ inflight' = (inflight - acked) + (b - pos)
    /\ pos' = b
    /\ ends' = {e \in ends : e > b}
    /\ live' = live \cup {Len(ts) + 1}
    /\ ready' = queue

--------------------------------------------------------------------------------
(* The application's calls, made while it has the event loop to itself *)

Yields(c) ==
    /\ Yield(c)
    /\ arg' = [arg EXCEPT ![c] = 0] /\ mark' = [mark EXCEPT ![c] = 0]
    /\ UNCHANGED outside

CallSend(c) ==
    /\ Calls(c, "send")
    /\ \E n \in ChunkSizes : /\ wtotal + n <= MaxBytes
                             /\ arg' = [arg EXCEPT ![c] = n]
    /\ UNCHANGED <<ready, running, queueVars, outside, mark>>

(* arg is 1 for flush() and 0 for flush(_wait=False). *)
CallFlush(c) ==
    /\ Calls(c, "flush")
    /\ \E wait \in {0, 1} : arg' = [arg EXCEPT ![c] = wait]
    /\ mark' = [mark EXCEPT ![c] = wtotal]
    /\ UNCHANGED <<ready, running, queueVars, outside>>

--------------------------------------------------------------------------------
(* send() *)

PushbackLate == Bounded /\ inflight + BufferLen > BufferSize

Pushback == Bounded /\ inflight + BufferLen >= BufferSize

SendWait(c) ==
    /\ running = c /\ pc[c] = "send"
    /\ Pushback
    /\ WaitOne(c)
    /\ UNCHANGED <<live, outside, arg, mark>>

SendWrite(c) ==
    /\ running = c /\ pc[c] = "send"
    /\ ~Pushback
    /\ done' = PollRest(Bad)
    /\ IF PollRaises(Bad)
       THEN /\ pc' = [pc EXCEPT ![c] = "run"]
            /\ UNCHANGED <<ends, wtotal>>
       ELSE /\ pc' = [pc EXCEPT ![c] = "submit"]
            /\ wtotal' = wtotal + arg[c]
            /\ ends' = ends \cup {wtotal + arg[c]}
    /\ UNCHANGED <<ready, running, live, waitFor, tasks, inflight, pos, usbVars,
                   arg, mark, resets>>

MaySubmitOneMore == QueueLen <= XfersPerQueue /\ BufferLen >= Threshold

MaySubmit == QueueLen < XfersPerQueue /\ BufferLen >= Threshold

SendSubmit(c) ==
    /\ running = c /\ pc[c] = "submit"
    /\ MaySubmit
    /\ Submit(SliceEnd, tasks, 0, Append(ready, StartHandle(Len(tasks) + 1)))
    /\ UNCHANGED <<running, pc, done, waitFor, wtotal, usbVars, arg, mark, resets>>

SendReturn(c) ==
    /\ running = c /\ pc[c] = "submit"
    /\ ~MaySubmit
    /\ pc' = [pc EXCEPT ![c] = "run"]
    /\ UNCHANGED <<ready, running, queueVars, outside, arg, mark>>

--------------------------------------------------------------------------------
(* flush() *)

FlushWait(c) ==
    /\ running = c /\ pc[c] = "flush"
    /\ QueueLen >= XfersPerQueue
    /\ WaitOne(c)
    /\ UNCHANGED <<live, outside, arg, mark>>

(* The code's `assert len(self._out_buffer) <= ...`; a false one raises. *)
FlushFits == BufferLen <= XferSize

FlushSubmit(c) ==
    /\ running = c /\ pc[c] = "flush"
    /\ QueueLen < XfersPerQueue
    /\ pc' = [pc EXCEPT ![c] = IF FlushFits /\ arg[c] = 1 THEN "drain" ELSE "run"]
    /\ IF FlushFits /\ BufferLen > 0
       THEN Submit(wtotal, tasks, 0, Append(ready, StartHandle(Len(tasks) + 1)))
       ELSE UNCHANGED <<tasks, inflight, pos, ends, live, ready>>
    /\ UNCHANGED <<running, done, waitFor, wtotal, usbVars, arg, mark, resets>>

(* `while self._out_tasks: await self._out_tasks.wait_all()` *)
FlushDrain(c) ==
    /\ running = c /\ pc[c] = "drain"
    /\ QueueBool
    /\ IF live # {} THEN AsyncioWait(c, Over, ready) /\ UNCHANGED <<pc, done>>
                    ELSE Poll(c) /\ UNCHANGED <<ready, running, waitFor>>
    /\ UNCHANGED <<live, outside, arg, mark>>

FlushReturn(c) ==
    /\ running = c /\ pc[c] = "drain"
    /\ ~QueueBool
    /\ pc' = [pc EXCEPT ![c] = "run"]
    /\ UNCHANGED <<ready, running, queueVars, outside, arg, mark>>

--------------------------------------------------------------------------------
(* reset(): _stop() and _start() *)

CallReset(c) ==
    /\ resets < MaxResets
    /\ CancelQueue(c)
    /\ resets' = resets + 1
    /\ UNCHANGED <<inflight, pos, ends, wtotal, taken, refused, failures, arg, mark>>

ClearCurrentChunk == pos' = wtotal /\ UNCHANGED ends

Clear == pos' = wtotal /\ ends' = {}

(* Everything has been cancelled.  The first exception is raised, with the *)
(* pipe still running and its buffer untouched; if there was none, the     *)
(* buffer is cleared and the interface deselected and selected again.      *)
EndCancel(c) ==
    /\ running = c /\ pc[c] = "cancel"
    /\ done' = <<>>
    /\ pc' = [pc EXCEPT ![c] = "run"]
    /\ IF \E i \in DOMAIN done : done[i] \in Failed
       THEN /\ taken' = pos
            /\ UNCHANGED <<pos, ends>>
       ELSE Clear /\ taken' = wtotal
    /\ UNCHANGED <<ready, running, live, waitFor, tasks, inflight, wtotal, urbs, refused,
                   failures, arg, mark, resets>>

--------------------------------------------------------------------------------
(* The tasks, run by the event loop *)

(* Cancelled before its first step, the coroutine never enters `try`. *)
TaskStart ==
    /\ Turn("start")
    /\ LET t == Head(ready).task
       IN  IF tasks[t].mustCancel
           THEN /\ SetTask(t, Ended("cancelled"))
                /\ ready' = Append(Tail(ready), CallbackHandle(t))
                /\ UNCHANGED urbs
           ELSE /\ SetTask(t, [tasks[t] EXCEPT !.state = "inflight", !.urb = "submitted"])
                /\ ready' = Tail(ready)
                /\ urbs' = Append(urbs, t)
    /\ UNCHANGED <<running, pc, live, done, waitFor, inflight, pos, ends, wtotal, taken,
                   refused, failures, arg, mark, resets>>

(* transfer.submit() raises, for want of usbfs memory or of the device: the *)
(* task ends at its first step, and its data with it, although transfers    *)
(* may be queued before and behind it.                                      *)
TaskRefused ==
    /\ Turn("start")
    /\ failures < MaxFailures
    /\ LET t == Head(ready).task
       IN  /\ ~tasks[t].mustCancel
           /\ SetTask(t, Ended("error"))
           /\ ready' = Append(Tail(ready), CallbackHandle(t))
           /\ inflight' = inflight - Size(t)
           /\ refused' = refused \cup (tasks[t].from + 1)..tasks[t].to
    /\ failures' = failures + 1
    /\ UNCHANGED <<running, pc, live, done, waitFor, pos, ends, wtotal, urbs, taken,
                   arg, mark, resets>>

AckedIfOk(t) == IF Outcome(t) = "ok" THEN Size(t) ELSE 0

(* What leaves the inflight count in the `finally` of the task. *)
Acked(t) == Size(t)

(* A task that is resumed ends, unless it still has a transfer to cancel.  *)
(* One that ends well submits a successor if there is data for it: this    *)
(* happens before its own done callback is scheduled.                      *)
TaskWake ==
    /\ Turn("wake")
    /\ LET t == Head(ready).task
           ended == [tasks EXCEPT ![t] = Ended(Outcome(t))]
       IN  IF HasToCancel(t)
           THEN /\ SetTask(t, [tasks[t] EXCEPT !.state = "cancelling"])
                /\ ready' = Tail(ready)
                /\ UNCHANGED <<inflight, pos, ends, live>>
           ELSE IF Outcome(t) = "ok" /\ BufferLen >= Threshold
           THEN Submit(SliceEnd, ended, Acked(t),
                       Tail(ready) \o <<StartHandle(Len(tasks) + 1), CallbackHandle(t)>>)
           ELSE /\ tasks' = ended
                /\ inflight' = inflight - Acked(t)
                /\ ready' = Append(Tail(ready), CallbackHandle(t))
                /\ UNCHANGED <<pos, ends, live>>
    /\ UNCHANGED <<running, pc, done, waitFor, wtotal, usbVars, arg, mark, resets>>

LoopCallback ==
    \/ (TaskCallback \/ LateCompleted) /\ UNCHANGED <<tasks, urbs, restVars>>
    \/ TransferCallback /\ UNCHANGED restVars

--------------------------------------------------------------------------------
(* The host controller and libusb, which run beside the event loop *)

(* The controller executes the transfers of an endpoint in order. *)
UsbComplete ==
    /\ CanComplete
    /\ \E result \in {"ok", "error"} :
         /\ result = "error" => failures < MaxFailures
         /\ failures' = IF result = "error" THEN failures + 1 ELSE failures
         /\ SetTask(Head(urbs), [tasks[Head(urbs)] EXCEPT !.urb = result])
    /\ ready' = Append(ready, Handle("usb", Head(urbs), {}))
    /\ taken' = tasks[Head(urbs)].to
    /\ urbs' = Tail(urbs)
    /\ UNCHANGED <<running, pc, live, done, waitFor, inflight, pos, ends, wtotal, refused,
                   arg, mark, resets>>

--------------------------------------------------------------------------------
CallerStep(c) ==
    \/ Resume(c) /\ UNCHANGED restVars
    \/ Yields(c)
    \/ CallSend(c) \/ SendWait(c) \/ SendWrite(c) \/ SendSubmit(c) \/ SendReturn(c)
    \/ CallFlush(c) \/ FlushWait(c) \/ FlushSubmit(c) \/ FlushDrain(c) \/ FlushReturn(c)
    \/ CallReset(c) \/ EndCancel(c)

LoopStep == TaskStart \/ TaskRefused \/ TaskWake \/ LoopCallback

UsbStep == UsbComplete \/ (UsbCancelled /\ UNCHANGED restVars)

Next ==
    \/ \E c \in Callers : CallerWakes(c) /\ UNCHANGED <<outside, arg, mark>>
    \/ \E c \in Callers : CallerStep(c)
    \/ LoopStep
    \/ UsbStep

Spec == Init /\ [][Next]_vars

(* The event loop runs, the device takes its data, a caller is not held up *)
(* inside the pipe, and one that executes awaits something sooner or later *)
(* (asyncio is cooperative: one that does not would stop everything).      *)
Fairness ==
    /\ WF_vars(LoopStep) /\ WF_vars(UsbStep)
    /\ \A c \in Callers : WF_vars(CallerStep(c)) /\ SF_vars(Yields(c))

FairSpec == Spec /\ Fairness

--------------------------------------------------------------------------------
(* Properties *)

TypeOK ==
    /\ running \in Callers \cup {NoCaller}
    /\ pc \in [Callers -> {"idle", "called", "run", "send", "submit", "flush", "drain",
                           "cancel"}]
    /\ ready \in Seq(Handles)
    /\ live \subseteq TaskIds /\ done \in Seq(TaskIds)
    /\ waitFor \in [Callers -> SUBSET (TaskIds \cup {Late})]
    /\ arg \in [Callers -> Nat] /\ mark \in [Callers -> Nat]
    /\ tasks \in Seq(TaskRecords)
    /\ inflight \in Int /\ pos \in Nat /\ wtotal \in Nat /\ ends \subseteq (pos + 1)..wtotal
    /\ urbs \in Seq(TaskIds) /\ taken \in Nat /\ refused \subseteq Nat
    /\ failures \in Nat /\ resets \in Nat

(* The usbfs limit that the comment on _max_packets_per_ep describes: never *)
(* more than XfersPerQueue transfers at once, none longer than a transfer,  *)
(* although a task submits its successor while it is still in the queue.    *)
UsbMemoryBound ==
    /\ Cardinality(Unfinished) <= XfersPerQueue
    /\ \A t \in Unfinished : Size(t) \in 1..XferSize

Pending == {t \in TaskIds : tasks[t].state = "created" \/ \E i \in DOMAIN urbs : urbs[i] = t}

(* No byte is repeated or overtaken on its way to the controller, and none   *)
(* is lost but with a transfer that could not be submitted: what send() let  *)
(* out of the buffer and the device has not taken is in the transfers still  *)
(* to be executed, in their order, each of them ahead of the buffer.  (While *)
(* reset() cancels transfers, this is off.)                                  *)
InOrder ==
    (\A c \in Callers : pc[c] # "cancel") =>
        /\ \A i, j \in DOMAIN urbs : i < j => urbs[i] < urbs[j]
        /\ \A i \in DOMAIN urbs, t \in TaskIds : tasks[t].state = "created" => urbs[i] < t
        /\ \A t, u \in Pending : t < u => tasks[t].to <= tasks[u].from
        /\ \A t \in Pending : taken <= tasks[t].from /\ tasks[t].to <= pos
        /\ \A n \in (taken + 1)..pos :
              n \in refused \/ \E t \in Pending : n \in (tasks[t].from + 1)..tasks[t].to

(* What the comment in send() promises of a bounded pipe: buffered data and *)
(* requests in flight stay below the limit plus the data of one call, also  *)
(* when several callers wait for room at once.                              *)
MemoryBound ==
    Bounded => \A n \in ChunkSizes : (\A m \in ChunkSizes : m <= n)
                   => inflight + BufferLen < BufferSize + n

(* _out_inflight never says less than what the transfers hold, and exactly  *)
(* that as long as there was no reset().                                    *)
InflightCovers ==
    LET held == SumOver(Unfinished)
    IN  inflight >= held /\ (resets = 0 => inflight = held)

(* A flush() that returns has waited until the device took every byte sent  *)
(* before it was called, but for those of a transfer that failed, or that   *)
(* could not be submitted.  (A poll() has raised its error: that of this    *)
(* flush(), or of an earlier call.)                                         *)
FlushDelivers ==
    [][\A c \in Callers : FlushReturn(c) => (taken + 1)..mark[c] \subseteq refused]_vars

(* When reset() clears the buffer and reselects the interface, no transfer  *)
(* with older data is left that could reach the device afterwards.          *)
ResetQuiesces ==
    [][\A c \in Callers : EndCancel(c) => urbs = <<>> /\ Unfinished = {}]_vars

(* Every call of flush() and every send() held back by a full buffer ends.  *)
CallsReturn ==
    \A c \in Callers : pc[c] \in {"send", "flush", "drain", "cancel"} ~> pc[c] = "run"

(* The assertion in flush(). *)
FlushAssertion ==
    \A c \in Callers :
        running = c /\ pc[c] = "flush" /\ QueueLen < XfersPerQueue => FlushFits

(* "the combined size of said buffer and all inflight requests": a send()   *)
(* is held back only by bytes that a request really holds.                  *)
InflightExact == running = NoCaller => inflight = SumOver(Unfinished)

(* "_slice_packet always returns `_out_packet_size * n` bytes": what is     *)
(* submitted automatically is made of whole packets.                        *)
WholePackets ==
    \A c \in Callers :
        running = c /\ pc[c] = "submit" /\ MaySubmit => (SliceEnd - pos) % PacketSize = 0

================================================================================
