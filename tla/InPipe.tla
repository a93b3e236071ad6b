--------------------------------- MODULE InPipe --------------------------------
(***************************************************************************)
(* HardwareInPipe (hardware/assembly.py): the host side of an IN pipe.     *)
(*                                                                         *)
(* Bytes are numbered in the order in which the device produces them.      *)
(* `buffer` is the content of the ChunkedFIFO `_in_buffer`.  A task whose  *)
(* transfer has completed carries the bytes in from+1 .. to.               *)
(***************************************************************************)
EXTENDS FiniteSetsExt, Transfers

CONSTANTS XferSize,        \* _in_packet_size * _packets_per_xfer
          XfersPerQueue,   \* _xfers_per_queue
          BufferSize,      \* _in_buffer_size
          Bounded,         \* TRUE unless _in_buffer_size is None
          RecvSizes,       \* lengths passed to recv()
          Delimiters,      \* the bytes that recv_until() looks for
          MaxBytes,        \* bound: bytes the device produces
          MaxTransfers,    \* bound: USB transfers that complete
          MaxFailures,     \* bound: USB transfers that fail, or cannot be submitted
          MaxResets        \* bound: calls of reset()

ASSUME InPipeAssumption ==
    /\ XferSize \in Nat \ {0} /\ XfersPerQueue \in Nat \ {0}
    /\ BufferSize \in Nat /\ Bounded \in BOOLEAN
    /\ RecvSizes \subseteq Nat \ {0} /\ Delimiters \subseteq Nat
    /\ MaxBytes \in Nat /\ MaxTransfers \in Nat /\ MaxFailures \in Nat /\ MaxResets \in Nat

VARIABLES buffer,     \* _in_buffer
          waiters,    \* tasks waiting on _in_pushback, oldest first
          arg,        \* argument of each caller's operation
          result,     \* what a caller's recv_until() has collected
          shared,     \* history: callers whose recv_until() others read in between
          produced,   \* bytes the device has produced
          taken,      \* bytes up to this were read, or dropped by reset()
          transfers, failures, resets

pipeVars == <<buffer, waiters, taken>>
usbVars  == <<produced, transfers, failures>>
callVars == <<arg, result, shared, resets>>
vars == <<ready, running, pc, live, done, waitFor, tasks, urbs, pipeVars, usbVars, callVars>>

(* The tasks that _start() submits behind the `first` ones. *)
StartTasks(first) ==
    /\ tasks' = [t \in 1..(first + XfersPerQueue) |-> IF t <= first THEN tasks[t] ELSE Task(0, 0)]
    /\ live' = (first + 1)..(first + XfersPerQueue)
    /\ ready' = ready \o [i \in 1..XfersPerQueue |-> StartHandle(first + i)]

Init ==
    /\ tasks = [t \in 1..XfersPerQueue |-> Task(0, 0)]
    /\ live = 1..XfersPerQueue
    /\ ready = [i \in 1..XfersPerQueue |-> StartHandle(i)]
    /\ running = NoCaller /\ done = <<>> /\ urbs = <<>>
    /\ pc = [c \in Callers |-> "idle"]
    /\ waitFor = [c \in Callers |-> {}]
    /\ arg = [c \in Callers |-> 0] /\ result = [c \in Callers |-> <<>>]
    /\ shared = {}
    /\ buffer = <<>> /\ waiters = <<>> /\ taken = 0
    /\ produced = 0 /\ transfers = 0 /\ failures = 0 /\ resets = 0

--------------------------------------------------------------------------------
(* recv() and recv_until() *)

Yields(c) ==
    /\ Yield(c)
    /\ arg' = [arg EXCEPT ![c] = 0] /\ result' = [result EXCEPT ![c] = <<>>]
    /\ shared' = shared \ {c}
    /\ UNCHANGED <<tasks, urbs, pipeVars, usbVars, resets>>

CallRecv(c) ==
    /\ Calls(c, "recv")
    /\ \E n \in RecvSizes : arg' = [arg EXCEPT ![c] = n]
    /\ UNCHANGED <<ready, running, live, done, waitFor, tasks, urbs, pipeVars, usbVars,
                   result, shared, resets>>

CallRecvUntil(c) ==
    /\ Calls(c, "until")
    /\ result' = [result EXCEPT ![c] = <<>>]
    /\ shared' = shared \ {c}
    /\ UNCHANGED <<ready, running, live, done, waitFor, tasks, urbs, pipeVars, usbVars,
                   arg, resets>>

(* What a caller needs in the buffer before it can go on. *)
Need(c) == IF pc[c] = "recv" THEN arg[c] ELSE 1

Short(c) == Len(buffer) < Need(c)

(* `assert self._in_tasks`, and wait_one(). *)
RecvWait(c) ==
    /\ running = c /\ pc[c] \in {"recv", "until"}
    /\ Short(c)
    /\ IF QueueBool THEN WaitOne(c)
       ELSE /\ pc' = [pc EXCEPT ![c] = "run"]
            /\ UNCHANGED <<ready, running, done, waitFor>>
    /\ UNCHANGED <<live, tasks, urbs, pipeVars, usbVars, callVars>>

ReadSilently(c, n) ==
    /\ buffer' = SubSeq(buffer, n + 1, Len(buffer))
    /\ taken' = buffer[n]
    /\ UNCHANGED <<tasks, ready, waiters>>
    /\ shared' = shared \cup {d \in Callers \ {c} : pc[d] = "until" /\ result[d] # <<>>}

(* Caller c removes the first n bytes from the buffer; notify_all(). *)
Read(c, n) ==
    /\ buffer' = SubSeq(buffer, n + 1, Len(buffer))
    /\ taken' = buffer[n]
    /\ tasks' = [t \in TaskIds |-> IF \E i \in DOMAIN waiters : waiters[i] = t
                                   THEN [tasks[t] EXCEPT !.state = "notified"] ELSE tasks[t]]
    /\ ready' = ready \o [i \in DOMAIN waiters |-> WakeHandle(waiters[i])]
    /\ waiters' = <<>>
    /\ shared' = shared \cup {d \in Callers \ {c} : pc[d] = "until" /\ result[d] # <<>>}

RecvRead(c) ==
    /\ running = c /\ pc[c] = "recv"
    /\ Len(buffer) >= arg[c]
    /\ Read(c, arg[c])
    /\ result' = [result EXCEPT ![c] = SubSeq(buffer, 1, arg[c])]
    /\ pc' = [pc EXCEPT ![c] = "run"]
    /\ UNCHANGED <<running, live, done, waitFor, urbs, usbVars, arg, resets>>

Hits == {i \in DOMAIN buffer : buffer[i] \in Delimiters}

UntilLast == IF Hits = {} THEN Len(buffer) ELSE Max(Hits)

UntilFirst == IF Hits = {} THEN Len(buffer) ELSE Min(Hits)

(* recv_until() takes the bytes up to a delimiter, or all there are: it    *)
(* does not suspend between the chunks of the buffer.                      *)
RecvUntilRead(c) ==
    /\ running = c /\ pc[c] = "until"
    /\ buffer # <<>>
    /\ Read(c, UntilFirst)
    /\ result' = [result EXCEPT ![c] = @ \o SubSeq(buffer, 1, UntilFirst)]
    /\ pc' = IF Hits = {} THEN pc ELSE [pc EXCEPT ![c] = "run"]
    /\ UNCHANGED <<running, live, done, waitFor, urbs, usbVars, arg, resets>>

--------------------------------------------------------------------------------
(* reset() *)

CallReset(c) ==
    /\ resets < MaxResets
    /\ CancelQueue(c)
    /\ resets' = resets + 1
    /\ waiters' = <<>>
    /\ UNCHANGED <<buffer, taken, usbVars, arg, result, shared>>

KeepBuffer == UNCHANGED buffer /\ taken' = produced

Clear == buffer' = <<>> /\ taken' = produced

(* Everything has been cancelled.  The first exception is raised, with the *)
(* pipe still running but without tasks; if there was none, the buffer is  *)
(* cleared, the interface reselected and a full set of tasks submitted.    *)
EndCancel(c) ==
    /\ running = c /\ pc[c] = "cancel"
    /\ done' = <<>>
    /\ pc' = [pc EXCEPT ![c] = "run"]
    /\ IF \E i \in DOMAIN done : done[i] \in Failed
       THEN UNCHANGED <<tasks, live, ready, buffer, taken>>
       ELSE StartTasks(Len(tasks)) /\ Clear
    /\ UNCHANGED <<running, waitFor, urbs, waiters, usbVars, callVars>>

--------------------------------------------------------------------------------
(* The tasks, run by the event loop *)

FullLate == Bounded /\ Len(buffer) > BufferSize + 1

Full == Bounded /\ Len(buffer) > BufferSize

(* The task waits on the condition, or submits its transfer. *)
Proceed(t) ==
    /\ ready' = Tail(ready)
    /\ IF Full
       THEN /\ SetTask(t, [tasks[t] EXCEPT !.state = "waiting"])
            /\ waiters' = Append(waiters, t)
            /\ UNCHANGED urbs
       ELSE /\ SetTask(t, [tasks[t] EXCEPT !.state = "inflight", !.urb = "submitted"])
            /\ urbs' = Append(urbs, t)
            /\ UNCHANGED waiters
    /\ UNCHANGED <<live, buffer>>

End(t) ==
    /\ SetTask(t, Ended(Outcome(t)))
    /\ ready' = Append(Tail(ready), CallbackHandle(t))
    /\ UNCHANGED <<urbs, waiters, live, buffer>>

Stored(t) == tasks[t].to - tasks[t].from

BytesOffByOne(t) == [i \in 1..Stored(t) |-> tasks[t].from + i + 1]

BytesIfRoom(t) == IF Full THEN <<>> ELSE [i \in 1..Stored(t) |-> tasks[t].from + i]

Bytes(t) == [i \in 1..Stored(t) |-> tasks[t].from + i]

(* The data goes to the buffer and the task submits its successor. *)
Store(t) ==
    /\ buffer' = buffer \o Bytes(t)
    /\ tasks' = Append([tasks EXCEPT ![t] = Ended("ok")], Task(0, 0))
    /\ live' = live \cup {Len(tasks) + 1}
    /\ ready' = Tail(ready) \o <<StartHandle(Len(tasks) + 1), CallbackHandle(t)>>
    /\ UNCHANGED <<urbs, waiters>>

(* transfer.submit() raises, for want of usbfs memory or of the device: *)
(* the task ends, and without a successor.                              *)
TaskRefused ==
    /\ failures < MaxFailures /\ ~Full
    /\ LET t == Head(ready).task
       IN  /\ Turn("start") \/ (Turn("wake") /\ tasks[t].state = "notified")
           /\ ~tasks[t].mustCancel
           /\ SetTask(t, Ended("error"))
           /\ ready' = Append(Tail(ready), CallbackHandle(t))
    /\ failures' = failures + 1
    /\ UNCHANGED <<running, pc, live, done, waitFor, urbs, pipeVars, produced, transfers,
                   callVars>>

TaskStart ==
    /\ Turn("start")
    /\ LET t == Head(ready).task IN IF tasks[t].mustCancel THEN End(t) ELSE Proceed(t)
    /\ UNCHANGED <<running, pc, done, waitFor, taken, usbVars, callVars>>

TaskWake ==
    /\ Turn("wake")
    /\ LET t == Head(ready).task
       IN  CASE tasks[t].state = "notified" /\ ~tasks[t].mustCancel -> Proceed(t)
             [] HasToCancel(t) ->
                  /\ SetTask(t, [tasks[t] EXCEPT !.state = "cancelling"])
                  /\ ready' = Tail(ready)
                  /\ UNCHANGED <<urbs, waiters, live, buffer>>
             [] Outcome(t) = "ok" -> Store(t)
             [] OTHER -> End(t)
    /\ UNCHANGED <<running, pc, done, waitFor, taken, usbVars, callVars>>

LoopStep ==
    \/ TaskStart \/ TaskRefused \/ TaskWake
    \/ (TaskCallback \/ LateCompleted)
         /\ UNCHANGED <<tasks, urbs, pipeVars, usbVars, callVars>>
    \/ TransferCallback /\ UNCHANGED <<pipeVars, usbVars, callVars>>

--------------------------------------------------------------------------------
(* The device and the host controller.  A transfer ends when it is full or *)
(* with a short packet, which may be empty; one that fails loses its data. *)
UsbComplete ==
    /\ CanComplete
    /\ transfers < MaxTransfers
    /\ transfers' = transfers + 1
    /\ \E n \in 0..XferSize, status \in {"ok", "error"} :
         /\ produced + n <= MaxBytes
         /\ status = "error" => failures < MaxFailures
         /\ failures' = IF status = "error" THEN failures + 1 ELSE failures
         /\ produced' = produced + n
         /\ SetTask(Head(urbs), [tasks[Head(urbs)] EXCEPT !.urb = status,
                                   !.from = produced,
                                   !.to = IF status = "ok" THEN produced + n ELSE produced])
    /\ ready' = Append(ready, Handle("usb", Head(urbs), {}))
    /\ urbs' = Tail(urbs)
    /\ UNCHANGED <<running, pc, live, done, waitFor, pipeVars, callVars>>

UsbStep == UsbComplete \/ (UsbCancelled /\ UNCHANGED <<pipeVars, usbVars, callVars>>)

CallerStep(c) ==
    \/ Resume(c) /\ UNCHANGED <<pipeVars, usbVars, callVars>>
    \/ Yields(c)
    \/ CallRecv(c) \/ CallRecvUntil(c) \/ RecvWait(c) \/ RecvRead(c) \/ RecvUntilRead(c)
    \/ CallReset(c) \/ EndCancel(c)

Next ==
    \/ \E c \in Callers : CallerWakes(c) /\ UNCHANGED <<tasks, urbs, pipeVars, usbVars, callVars>>
    \/ \E c \in Callers : CallerStep(c)
    \/ LoopStep
    \/ UsbStep

Spec == Init /\ [][Next]_vars

--------------------------------------------------------------------------------
(* Properties *)

TypeOK ==
    /\ running \in Callers \cup {NoCaller}
    /\ pc \in [Callers -> {"idle", "called", "run", "recv", "until", "cancel"}]
    /\ ready \in Seq(Handles)
    /\ live \subseteq TaskIds /\ done \in Seq(TaskIds)
    /\ waitFor \in [Callers -> SUBSET (TaskIds \cup {Late})]
    /\ tasks \in Seq(TaskRecords)
    /\ urbs \in Seq(TaskIds) /\ waiters \in Seq(TaskIds)
    /\ buffer \in Seq(1..produced) /\ taken \in 0..produced /\ produced \in Nat
    /\ arg \in [Callers -> Nat] /\ result \in [Callers -> Seq(1..produced)]
    /\ shared \subseteq Callers
    /\ transfers \in Nat /\ failures \in Nat /\ resets \in Nat

(* Although many transfers run at once, and tasks are held back and let go  *)
(* in turns, the buffer gets the device's bytes in order: never one again,  *)
(* never one from before a reset(), and none missing unless a transfer      *)
(* failed.                                                                  *)
StreamOrder ==
    \A i \in DOMAIN buffer :
        LET before == IF i = 1 THEN taken ELSE buffer[i - 1]
        IN  buffer[i] > before /\ (failures = 0 => buffer[i] = before + 1)

(* Every byte the device has produced was read, is in the buffer or is in a *)
(* transfer that the event loop has yet to look at.                         *)
NoByteLost ==
    failures = 0 /\ (\A c \in Callers : pc[c] # "cancel") =>
        taken + Len(buffer) + MapThenSumSet(Stored, Unfinished) = produced

(* Read pushback: the buffer may exceed its limit only by the transfers     *)
(* that were submitted while it did not.                                    *)
PushbackBound ==
    Bounded =>
        Len(buffer) + XferSize * Cardinality({t \in TaskIds :
                                        tasks[t].state \in {"inflight", "completed"}})
            <= BufferSize + XferSize * XfersPerQueue

(* The pipe never has more reads queued than it should, and until a reset() *)
(* it has lost exactly those that failed.                                   *)
QueueDepth ==
    /\ Cardinality(Unfinished) <= XfersPerQueue
    /\ resets = 0 => Cardinality(Unfinished) + Cardinality(Failed) = XfersPerQueue

(* A caller suspended in the pipe that nothing is about to resume. *)
Asleep(c) ==
    /\ pc[c] \in {"recv", "until"} /\ running # c
    /\ \A i \in DOMAIN ready : ~(ready[i].kind = "resume" /\ c \in ready[i].who)

(* A caller does not sleep on data that is there: the end of a task that it *)
(* waits for is on its way to it.                                           *)
NoLostWakeup ==
    \A c \in Callers :
        Asleep(c) /\ ~Short(c) =>
            \E i \in DOMAIN ready :
                \/ ready[i].kind = "callback" /\ ready[i].task \in waitFor[c]
                \/ ready[i].kind = "completed" /\ c \in ready[i].who

(* Read pushback and a caller do not wait for each other: one of the tasks  *)
(* that a caller waits for is not held back, or is about to be let go.  The *)
(* one exception is a recv() of more bytes than the buffer is to hold, once *)
(* the buffer is over its limit and still too short for it.                 *)
NotStuck ==
    \A c \in Callers :
        Asleep(c) => \/ \E t \in waitFor[c] : t = Late \/ tasks[t].state # "waiting"
                     \/ Full /\ Short(c) /\ Need(c) > BufferSize + 1

Ascending(s) == \A i, j \in DOMAIN s : i < j => s[i] < s[j]

Consecutive(s) == \A i \in DOMAIN s : s[i] = s[1] + i - 1

(* What recv() and recv_until() return is in the device's order, whatever    *)
(* transfers it came in: as much as was asked for, or what precedes the      *)
(* first delimiter, and the delimiter.  Unless a transfer failed, no byte is *)
(* missing in between, but where another caller read while a recv_until()    *)
(* that had collected something waited for more.                             *)
RecvExact ==
    [][\A c \in Callers :
          /\ RecvRead(c) => /\ Len(result'[c]) = arg[c] /\ Ascending(result'[c])
                            /\ failures = 0 => Consecutive(result'[c])
          /\ RecvUntilRead(c) /\ pc'[c] = "run" =>
                /\ \A i \in DOMAIN result'[c] :
                      result'[c][i] \in Delimiters <=> i = Len(result'[c])
                /\ Ascending(result'[c])
                /\ failures = 0 /\ c \notin shared => Consecutive(result'[c])]_vars

================================================================================
