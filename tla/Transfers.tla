------------------------------- MODULE Transfers -------------------------------
(***************************************************************************)
(* The tasks of a pipe and their USB transfers: asyncio tasks that await   *)
(* _perform_transfer() of support/usb/libusb1.py.  A transfer has two      *)
(* futures.  The libusb callback, forwarded to the event loop's thread,    *)
(* sets result_future, or cancel_future for a cancelled transfer.          *)
(***************************************************************************)
EXTENDS Integers, TaskQueue

VARIABLES tasks,    \* every task of the queue so far, by number
          urbs      \* the host controller's queue of the endpoint

TaskIds == 1..Len(tasks)

(* "completed" and "cancelled" are the two ways result_future can end; in  *)
(* both, and when notified or retired, the task's wake-up is scheduled.    *)
TaskState == {"created",     \* its first step is scheduled
              "waiting",     \* held back before it submits its transfer
              "notified",    \* told to look again whether it still is
              "inflight",    \* suspended on result_future
              "completed",   \* result_future has the transfer's result
              "cancelled",   \* result_future was cancelled
              "cancelling",  \* suspended on cancel_future
              "retired",     \* cancel_future has a result
              "over"}        \* the coroutine has ended

UrbState == {"none", "submitted", "ok", "error", "cancelled"}

Outcomes == {"none", "ok", "error", "cancelled"}

TaskRecords == [from : Nat, to : Nat, state : TaskState, urb : UrbState, mustCancel : BOOLEAN,
                outcome : Outcomes]

(* A task carries the bytes of its stream numbered from+1 .. to. *)
Task(a, b) == [from |-> a, to |-> b, state |-> "created", urb |-> "none",
               mustCancel |-> FALSE, outcome |-> "none"]

(* What is left of a task whose coroutine has ended. *)
Ended(outcome) == [Task(0, 0) EXCEPT !.state = "over", !.outcome = outcome]

SetTask(t, new) == tasks' = [tasks EXCEPT ![t] = new]

Over   == {t \in TaskIds : tasks[t].state = "over"}
Failed == {t \in TaskIds : tasks[t].outcome = "error"}
Bad    == {t \in TaskIds : tasks[t].outcome \in {"error", "cancelled"}}

(* Tasks that have, or are about to have, a transfer with the kernel. *)
Unfinished == TaskIds \ Over

(* poll(): a caller that gets an exception is back in its own code. *)
Poll(c) ==
    /\ done' = PollRest(Bad)
    /\ pc' = IF PollRaises(Bad) THEN [pc EXCEPT ![c] = "run"] ELSE pc

(* wait_one(): asyncio.wait() of an empty set raises ValueError. *)
WaitOne(c) ==
    CASE done # <<>> -> Poll(c) /\ UNCHANGED <<ready, running, waitFor>>
      [] done = <<>> /\ live = {} -> /\ pc' = [pc EXCEPT ![c] = "run"]
                                    /\ UNCHANGED <<ready, running, waitFor, done>>
      [] OTHER -> AsyncioWait(c, Over, ready) /\ UNCHANGED <<pc, done>>

(* A caller runs again: outside the pipe, or behind a wait in the pipe.    *)
(* wait_one() and wait_all() then poll(); cancel() goes on to its end.     *)
Resume(c) ==
    /\ Turn("resume") /\ c \in Head(ready).who
    /\ ready' = RestOfResume(c)
    /\ running' = c
    /\ CASE pc[c] = "cancel" -> UNCHANGED <<pc, done>>
         [] pc[c] = "called" -> pc' = [pc EXCEPT ![c] = "run"] /\ UNCHANGED done
         [] OTHER -> Poll(c)
    /\ UNCHANGED <<live, waitFor, tasks, urbs>>

StartHandle(t)    == Handle("start", t, {})
WakeHandle(t)     == Handle("wake", t, {})
CallbackHandle(t) == Handle("callback", t, {})

OutcomeDespiteCancel(t) == IF tasks[t].state # "completed" THEN "cancelled" ELSE tasks[t].urb

(* How the coroutine of a task that has been woken ends. *)
Outcome(t) ==
    IF tasks[t].mustCancel \/ tasks[t].state # "completed" THEN "cancelled"
    ELSE tasks[t].urb

(* It does not end if it has a transfer to cancel: transfer.cancel() does  *)
(* not raise, and the task awaits cancel_future.                           *)
HasToCancel(t) == tasks[t].state = "cancelled" /\ tasks[t].urb = "submitted"

(* Task.cancel(): a task that has not started, or whose result_future has  *)
(* a result, gets CancelledError thrown into it when it next runs.         *)
Cancel(task) ==
    CASE task.state \in {"created", "notified", "completed"} -> [task EXCEPT !.mustCancel = TRUE]
      [] task.state \in {"waiting", "inflight"} -> [task EXCEPT !.state = "cancelled"]
      [] OTHER -> task

(* The tasks of a queue that is being cancelled. *)
Cancelled == [t \in TaskIds |-> IF t \in live THEN Cancel(tasks[t]) ELSE tasks[t]]

Interrupted == {t \in live : tasks[t].state \in {"waiting", "inflight"}}

(* The orders in which cancel() can come across a set of tasks. *)
Orders(S) == {s \in [1..Cardinality(S) -> S] :
                 \A i, j \in 1..Cardinality(S) : s[i] = s[j] => i = j}

(* cancel() in caller c: every live task is cancelled, and all of them are *)
(* awaited.  Called while no other caller is inside the pipe.              *)
CancelQueue(c) ==
    /\ Calls(c, "cancel")
    /\ \A d \in Callers \ {c} : pc[d] \in {"idle", "called"}
    /\ tasks' = Cancelled
    /\ IF live = {} THEN UNCHANGED <<ready, running, waitFor>>
       ELSE \E order \in Orders(Interrupted) :
              AsyncioWait(c, Over, ready \o [i \in DOMAIN order |-> WakeHandle(order[i])])
    /\ UNCHANGED <<live, done, urbs>>

(* The transfer callback.  A result that arrives after result_future was   *)
(* cancelled is dropped.                                                   *)
TransferCallback ==
    /\ Turn("usb")
    /\ LET t == Head(ready).task
           woken == Append(Tail(ready), WakeHandle(t))
       IN  CASE tasks[t].state = "inflight" ->
                  SetTask(t, [tasks[t] EXCEPT !.state = "completed"]) /\ ready' = woken
             [] tasks[t].state = "cancelling" ->
                  SetTask(t, [tasks[t] EXCEPT !.state = "retired"]) /\ ready' = woken
             [] OTHER -> ready' = Tail(ready) /\ UNCHANGED tasks
    /\ UNCHANGED <<running, pc, live, done, waitFor, urbs>>

--------------------------------------------------------------------------------
(* The host controller and libusb, which run beside the event loop *)

(* The controller executes the transfers of an endpoint in order.  For one *)
(* whose cancellation was requested, libusb reports TRANSFER_CANCELLED.    *)
CanComplete == urbs # <<>> /\ tasks[Head(urbs)].state # "cancelling"

UsbCancelled ==
    \E i \in DOMAIN urbs :
        /\ tasks[urbs[i]].state = "cancelling"
        /\ SetTask(urbs[i], [tasks[urbs[i]] EXCEPT !.urb = "cancelled"])
        /\ ready' = Append(ready, Handle("usb", urbs[i], {}))
        /\ urbs' = SubSeq(urbs, 1, i - 1) \o SubSeq(urbs, i + 1, Len(urbs))
        /\ UNCHANGED <<running, pc, live, done, waitFor>>

================================================================================
