------------------------------- MODULE TaskQueue -------------------------------
(***************************************************************************)
(* support/task_queue.py on top of an asyncio event loop.                  *)
(*                                                                         *)
(* The event loop runs one callback ("handle") of its FIFO `ready` queue   *)
(* at a time.  A handle that resumes a coroutine of the application (a     *)
(* caller) lets it run until it suspends again; until then no other handle *)
(* runs.  Tasks of the queue are numbered from 1 in creation order.        *)
(*                                                                         *)
(* A task whose coroutine has returned is not yet in `done`: asyncio only  *)
(* schedules TaskQueue._callback, which moves it from `live` to `done` one *)
(* turn of the loop later.  In between, the task is live but does nothing. *)
(***************************************************************************)
EXTENDS Naturals, Sequences, FiniteSets

CONSTANTS Callers,   \* coroutines of the application that use the queue
          NoCaller   \* no caller is executing: the event loop is free

ASSUME CallersAssumption == IsFiniteSet(Callers) /\ NoCaller \notin Callers

VARIABLES ready,     \* handles scheduled with call_soon, oldest first
          running,   \* the caller that is executing, or NoCaller
          pc,        \* where each caller is
          live,      \* _live: tasks whose _callback has not run yet
          done,      \* _done: tasks to be awaited, oldest first
          waitFor    \* what is left of each caller's asyncio.wait()

Kinds == {"start", "usb", "wake", "callback", "completed", "resume"}

Handles == [kind : Kinds, task : Nat, who : SUBSET Callers]

Handle(kind, task, who) == [kind |-> kind, task |-> task, who |-> who]

(* In waitFor, this stands for the tasks that had finished, but had not    *)
(* been moved to `done`, when asyncio.wait() was called on them.           *)
Late == 0

--------------------------------------------------------------------------------
QueueLen == Cardinality(live) + Len(done)

QueueBoolDoneOnly == done # <<>>

QueueBool == live # {} \/ done # <<>>

(* poll() awaits the finished tasks in order.  Awaiting a task that ended  *)
(* with an exception (one in `bad`) raises it, and the tasks behind it     *)
(* stay in the deque.                                                      *)
PollRaises(bad) == \E i \in DOMAIN done : done[i] \in bad

PollRest(bad) ==
    LET first == CHOOSE i \in DOMAIN done :
                     done[i] \in bad /\ \A j \in 1..(i - 1) : done[j] \notin bad
    IN  IF PollRaises(bad) THEN SubSeq(done, first + 1, Len(done)) ELSE <<>>

(* The event loop is free and the oldest handle is one of this kind. *)
Turn(kind) == running = NoCaller /\ ready # <<>> /\ Head(ready).kind = kind

(* Caller c calls asyncio.wait(live) and suspends.  `over` are the tasks   *)
(* whose coroutine has ended; a done callback added to one of them is      *)
(* scheduled at once.  `queue` is the ready queue before that.             *)
AsyncioWait(c, over, queue) ==
    LET late == live \cap over
    IN  /\ waitFor' = [waitFor EXCEPT ![c] = (live \ late)
                                  \cup (IF late = {} THEN {} ELSE {Late})]
        /\ ready' = IF late = {} THEN queue
                    ELSE Append(queue, Handle("completed", 0, {c}))
        /\ running' = NoCaller

WaitsForAllInDrain(c) == pc[c] = "drain"

WaitsForAllAlways(c) == pc[c] \in {"send", "recv", "until", "flush", "drain", "cancel"}

(* wait_all() and cancel() wait for every task, wait_one() for the first. *)
WaitsForAll(c) == pc[c] \in {"drain", "cancel"}

(* The callers among `who` whose wait ends when x is no longer awaited. *)
WaitEnds(x, who) == {c \in who : /\ x \in waitFor[c]
                                 /\ WaitsForAll(c) => waitFor[c] = {x}}

Completed(x, who) ==
    LET ends == WaitEnds(x, who)
    IN  /\ waitFor' = [c \in Callers |-> IF c \in ends THEN {}
                                         ELSE IF c \in who THEN waitFor[c] \ {x}
                                         ELSE waitFor[c]]
        /\ ready' = IF ends = {} THEN Tail(ready)
                    ELSE Append(Tail(ready), Handle("resume", 0, ends))

TaskCallbackKeepsLive ==
    /\ Turn("callback")
    /\ done' = Append(done, Head(ready).task)
    /\ Completed(Head(ready).task, Callers)
    /\ UNCHANGED <<running, pc, live>>

(* _callback, and behind it the done callbacks of the waits on the task.   *)
(* They are next to each other in the ready queue.                         *)
TaskCallback ==
    /\ Turn("callback")
    /\ LET t == Head(ready).task
       IN  /\ live' = live \ {t}
           /\ done' = Append(done, t)
           /\ Completed(t, Callers)
    /\ UNCHANGED <<running, pc>>

(* The done callback of an asyncio.wait() on a task that was already over. *)
LateCompleted ==
    /\ Turn("completed")
    /\ Completed(Late, Head(ready).who)
    /\ UNCHANGED <<running, pc, live, done>>

(* The callers that a handle resumes run one by one, in any order. *)
RestOfResume(c) ==
    LET who == Head(ready).who \ {c}
    IN  IF who = {} THEN Tail(ready)
        ELSE <<Handle("resume", 0, who)>> \o Tail(ready)

--------------------------------------------------------------------------------
(* The application around the pipe *)

(* The caller's coroutine is resumed by something outside the pipe. *)
CallerWakes(c) ==
    /\ pc[c] = "idle"
    /\ pc' = [pc EXCEPT ![c] = "called"]
    /\ ready' = Append(ready, Handle("resume", 0, {c}))
    /\ UNCHANGED <<running, live, done, waitFor>>

(* The caller awaits something outside the pipe. *)
Yield(c) ==
    /\ running = c /\ pc[c] = "run"
    /\ running' = NoCaller
    /\ pc' = [pc EXCEPT ![c] = "idle"]
    /\ UNCHANGED <<ready, live, done, waitFor>>

(* No pipe operation is started while another caller is in reset(). *)
Calls(c, op) ==
    /\ running = c /\ pc[c] = "run"
    /\ \A d \in Callers : pc[d] # "cancel"
    /\ pc' = [pc EXCEPT ![c] = op]

================================================================================
