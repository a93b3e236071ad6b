------------------------------ MODULE InPipeProofs ------------------------------
(***************************************************************************)
(* Theorems about InPipe, for every size of a transfer, number of them,    *)
(* limit of the buffer, number of callers, of failures and of resets.      *)
(*                                                                         *)
(* Every proof rests on PipeInv, on CallersFit, which says which callers   *)
(* may run, and on ResetAll, which says what a cancelled task is.  Upon    *)
(* these: HeldBack and SleepInv say who is to be woken, and by whom;       *)
(* UntilFits that recv_until() has not met a delimiter yet; DepthInv       *)
(* counts the tasks; FlowInv orders the handles of the tasks that have     *)
(* data, StreamInv says that no byte is missing between them, and LossInv  *)
(* adds the bytes up.  Apart is what also a reset keeps of the data, on    *)
(* which the refinement of ByteStream rests, and CollectedInv relates what *)
(* a recv_until() has collected to what is in the buffer.                  *)
(***************************************************************************)
EXTENDS InPipeStream, TransfersProofs

PipeType ==
    /\ pc \in [Callers -> {"idle", "called", "run", "recv", "until", "cancel"}]
    /\ waiters \in Seq(TaskIds)
    /\ buffer \in Seq(1..produced) /\ taken \in 0..produced /\ produced \in Nat
    /\ arg \in [Callers -> Nat] /\ result \in [Callers -> Seq(1..produced)]
    /\ shared \subseteq Callers
    /\ transfers \in Nat /\ failures \in Nat /\ resets \in Nat

(* A transfer has data only when it has completed. *)
DataFits ==
    \A t \in TaskIds :
        /\ tasks[t].from <= tasks[t].to /\ tasks[t].to <= produced
        /\ tasks[t].to - tasks[t].from <= XferSize
        /\ tasks[t].urb \in {"none", "submitted", "cancelled"} =>
              tasks[t].from = 0 /\ tasks[t].to = 0

WaitersFit ==
    /\ \A i \in DOMAIN waiters : tasks[waiters[i]].state = "waiting"
    /\ Distinct(waiters)

ArgFits == \A c \in Callers : pc[c] = "recv" => arg[c] \in RecvSizes

PipeInv == TransfersInv /\ PipeType /\ DataFits /\ WaitersFit /\ ArgFits

--------------------------------------------------------------------------------
(* Sequences of bytes *)

(* What is left of a sequence, and what is taken from it. *)
LEMMA SplitParts ==
    ASSUME NEW S, NEW q \in Seq(S), NEW n \in 0..Len(q)
    PROVE  /\ SubSeq(q, 1, n) \in Seq(S) /\ Len(SubSeq(q, 1, n)) = n
           /\ SubSeq(q, n + 1, Len(q)) \in Seq(S) /\ Len(SubSeq(q, n + 1, Len(q))) = Len(q) - n
           /\ DOMAIN SubSeq(q, 1, n) = 1..n /\ DOMAIN SubSeq(q, n + 1, Len(q)) = 1..(Len(q) - n)
           /\ \A i \in 1..n : SubSeq(q, 1, n)[i] = q[i]
           /\ \A i \in 1..(Len(q) - n) : SubSeq(q, n + 1, Len(q))[i] = q[n + i]
<1> SUFFICES ASSUME NEW m, m = Len(q), NEW f, f = SubSeq(q, 1, n), NEW r, r = SubSeq(q, n + 1, m)
    PROVE  /\ f \in Seq(S) /\ Len(f) = n /\ r \in Seq(S) /\ Len(r) = m - n
           /\ DOMAIN f = 1..n /\ DOMAIN r = 1..(m - n)
           /\ \A i \in 1..n : f[i] = q[i]
           /\ \A i \in 1..(m - n) : r[i] = q[n + i]
  BY Zenon
<1>1. m \in Nat /\ n \in Int /\ n + 1 \in Int /\ n >= 0 /\ n <= m /\ \A i \in 1..m : q[i] \in S
  BY LenProperties, ElementOfSeq
<1>2. \A i \in 1..n : q[i] \in S
  BY <1>1
<1>3. /\ f \in Seq(S) /\ Len(f) = (IF 1 <= n THEN n - 1 + 1 ELSE 0)
      /\ \A i \in 1..(n - 1 + 1) : f[i] = q[1 + i - 1]
  BY <1>1, <1>2, SubSeqProperties
<1>4. \A i \in (n + 1)..m : q[i] \in S
  BY <1>1
<1>5. /\ r \in Seq(S) /\ Len(r) = (IF n + 1 <= m THEN m - (n + 1) + 1 ELSE 0)
      /\ \A i \in 1..(m - (n + 1) + 1) : r[i] = q[(n + 1) + i - 1]
  BY <1>1, <1>4, SubSeqProperties
<1>6. DOMAIN f = 1..Len(f) /\ DOMAIN r = 1..Len(r)
  BY <1>3, <1>5, LenProperties
<1>7. Len(f) = n /\ \A i \in 1..n : f[i] = q[i]
  <2>1. \A i \in 1..n : 1 + i - 1 = i /\ i \in 1..(n - 1 + 1)
    BY <1>1
  <2> QED BY <1>1, <1>3, <2>1
<1>8. Len(r) = m - n /\ \A i \in 1..(m - n) : r[i] = q[n + i]
  <2>1. \A i \in 1..(m - n) : (n + 1) + i - 1 = n + i /\ i \in 1..(m - (n + 1) + 1)
    BY <1>1
  <2> QED BY <1>1, <1>5, <2>1
<1> QED BY <1>3, <1>5, <1>6, <1>7, <1>8

(* The bytes of a task. *)
LEMMA BytesParts ==
    ASSUME PipeInv, NEW t \in TaskIds
    PROVE  /\ Stored(t) \in 0..XferSize /\ Bytes(t) \in Seq(1..produced)
           /\ Len(Bytes(t)) = Stored(t) /\ DOMAIN Bytes(t) = 1..Stored(t)
           /\ Stored(t) = tasks[t].to - tasks[t].from
           /\ tasks[t].from \in Nat /\ tasks[t].to \in Nat
           /\ \A i \in 1..Stored(t) : Bytes(t)[i] = tasks[t].from + i
<1>1. /\ tasks[t].from \in Nat /\ tasks[t].to \in Nat /\ produced \in Nat /\ XferSize \in Nat
      /\ tasks[t].from <= tasks[t].to /\ tasks[t].to <= produced
      /\ tasks[t].to - tasks[t].from <= XferSize
  <2>1. tasks[t] \in TaskRecords
    BY TypeFacts DEF PipeInv
  <2> QED BY <2>1, InPipeAssumption DEF PipeInv, PipeType, DataFits, TaskRecords
<1>2. Stored(t) = tasks[t].to - tasks[t].from /\ Stored(t) \in 0..XferSize
  BY <1>1 DEF Stored
<1>3. Bytes(t) = [i \in 1..Stored(t) |-> tasks[t].from + i]
  BY DEF Bytes
<1>4. \A i \in 1..Stored(t) : tasks[t].from + i \in 1..produced
  BY <1>1, <1>2
<1>5. Bytes(t) \in [1..Stored(t) -> 1..produced]
  BY <1>3, <1>4
<1>6. Bytes(t) \in Seq(1..produced) /\ Len(Bytes(t)) = Stored(t) /\ DOMAIN Bytes(t) = 1..Stored(t)
  <2>1. Stored(t) \in Nat
    BY <1>1, <1>2
  <2> QED BY <1>5, <2>1, FunctionIsSeq
<1> QED BY <1>1, <1>2, <1>3, <1>6

--------------------------------------------------------------------------------
(* What each step does to the tasks and the handles *)

LEMMA PipeFacts ==
    ASSUME PipeInv
    PROVE  /\ TransfersInv /\ PipeType /\ pc \in [Callers -> {"idle", "called", "run", "recv", "until", "cancel"}]
           /\ waiters \in Seq(TaskIds) /\ DOMAIN waiters = 1..Len(waiters) /\ Len(waiters) \in Nat
           /\ \A i \in DOMAIN waiters : waiters[i] \in TaskIds /\ tasks[waiters[i]].state = "waiting"
           /\ buffer \in Seq(1..produced) /\ Len(buffer) \in Nat /\ DOMAIN buffer = 1..Len(buffer)
           /\ \A i \in DOMAIN buffer : buffer[i] \in 1..produced
           /\ taken \in 0..produced /\ produced \in Nat
           /\ BufferSize \in Nat /\ XferSize \in Nat /\ XferSize > 0
<1>1. /\ TransfersInv /\ PipeType
      /\ waiters \in Seq(TaskIds) /\ buffer \in Seq(1..produced)
      /\ \A i \in DOMAIN waiters : tasks[waiters[i]].state = "waiting"
  BY DEF PipeInv, PipeType, WaitersFit
<1>2. /\ DOMAIN waiters = 1..Len(waiters) /\ Len(waiters) \in Nat
      /\ DOMAIN buffer = 1..Len(buffer) /\ Len(buffer) \in Nat
      /\ \A i \in DOMAIN waiters : waiters[i] \in TaskIds
      /\ \A i \in DOMAIN buffer : buffer[i] \in 1..produced
  BY <1>1, LenProperties, ElementOfSeq
<1> QED BY <1>1, <1>2, InPipeAssumption DEF PipeType

Waits(t) == \E i \in DOMAIN waiters : waiters[i] = t

(* The tasks that wait on the condition, and those that it has notified. *)
Notified == [t \in TaskIds |-> IF Waits(t) THEN [tasks[t] EXCEPT !.state = "notified"]
                               ELSE tasks[t]]

LEMMA NotifiedProperties ==
    ASSUME PipeInv
    PROVE  /\ Notified \in Seq(TaskRecords) /\ Len(Notified) = Len(tasks)
           /\ DOMAIN Notified = TaskIds
           /\ \A t \in TaskIds :
                 /\ Notified[t].urb = tasks[t].urb /\ Notified[t].outcome = tasks[t].outcome
                 /\ Notified[t].from = tasks[t].from /\ Notified[t].to = tasks[t].to
                 /\ Notified[t].mustCancel = tasks[t].mustCancel
                 /\ Notified[t].state = IF Waits(t) THEN "notified" ELSE tasks[t].state
                 /\ Waits(t) => tasks[t].state = "waiting"
<1>1. /\ Len(tasks) \in Nat /\ TaskIds = 1..Len(tasks)
      /\ \A t \in TaskIds : tasks[t] \in TaskRecords
      /\ \A t \in TaskIds : Waits(t) => tasks[t].state = "waiting"
  BY PipeFacts, TypeFacts DEF Waits
<1>2. ASSUME NEW task \in TaskRecords
      PROVE  /\ [task EXCEPT !.state = "notified"] \in TaskRecords
             /\ [task EXCEPT !.state = "notified"].urb = task.urb
             /\ [task EXCEPT !.state = "notified"].outcome = task.outcome
             /\ [task EXCEPT !.state = "notified"].from = task.from
             /\ [task EXCEPT !.state = "notified"].to = task.to
             /\ [task EXCEPT !.state = "notified"].mustCancel = task.mustCancel
             /\ [task EXCEPT !.state = "notified"].state = "notified"
  BY DEF TaskRecords, TaskState
<1>3. /\ DOMAIN Notified = TaskIds
      /\ \A t \in TaskIds : Notified[t] = IF Waits(t) THEN [tasks[t] EXCEPT !.state = "notified"]
                                          ELSE tasks[t]
  BY DEF Notified
<1>4. Notified \in Seq(TaskRecords) /\ Len(Notified) = Len(tasks)
  <2>1. Notified \in [1..Len(tasks) -> TaskRecords]
    BY <1>1, <1>2 DEF Notified
  <2> QED BY <1>1, <2>1, FunctionIsSeq
<1>5. ASSUME NEW t \in TaskIds
      PROVE  /\ Notified[t].urb = tasks[t].urb /\ Notified[t].outcome = tasks[t].outcome
             /\ Notified[t].from = tasks[t].from /\ Notified[t].to = tasks[t].to
             /\ Notified[t].mustCancel = tasks[t].mustCancel
             /\ Notified[t].state = IF Waits(t) THEN "notified" ELSE tasks[t].state
  <2>1. CASE Waits(t)
    <3>1. Notified[t] = [tasks[t] EXCEPT !.state = "notified"] /\ tasks[t] \in TaskRecords
      BY <1>1, <1>3, <2>1
    <3> QED BY <1>2, <2>1, <3>1
  <2>2. CASE ~Waits(t)
    BY <1>1, <1>3, <2>2
  <2> QED BY <2>1, <2>2
<1> QED BY <1>1, <1>3, <1>4, <1>5

NotifyHandles == [i \in DOMAIN waiters |-> WakeHandle(waiters[i])]

LEMMA NotifyQueue ==
    ASSUME PipeInv
    PROVE  /\ NotifyHandles \in Seq(Handles) /\ DOMAIN NotifyHandles = DOMAIN waiters
           /\ \A i \in DOMAIN waiters : /\ NotifyHandles[i].kind = "wake"
                                        /\ NotifyHandles[i].task = waiters[i]
           /\ QueueOK(NotifyHandles, Notified)
           /\ QueueOK(ready \o NotifyHandles, Notified)
<1>1. /\ TransfersInv /\ Len(waiters) \in Nat /\ DOMAIN waiters = 1..Len(waiters)
      /\ \A i \in DOMAIN waiters : waiters[i] \in TaskIds /\ tasks[waiters[i]].state = "waiting"
      /\ TaskIds \subseteq Nat /\ QueueOK(ready, tasks) /\ ready \in Seq(Handles)
      /\ DOMAIN tasks = TaskIds
  BY PipeFacts, TypeFacts
<1>2. /\ DOMAIN Notified = TaskIds
      /\ \A t \in TaskIds : /\ Notified[t].urb = tasks[t].urb
                            /\ Notified[t].state = IF Waits(t) THEN "notified" ELSE tasks[t].state
                            /\ Waits(t) => tasks[t].state = "waiting"
  BY NotifiedProperties
<1>3. ASSUME NEW i \in DOMAIN waiters
      PROVE  /\ NotifyHandles[i] \in Handles /\ NotifyHandles[i].kind = "wake"
             /\ NotifyHandles[i].task = waiters[i] /\ HandleFits(NotifyHandles[i], Notified)
  <2>1. PICK t \in TaskIds : t = waiters[i]
    BY <1>1
  <2>2. NotifyHandles[i] = WakeHandle(t)
    BY <2>1 DEF NotifyHandles
  <2>3. t \in Nat /\ t \in DOMAIN Notified /\ Notified[t].state = "notified"
    BY <1>1, <1>2, <2>1 DEF Waits
  <2>4. KindFits("wake", Notified[t])
    BY <2>3 DEF KindFits
  <2>5. /\ WakeHandle(t) \in Handles /\ WakeHandle(t).kind = "wake"
        /\ WakeHandle(t).task = t /\ HandleFits(WakeHandle(t), Notified)
    BY <2>3, <2>4, HandlesFit
  <2> QED BY <2>1, <2>2, <2>5
<1>4. NotifyHandles \in Seq(Handles) /\ DOMAIN NotifyHandles = DOMAIN waiters
  <2>1. NotifyHandles \in [1..Len(waiters) -> Handles] /\ DOMAIN NotifyHandles = DOMAIN waiters
    BY <1>1, <1>3 DEF NotifyHandles
  <2> QED BY <1>1, <2>1, FunctionIsSeq
<1>5. QueueOK(NotifyHandles, Notified)
  <2>1. \A i, j \in DOMAIN waiters : i # j => waiters[i] # waiters[j]
    BY DEF PipeInv, WaitersFit, Distinct
  <2>2. Once(NotifyHandles)
    BY <1>3, <1>4, <2>1 DEF Once
  <2> QED BY <1>3, <1>4, <2>2 DEF QueueOK
<1>6. QueueOK(ready, Notified)
  <2>1. ASSUME NEW i \in DOMAIN ready PROVE HandleFits(ready[i], Notified)
    <3>1. HandleFits(ready[i], tasks)
      BY <1>1 DEF QueueOK
    <3> SUFFICES ASSUME ready[i].kind \in TaskKinds, NEW t \in TaskIds, t = ready[i].task
        PROVE  KindFits(ready[i].kind, Notified[t])
      BY <1>1, <1>2, <3>1 DEF HandleFits
    <3>2. KindFits(ready[i].kind, tasks[t])
      BY <3>1 DEF HandleFits
    <3>3. ~Waits(t)
      BY <1>2, <3>2 DEF KindFits, TaskKinds
    <3> QED BY <1>2, <3>2, <3>3 DEF KindFits
  <2> QED BY <1>1, <2>1 DEF QueueOK
<1>7. ASSUME NEW i \in DOMAIN waiters
      PROVE  Absent(ready, NotifyHandles[i].kind, NotifyHandles[i].task)
  <2> SUFFICES ASSUME NEW t \in TaskIds, t = waiters[i] PROVE Absent(ready, "wake", t)
    BY <1>1, <1>3
  <2>1. tasks[t].state = "waiting"
    BY <1>1
  <2> QED BY <1>1, <2>1, AbsentHandles
<1>8. QueueOK(ready \o NotifyHandles, Notified)
  BY <1>4, <1>5, <1>6, <1>7, QueueConcat
<1> QED BY <1>3, <1>4, <1>5, <1>8

(* Read(c, n) *)
LEMMA ReadFacts ==
    ASSUME PipeInv, NEW c \in Callers, NEW n \in 1..Len(buffer), Read(c, n)
    PROVE  /\ tasks' = Notified /\ ready' = ready \o NotifyHandles /\ waiters' = <<>>
           /\ TaskIds' = TaskIds /\ taken' = buffer[n] /\ taken' \in 1..produced
           /\ buffer' \in Seq(1..produced) /\ Len(buffer') = Len(buffer) - n
           /\ DOMAIN buffer' = 1..(Len(buffer) - n)
           /\ \A i \in DOMAIN buffer' : buffer'[i] = buffer[n + i]
           /\ shared' \subseteq Callers
<1>1. tasks' = Notified /\ waiters' = <<>> /\ ready' = ready \o NotifyHandles
  BY DEF Read, Notified, Waits, NotifyHandles
<1>2. TaskIds' = TaskIds
  BY <1>1, NotifiedProperties DEF TaskIds
<1>3. /\ buffer \in Seq(1..produced) /\ n \in DOMAIN buffer /\ n \in 0..Len(buffer)
      /\ \A i \in DOMAIN buffer : buffer[i] \in 1..produced
      /\ buffer' = SubSeq(buffer, n + 1, Len(buffer)) /\ taken' = buffer[n]
  BY PipeFacts DEF Read
<1>4. /\ SubSeq(buffer, n + 1, Len(buffer)) \in Seq(1..produced)
      /\ Len(SubSeq(buffer, n + 1, Len(buffer))) = Len(buffer) - n
      /\ DOMAIN SubSeq(buffer, n + 1, Len(buffer)) = 1..(Len(buffer) - n)
      /\ \A i \in 1..(Len(buffer) - n) : SubSeq(buffer, n + 1, Len(buffer))[i] = buffer[n + i]
  <2> SUFFICES ASSUME NEW S, S = 1..produced, NEW q, q = buffer
      PROVE  /\ SubSeq(q, n + 1, Len(q)) \in Seq(S) /\ Len(SubSeq(q, n + 1, Len(q))) = Len(q) - n
             /\ DOMAIN SubSeq(q, n + 1, Len(q)) = 1..(Len(q) - n)
             /\ \A i \in 1..(Len(q) - n) : SubSeq(q, n + 1, Len(q))[i] = q[n + i]
    BY Zenon
  <2>1. q \in Seq(S) /\ n \in 0..Len(q)
    BY <1>3
  <2> QED BY ONLY <2>1, SplitParts
<1>5. /\ buffer' \in Seq(1..produced) /\ Len(buffer') = Len(buffer) - n
      /\ DOMAIN buffer' = 1..(Len(buffer) - n)
      /\ \A i \in 1..(Len(buffer) - n) : buffer'[i] = buffer[n + i]
  BY <1>3, <1>4, Zenon
<1>6. shared' \subseteq Callers
  BY DEF Read, PipeInv, PipeType
<1> QED BY <1>1, <1>2, <1>3, <1>5, <1>6

LEMMA ReadInv ==
    ASSUME PipeInv, NEW c \in Callers, NEW n \in 1..Len(buffer), Read(c, n),
           UNCHANGED <<running, live, done, waitFor, urbs>>
    PROVE  TransfersInv'
<1>1. /\ tasks' = Notified /\ ready' = ready \o NotifyHandles /\ TaskIds' = TaskIds
      /\ TransfersInv
  BY ReadFacts, PipeFacts
<1>2. QueueOK(ready', tasks')
  BY <1>1, NotifyQueue, Zenon
<1>3. /\ tasks' \in Seq(TaskRecords) /\ DOMAIN tasks' = TaskIds
      /\ \A t \in TaskIds : /\ tasks'[t].urb = tasks[t].urb /\ tasks'[t].outcome = tasks[t].outcome
                            /\ \/ tasks'[t].state = tasks[t].state
                               \/ tasks'[t].state = "notified" /\ tasks[t].state = "waiting"
  BY <1>1, NotifiedProperties
<1>4. ASSUME NEW t \in TaskIds PROVE TaskFits(tasks'[t])
  <2>1. TaskFits(tasks[t])
    BY <1>1, TypeFacts
  <2>2. /\ tasks'[t].urb = tasks[t].urb /\ tasks'[t].outcome = tasks[t].outcome
        /\ \/ tasks'[t].state = tasks[t].state
           \/ tasks'[t].state = "notified" /\ tasks[t].state = "waiting"
    BY <1>3
  <2> QED BY <2>1, <2>2 DEF TaskFits
<1>5. UrbsFit'
  <2>1. \A i \in DOMAIN urbs : tasks'[urbs[i]].urb = "submitted"
    BY ZenonT(30), SMTT(30), <1>1, <1>3, TypeFacts
  <2>2. urbs' = urbs /\ \A i, j \in DOMAIN urbs : i # j => urbs[i] # urbs[j]
    BY <1>1 DEF UrbsFit, TransfersInv
  <2> QED BY <2>1, <2>2 DEF UrbsFit
<1> QED BY <1>1, <1>2, <1>3, <1>4, <1>5 DEF TransfersInv, TransfersType

--------------------------------------------------------------------------------
(* The steps of the pipe *)

Untouched == UNCHANGED <<tasks, urbs, pipeVars, usbVars, callVars>>

(* Steps of a caller that change neither the tasks nor the buffer. *)
QuietCaller(c) ==
    \/ CallerWakes(c) /\ Untouched
    \/ Resume(c) /\ UNCHANGED <<pipeVars, usbVars, callVars>>
    \/ Yields(c) \/ CallRecv(c) \/ CallRecvUntil(c) \/ RecvWait(c)

Quiet ==
    \/ \E c \in Callers : QuietCaller(c)
    \/ (TaskCallback \/ LateCompleted) /\ Untouched
    \/ UNCHANGED vars

(* The event loop lets task t run, and t goes on, is over, awaits the end  *)
(* of its transfer, or stores its data.                                    *)
Retires(t) ==
    /\ HasToCancel(t)
    /\ SetTask(t, [tasks[t] EXCEPT !.state = "cancelling"])
    /\ ready' = Tail(ready)
    /\ UNCHANGED <<urbs, waiters, live, buffer>>

TaskRuns(kind, t) ==
    /\ kind \in {"start", "wake"} /\ Turn(kind) /\ t = Head(ready).task
    /\ UNCHANGED <<running, pc, done, waitFor, taken, usbVars, callVars>>
    /\ t \in TaskIds /\ KindFits(kind, tasks[t]) /\ TaskFits(tasks[t]) /\ tasks[t] \in TaskRecords

(* It does not, and ends: its transfer cannot be submitted. *)
Refuses(kind, t) ==
    /\ kind \in {"start", "wake"} /\ Turn(kind) /\ t = Head(ready).task
    /\ t \in TaskIds /\ KindFits(kind, tasks[t]) /\ TaskFits(tasks[t]) /\ tasks[t] \in TaskRecords
    /\ tasks[t].state \in {"created", "notified"} /\ ~tasks[t].mustCancel
    /\ SetTask(t, Ended("error"))
    /\ ready' = Append(Tail(ready), CallbackHandle(t))
    /\ failures' = failures + 1
    /\ UNCHANGED <<running, pc, live, done, waitFor, urbs, pipeVars, produced, transfers,
                   callVars>>

TaskStep(kind, t) ==
    /\ TaskRuns(kind, t)
    /\ \/ tasks[t].state \in {"created", "notified"} /\ ~tasks[t].mustCancel /\ Proceed(t)
       \/ /\ tasks[t].state \in {"created", "notified"} => tasks[t].mustCancel
          /\ ~HasToCancel(t) /\ Outcome(t) \in {"error", "cancelled"} /\ End(t)
       \/ kind = "wake" /\ Retires(t)
       \/ kind = "wake" /\ Outcome(t) = "ok" /\ Store(t)

UsbOrCallback ==
    \/ TransferCallback /\ UNCHANGED <<pipeVars, usbVars, callVars>>
    \/ UsbCancelled /\ UNCHANGED <<pipeVars, usbVars, callVars>>

LEMMA TaskSteps ==
    ASSUME PipeInv, TaskStart \/ TaskWake
    PROVE  \E kind, t : TaskStep(kind, t)
<1> SUFFICES ASSUME NEW kind \in {"start", "wake"}, Turn(kind), NEW t, t = Head(ready).task,
                    kind = "start" => TaskStart, kind = "wake" => TaskWake
    PROVE  TaskStep(kind, t)
  BY DEF TaskStart, TaskWake
<1>1. TaskRuns(kind, t)
  <2>1. /\ t \in TaskIds /\ KindFits(kind, tasks[t]) /\ TaskFits(tasks[t])
        /\ tasks[t] \in TaskRecords
    BY PipeFacts, TurnProperties DEF TaskKinds
  <2>2. UNCHANGED <<running, pc, done, waitFor, taken, usbVars, callVars>>
    BY DEF TaskStart, TaskWake
  <2> QED BY <2>1, <2>2 DEF TaskRuns
<1>2. Outcome(t) \in {"ok", "error", "cancelled"}
  BY <1>1 DEF TaskRuns, TaskFits, Outcome
<1>3. CASE kind = "start"
  <2>1. tasks[t].state = "created" /\ tasks[t].mustCancel \in BOOLEAN
    BY <1>1, <1>3 DEF TaskRuns, KindFits, TaskRecords
  <2>2. CASE tasks[t].mustCancel
    <3>1. End(t) /\ ~HasToCancel(t) /\ Outcome(t) = "cancelled"
      BY <1>3, <2>1, <2>2 DEF TaskStart, HasToCancel, Outcome
    <3> QED BY <1>1, <2>2, <3>1 DEF TaskStep
  <2>3. CASE ~tasks[t].mustCancel
    <3>1. Proceed(t)
      BY <1>3, <2>3 DEF TaskStart
    <3> QED BY <1>1, <2>1, <2>3, <3>1 DEF TaskStep
  <2> QED BY <2>2, <2>3
<1>4. CASE kind = "wake"
  <2>0. (CASE tasks[t].state = "notified" /\ ~tasks[t].mustCancel -> Proceed(t)
           [] HasToCancel(t) -> Retires(t)
           [] Outcome(t) = "ok" -> Store(t)
           [] OTHER -> End(t))
    <3>1. TaskWake
      BY <1>4
    <3> QED BY <3>1 DEF TaskWake, Retires
  <2>1. CASE tasks[t].state = "notified" /\ ~tasks[t].mustCancel
    <3>0. ~HasToCancel(t) /\ ~(Outcome(t) = "ok")
      BY <2>1 DEF HasToCancel, Outcome
    <3>1. Proceed(t)
      BY <2>0, <2>1, <3>0, Zenon
    <3> QED BY <1>1, <2>1, <3>1 DEF TaskStep
  <2>2. CASE HasToCancel(t)
    <3>0. ~(tasks[t].state = "notified" /\ ~tasks[t].mustCancel) /\ ~(Outcome(t) = "ok")
      BY <2>2 DEF HasToCancel, Outcome
    <3>1. Retires(t)
      BY <2>0, <2>2, <3>0, Zenon
    <3> QED BY <1>1, <1>4, <3>1 DEF TaskStep
  <2>3. CASE ~(tasks[t].state = "notified" /\ ~tasks[t].mustCancel) /\ ~HasToCancel(t)
    <3>1. CASE Outcome(t) = "ok"
      <4>1. Store(t)
        BY <2>0, <2>3, <3>1
      <4> QED BY <1>1, <1>4, <3>1, <4>1 DEF TaskStep
    <3>2. CASE Outcome(t) # "ok"
      <4>1. End(t)
        BY <2>0, <2>3, <3>2
      <4>2. tasks[t].state \in {"created", "notified"} => tasks[t].mustCancel
        BY <1>1, <1>4, <2>3 DEF TaskRuns, KindFits
      <4> QED BY <1>1, <1>2, <2>3, <3>2, <4>1, <4>2 DEF TaskStep
    <3> QED BY <3>1, <3>2
  <2> QED BY <2>1, <2>2, <2>3
<1> QED BY <1>3, <1>4

LEMMA TaskRefuses ==
    ASSUME PipeInv, TaskRefused
    PROVE  \E kind, t : Refuses(kind, t)
<1> SUFFICES ASSUME NEW kind \in {"start", "wake"}, Turn(kind), NEW t, t = Head(ready).task,
                    kind = "wake" => tasks[t].state = "notified"
    PROVE  Refuses(kind, t)
  BY DEF TaskRefused
<1>1. /\ t \in TaskIds /\ KindFits(kind, tasks[t]) /\ TaskFits(tasks[t])
      /\ tasks[t] \in TaskRecords
  BY PipeFacts, TurnProperties DEF TaskKinds
<1>2. tasks[t].state \in {"created", "notified"}
  BY <1>1 DEF KindFits
<1> QED BY <1>1, <1>2 DEF TaskRefused, Refuses

(* What is left of a task whose transfer could not be submitted, and what  *)
(* it was.                                                                 *)
LEMMA RefusedTask ==
    ASSUME PipeInv, NEW kind, NEW t, Refuses(kind, t)
    PROVE  /\ t \in TaskIds /\ t \in Unfinished /\ tasks[t] \in TaskRecords
           /\ tasks[t].state \in {"created", "notified"} /\ ~tasks[t].mustCancel
           /\ tasks[t].urb = "none" /\ tasks[t].from = 0 /\ tasks[t].to = 0 /\ ~HasToCancel(t)
           /\ tasks[t].outcome = "none"
           /\ failures \in Nat /\ failures' = failures + 1
           /\ \E new \in TaskRecords :
                 /\ SetTask(t, new) /\ new.state = "over" /\ new.urb = "none" /\ new.from = 0
                 /\ new.to = 0 /\ new.outcome = "error" /\ ~new.mustCancel
<1>1. /\ t \in TaskIds /\ tasks[t] \in TaskRecords /\ TaskFits(tasks[t])
      /\ tasks[t].state \in {"created", "notified"} /\ ~tasks[t].mustCancel
      /\ SetTask(t, Ended("error")) /\ failures' = failures + 1
  BY DEF Refuses
<1>2. tasks[t].urb = "none" /\ tasks[t].outcome = "none"
  BY <1>1 DEF TaskFits
<1>3. tasks[t].from = 0 /\ tasks[t].to = 0 /\ failures \in Nat
  BY <1>1, <1>2 DEF PipeInv, DataFits, PipeType
<1>4. t \in Unfinished /\ ~HasToCancel(t)
  BY <1>1, <1>2 DEF Unfinished, Over, HasToCancel
<1>5. "error" \in Outcomes \ {"none"}
  BY DEF Outcomes
<1>6. /\ Ended("error") \in TaskRecords /\ Ended("error").state = "over"
      /\ Ended("error").urb = "none" /\ Ended("error").from = 0 /\ Ended("error").to = 0
      /\ Ended("error").outcome = "error" /\ ~Ended("error").mustCancel
  BY <1>5, EndedType
<1> QED BY <1>1, <1>2, <1>3, <1>4, <1>6

LEMMA StepKinds ==
    ASSUME PipeInv, [Next]_vars
    PROVE  \/ Quiet
           \/ \E c \in Callers : RecvRead(c) \/ RecvUntilRead(c)
           \/ \E c \in Callers : CallReset(c) \/ EndCancel(c)
           \/ \E kind, t : TaskStep(kind, t)
           \/ \E kind, t : Refuses(kind, t)
           \/ UsbOrCallback
           \/ UsbComplete
  BY TaskSteps, TaskRefuses DEF Next, CallerStep, LoopStep, UsbStep, Quiet, QuietCaller, UsbOrCallback, Untouched

--------------------------------------------------------------------------------
(* Types, and what the data and the waiters are *)

LEMMA RestKept ==
    ASSUME PipeInv, TransfersInv', UNCHANGED <<tasks, waiters, usbVars, resets>>,
           pc' \in [Callers -> {"idle", "called", "run", "recv", "until", "cancel"}],
           buffer' \in Seq(1..produced), taken' \in 0..produced,
           arg' \in [Callers -> Nat], result' \in [Callers -> Seq(1..produced)],
           shared' \subseteq Callers, ArgFits'
    PROVE  PipeInv'
<1>1. TaskIds' = TaskIds
  BY DEF TaskIds
<1>2. UNCHANGED <<waiters, produced, transfers, failures, resets>>
  BY DEF usbVars
<1>3. PipeType'
  BY <1>1, <1>2 DEF PipeInv, PipeType
<1>4. DataFits' /\ WaitersFit'
  BY <1>1, <1>2 DEF PipeInv, DataFits, WaitersFit, Distinct
<1> QED BY <1>3, <1>4 DEF PipeInv

LEMMA QuietInv ==
    ASSUME PipeInv, Quiet
    PROVE  PipeInv'
<1> DEFINE places == {"idle", "called", "run", "recv", "until", "cancel"}
<1>0. /\ TransfersInv /\ pc \in [Callers -> places] /\ arg \in [Callers -> Nat]
      /\ result \in [Callers -> Seq(1..produced)] /\ buffer \in Seq(1..produced)
      /\ taken \in 0..produced /\ <<>> \in Seq(1..produced) /\ shared \subseteq Callers
      /\ running \in Callers \cup {NoCaller} /\ NoCaller \notin Callers
      /\ RecvSizes \subseteq Nat
      /\ \A c \in Callers : pc[c] = "recv" => arg[c] \in RecvSizes
  <2>1. <<>> \in Seq(1..produced)
    BY EmptySeq
  <2> QED BY <2>1, PipeFacts, InPipeAssumption, CallersAssumption
       DEF PipeInv, PipeType, TransfersInv, TransfersType, ArgFits
<1>1. CASE UNCHANGED vars
  <2>1. UNCHANGED <<ready, live, done, waitFor, tasks, urbs, running>>
    BY <1>1 DEF vars
  <2>2. TransfersInv'
    BY <1>0, <2>1, CallerInv
  <2> QED BY <1>0, <1>1, <2>2, RestKept DEF vars, pipeVars, usbVars, callVars, ArgFits
<1>2. CASE (TaskCallback \/ LateCompleted) /\ Untouched
  <2>1. TransfersInv'
    BY <1>0, <1>2, TaskCallbackInv, LateCompletedInv DEF Untouched
  <2>2. UNCHANGED pc
    BY <1>2 DEF TaskCallback, LateCompleted
  <2> QED BY <1>0, <1>2, <2>1, <2>2, RestKept DEF Untouched, pipeVars, usbVars, callVars, ArgFits
<1>3. ASSUME NEW c \in Callers, CallerWakes(c) /\ Untouched
      PROVE  PipeInv'
  <2>1. TransfersInv'
    BY <1>0, <1>3, CallerWakesInv DEF Untouched
  <2>2. pc' = [pc EXCEPT ![c] = "called"]
    BY <1>3 DEF CallerWakes
  <2> QED BY <1>0, <1>3, <2>1, <2>2, RestKept DEF Untouched, pipeVars, usbVars, callVars, ArgFits
<1>4. ASSUME NEW c \in Callers, Resume(c), UNCHANGED <<pipeVars, usbVars, callVars>>
      PROVE  PipeInv'
  <2>1. TransfersInv'
    BY <1>0, <1>4, ResumeInv
  <2>2. /\ pc' = pc \/ pc' = [pc EXCEPT ![c] = "run"]
        /\ UNCHANGED tasks
    BY <1>4 DEF Resume, Poll
  <2> QED BY <1>0, <1>4, <2>1, <2>2, RestKept DEF pipeVars, usbVars, callVars, ArgFits
<1>5. ASSUME NEW c \in Callers, Yields(c)
      PROVE  PipeInv'
  <2>1. TransfersInv'
    BY <1>0, <1>5, CallerInv DEF Yields, Yield
  <2>2. /\ pc' = [pc EXCEPT ![c] = "idle"] /\ arg' = [arg EXCEPT ![c] = 0]
        /\ result' = [result EXCEPT ![c] = <<>>] /\ UNCHANGED <<tasks, pipeVars, usbVars, resets>>
        /\ shared' = shared \ {c}
    BY <1>5 DEF Yields, Yield
  <2> QED BY <1>0, <2>1, <2>2, RestKept DEF pipeVars, ArgFits
<1>6. ASSUME NEW c \in Callers, CallRecv(c)
      PROVE  PipeInv'
  <2>1. TransfersInv'
    BY <1>0, <1>6, CallerInv DEF CallRecv
  <2>2. PICK n \in RecvSizes : arg' = [arg EXCEPT ![c] = n]
    BY <1>6 DEF CallRecv
  <2>3. /\ pc' = [pc EXCEPT ![c] = "recv"] /\ n \in Nat
        /\ UNCHANGED <<tasks, pipeVars, usbVars, result, shared, resets>>
    BY <1>0, <1>6 DEF CallRecv, Calls
  <2> QED BY <1>0, <2>1, <2>2, <2>3, RestKept DEF pipeVars, ArgFits
<1>7. ASSUME NEW c \in Callers, CallRecvUntil(c)
      PROVE  PipeInv'
  <2>1. TransfersInv'
    BY <1>0, <1>7, CallerInv DEF CallRecvUntil
  <2>2. /\ pc' = [pc EXCEPT ![c] = "until"] /\ result' = [result EXCEPT ![c] = <<>>]
        /\ UNCHANGED <<tasks, pipeVars, usbVars, arg, resets>> /\ shared' = shared \ {c}
    BY <1>7 DEF CallRecvUntil, Calls
  <2> QED BY <1>0, <2>1, <2>2, RestKept DEF pipeVars, ArgFits
<1>8. ASSUME NEW c \in Callers, RecvWait(c)
      PROVE  PipeInv'
  <2>0. UNCHANGED <<live, tasks, urbs, pipeVars, usbVars, callVars>>
    BY <1>8 DEF RecvWait
  <2>1. CASE WaitOne(c)
    <3>1. TransfersInv'
      BY <1>0, <2>0, <2>1, WaitOneInv
    <3>2. pc' = pc \/ pc' = [pc EXCEPT ![c] = "run"]
      BY <2>1 DEF WaitOne, Poll
    <3> QED BY <1>0, <2>0, <3>1, <3>2, RestKept DEF pipeVars, usbVars, callVars, ArgFits
  <2>2. CASE pc' = [pc EXCEPT ![c] = "run"] /\ UNCHANGED <<ready, running, done, waitFor>>
    <3>1. TransfersInv'
      BY <1>0, <2>0, <2>2, CallerInv
    <3> QED BY <1>0, <2>0, <2>2, <3>1, RestKept DEF pipeVars, usbVars, callVars, ArgFits
  <2> QED BY <1>8, <2>1, <2>2 DEF RecvWait
<1> QED BY <1>1, <1>2, <1>3, <1>4, <1>5, <1>6, <1>7, <1>8 DEF Quiet, QuietCaller

LEMMA UntilFirstFits ==
    ASSUME PipeInv, buffer # <<>>
    PROVE  /\ UntilFirst \in 1..Len(buffer)
           /\ Hits = {} => UntilFirst = Len(buffer)
           /\ Hits # {} => UntilFirst \in Hits /\ \A i \in Hits : UntilFirst <= i
<1>1. /\ Len(buffer) \in Nat /\ DOMAIN buffer = 1..Len(buffer) /\ Len(buffer) # 0
  <2>1. buffer \in Seq(1..produced)
    BY PipeFacts
  <2> QED BY <2>1, PipeFacts, EmptySeq
<1>2. CASE Hits = {}
  BY <1>1, <1>2 DEF UntilFirst
<1>3. CASE Hits # {}
  <2>1. Hits \in SUBSET Nat /\ Hits \subseteq 1..Len(buffer)
    BY <1>1 DEF Hits
  <2>2. PICK m \in Hits : \A n \in Hits : m <= n
    BY <1>3, <2>1, LeastNatural
  <2>3. Min(Hits) \in Hits /\ \A n \in Hits : Min(Hits) <= n
    BY <2>2 DEF Min
  <2>4. UntilFirst = Min(Hits)
    BY <1>3 DEF UntilFirst
  <2> QED BY <1>3, <2>1, <2>3, <2>4
<1> QED BY <1>2, <1>3

(* The part of the buffer that a caller gets. *)
LEMMA TakenParts ==
    ASSUME PipeInv, NEW n \in 0..Len(buffer)
    PROVE  /\ SubSeq(buffer, 1, n) \in Seq(1..produced) /\ Len(SubSeq(buffer, 1, n)) = n
           /\ DOMAIN SubSeq(buffer, 1, n) = 1..n
           /\ \A i \in 1..n : SubSeq(buffer, 1, n)[i] = buffer[i]
<1> SUFFICES ASSUME NEW S, S = 1..produced, NEW q, q = buffer
    PROVE  /\ SubSeq(q, 1, n) \in Seq(S) /\ Len(SubSeq(q, 1, n)) = n
           /\ DOMAIN SubSeq(q, 1, n) = 1..n
           /\ \A i \in 1..n : SubSeq(q, 1, n)[i] = q[i]
  BY Zenon
<1>1. q \in Seq(S) /\ n \in 0..Len(q)
  BY PipeFacts
<1> QED BY ONLY <1>1, SplitParts

LEMMA ReadRest ==
    ASSUME PipeInv, NEW d \in Callers, NEW n \in 1..Len(buffer), Read(d, n),
           UNCHANGED <<running, live, done, waitFor, urbs, usbVars, arg, resets>>,
           pc' \in [Callers -> {"idle", "called", "run", "recv", "until", "cancel"}],
           \A c \in Callers : pc'[c] = "recv" => pc[c] = "recv",
           result' \in [Callers -> Seq(1..produced)]
    PROVE  PipeInv'
<1>1. TransfersInv' /\ UNCHANGED <<produced, transfers, failures>>
  BY ReadInv DEF usbVars
<1>2. /\ tasks' = Notified /\ waiters' = <<>> /\ TaskIds' = TaskIds
      /\ taken' \in 1..produced /\ buffer' \in Seq(1..produced) /\ shared' \subseteq Callers
  BY ReadFacts
<1>3. /\ produced \in Nat /\ arg \in [Callers -> Nat]
      /\ transfers \in Nat /\ failures \in Nat /\ resets \in Nat
  BY DEF PipeInv, PipeType
<1>4. waiters' \in Seq(TaskIds) /\ DOMAIN waiters' = {}
  <2>1. <<>> \in Seq(TaskIds) /\ DOMAIN <<>> = {}
    BY EmptySeq
  <2> QED BY <1>2, <2>1
<1>5. PipeType'
  BY <1>1, <1>2, <1>3, <1>4 DEF PipeType
<1>6. DataFits'
  BY <1>1, <1>2, NotifiedProperties DEF DataFits, PipeInv
<1>7. WaitersFit'
  BY <1>4 DEF WaitersFit, Distinct
<1>8. ArgFits'
  BY DEF ArgFits, PipeInv
<1> QED BY <1>1, <1>5, <1>6, <1>7, <1>8 DEF PipeInv

LEMMA ReadsInv ==
    ASSUME PipeInv, NEW c \in Callers, RecvRead(c) \/ RecvUntilRead(c)
    PROVE  PipeInv'
<1>0. /\ pc \in [Callers -> {"idle", "called", "run", "recv", "until", "cancel"}]
      /\ result \in [Callers -> Seq(1..produced)] /\ Len(buffer) \in Nat
      /\ arg \in [Callers -> Nat] /\ RecvSizes \subseteq Nat \ {0}
      /\ ArgFits
  BY PipeFacts, InPipeAssumption DEF PipeInv, PipeType
<1>1. CASE RecvRead(c)
  <2> SUFFICES ASSUME NEW n, n = arg[c] PROVE PipeInv'
    OBVIOUS
  <2>1. /\ n \in 1..Len(buffer) /\ n \in 0..Len(buffer) /\ Read(c, n)
        /\ result' = [result EXCEPT ![c] = SubSeq(buffer, 1, n)]
        /\ pc' = [pc EXCEPT ![c] = "run"]
        /\ UNCHANGED <<running, live, done, waitFor, urbs, usbVars, arg, resets>>
    BY <1>0, <1>1 DEF RecvRead, ArgFits
  <2>2. PICK f : f = SubSeq(buffer, 1, n)
    OBVIOUS
  <2>3. f \in Seq(1..produced)
    BY <2>1, <2>2, TakenParts, Zenon
  <2>4. result' = [result EXCEPT ![c] = f]
    BY <2>1, <2>2, Zenon
  <2>5. result' \in [Callers -> Seq(1..produced)]
    BY <1>0, <2>3, <2>4
  <2> QED BY <1>0, <2>1, <2>5, ReadRest
<1>2. CASE RecvUntilRead(c)
  <2> SUFFICES ASSUME NEW n, n = UntilFirst PROVE PipeInv'
    OBVIOUS
  <2>1. /\ n \in 1..Len(buffer) /\ n \in 0..Len(buffer) /\ Read(c, n)
        /\ result' = [result EXCEPT ![c] = result[c] \o SubSeq(buffer, 1, n)]
        /\ pc' = pc \/ pc' = [pc EXCEPT ![c] = "run"]
        /\ UNCHANGED <<running, live, done, waitFor, urbs, usbVars, arg, resets>>
    <3>1. buffer # <<>>
      BY <1>2 DEF RecvUntilRead
    <3>2. n \in 1..Len(buffer)
      BY <3>1, UntilFirstFits
    <3> QED BY <1>0, <1>2, <3>2 DEF RecvUntilRead
  <2>2. PICK f : f = result[c] \o SubSeq(buffer, 1, n)
    OBVIOUS
  <2>3. SubSeq(buffer, 1, n) \in Seq(1..produced) /\ result[c] \in Seq(1..produced)
    BY <1>0, <2>1, TakenParts, Zenon
  <2>4. f \in Seq(1..produced)
    BY <2>2, <2>3, ConcatProperties, Zenon
  <2>5. result' = [result EXCEPT ![c] = f]
    BY <2>1, <2>2, Zenon
  <2>6. result' \in [Callers -> Seq(1..produced)]
    BY <1>0, <2>4, <2>5
  <2> QED BY <1>0, <2>1, <2>6, ReadRest
<1> QED BY <1>1, <1>2

(* A task moves on. *)
LEMMA OneTaskRest ==
    ASSUME PipeInv, TransfersInv', NEW t \in TaskIds, NEW new \in TaskRecords, SetTask(t, new),
           UNCHANGED <<pc, pipeVars, callVars>>,
           tasks[t].state # "waiting", produced' \in Nat, produced' >= produced,
           transfers' \in Nat, failures' \in Nat,
           new.from <= new.to, new.to <= produced', new.to - new.from <= XferSize,
           new.urb \in {"none", "submitted", "cancelled"} => new.from = 0 /\ new.to = 0
    PROVE  PipeInv'
<1>1. /\ TaskIds' = TaskIds /\ tasks'[t] = new /\ \A u \in TaskIds : u # t => tasks'[u] = tasks[u]
      /\ TransfersInv
      /\ \A u \in TaskIds : tasks[u].to \in Nat /\ produced \in Nat
  BY PipeFacts, TypeFacts, SetTaskProperties DEF TaskRecords
<1>2. DataFits'
  <2>1. ASSUME NEW u \in TaskIds, u # t PROVE tasks'[u] = tasks[u] /\ tasks[u].to <= produced'
    BY <1>1, <2>1 DEF PipeInv, DataFits
  <2> QED BY <1>1, <2>1 DEF DataFits, PipeInv
<1>3. WaitersFit'
  <2>1. UNCHANGED waiters /\ \A i \in DOMAIN waiters : waiters[i] \in TaskIds /\ waiters[i] # t
    BY PipeFacts DEF pipeVars
  <2> QED BY <1>1, <2>1 DEF WaitersFit, PipeInv
<1>4. PipeType'
  <2>1. /\ buffer \in Seq(1..produced) /\ result \in [Callers -> Seq(1..produced)]
        /\ 1..produced \subseteq 1..produced'
    BY <1>1 DEF PipeInv, PipeType
  <2>2. buffer \in Seq(1..produced') /\ \A c \in Callers : result[c] \in Seq(1..produced')
    BY <2>1, SeqMonotonic
  <2>3. result \in [Callers -> Seq(1..produced')]
    BY <2>1, <2>2
  <2> QED BY <1>1, <2>2, <2>3 DEF PipeInv, PipeType, pipeVars, callVars
<1>5. ArgFits'
  BY DEF ArgFits, PipeInv, callVars
<1> QED BY <1>2, <1>3, <1>4, <1>5 DEF PipeInv

LEMMA CallbackInv ==
    ASSUME PipeInv, UsbOrCallback
    PROVE  PipeInv'
<1>1. TransfersInv' /\ UNCHANGED <<pc, pipeVars, usbVars, callVars>>
  BY PipeFacts, TransferCallbackInv, UsbCancelledInv DEF UsbOrCallback, TransferCallback, UsbCancelled
<1>2. UNCHANGED <<produced, transfers, failures>> /\ produced \in Nat /\ transfers \in Nat /\ failures \in Nat
      /\ produced >= produced
  BY <1>1 DEF usbVars, PipeInv, PipeType
<1>3. ASSUME NEW t \in TaskIds, NEW new \in TaskRecords, SetTask(t, new),
             tasks[t].state # "waiting", new.from = tasks[t].from, new.to = tasks[t].to,
             new.urb = tasks[t].urb \/ tasks[t].urb = "submitted"
      PROVE  PipeInv'
  BY <1>1, <1>2, <1>3, OneTaskRest DEF PipeInv, DataFits
<1>4. CASE TransferCallback
  <2> SUFFICES ASSUME NEW t, t = Head(ready).task PROVE PipeInv'
    OBVIOUS
  <2>1. t \in TaskIds /\ tasks[t] \in TaskRecords
    BY <1>4, PipeFacts, TurnProperties DEF TransferCallback, TaskKinds
  <2>2. ASSUME NEW state \in {"completed", "retired"},
               tasks[t].state \in {"inflight", "cancelling"},
               SetTask(t, [tasks[t] EXCEPT !.state = state])
        PROVE  PipeInv'
    <3> DEFINE new == [tasks[t] EXCEPT !.state = state]
    <3>1. /\ new \in TaskRecords /\ new.from = tasks[t].from /\ new.to = tasks[t].to
          /\ new.urb = tasks[t].urb /\ SetTask(t, new)
      BY <2>1, <2>2 DEF TaskRecords, TaskState
    <3> HIDE DEF new
    <3> QED BY <1>3, <2>1, <2>2, <3>1
  <2>3. CASE UNCHANGED tasks
    <3>1. PipeType' /\ DataFits' /\ WaitersFit' /\ ArgFits'
      BY <1>1, <2>3 DEF PipeInv, PipeType, DataFits, WaitersFit, ArgFits, Distinct, TaskIds,
                        pipeVars, usbVars, callVars
    <3> QED BY <1>1, <3>1 DEF PipeInv
  <2> QED BY <1>4, <2>2, <2>3 DEF TransferCallback
<1>5. CASE UsbCancelled
  <2>1. PICK k \in DOMAIN urbs : /\ SetTask(urbs[k], [tasks[urbs[k]] EXCEPT !.urb = "cancelled"])
                                 /\ tasks[urbs[k]].state = "cancelling"
    BY <1>5 DEF UsbCancelled
  <2> SUFFICES ASSUME NEW t, t = urbs[k] PROVE PipeInv'
    OBVIOUS
  <2>2. t \in TaskIds /\ tasks[t] \in TaskRecords /\ tasks[t].urb = "submitted"
    BY PipeFacts, TypeFacts
  <2> DEFINE new == [tasks[t] EXCEPT !.urb = "cancelled"]
  <2>3. /\ new \in TaskRecords /\ new.from = tasks[t].from /\ new.to = tasks[t].to
        /\ SetTask(t, new)
    BY <2>1, <2>2 DEF TaskRecords, UrbState
  <2> HIDE DEF new
  <2> QED BY <1>3, <2>1, <2>2, <2>3
<1> QED BY <1>4, <1>5 DEF UsbOrCallback

(* A transfer completes. *)
LEMMA CompleteFacts ==
    ASSUME PipeInv, UsbComplete
    PROVE  \E t \in TaskIds, n \in 0..XferSize, status \in {"ok", "error"}, new \in TaskRecords :
              /\ 1 \in DOMAIN urbs /\ t = urbs[1] /\ tasks[t].urb = "submitted"
              /\ tasks[t].state \in {"inflight", "cancelled"}
              /\ produced' = produced + n /\ new.urb = status /\ new.from = produced
              /\ new.to = IF status = "ok" THEN produced + n ELSE produced
              /\ failures' = IF status = "error" THEN failures + 1 ELSE failures
              /\ new.state = tasks[t].state /\ new.outcome = tasks[t].outcome
              /\ new.mustCancel = tasks[t].mustCancel /\ SetTask(t, new)
              /\ ready' = Append(ready, Handle("usb", t, {})) /\ urbs' = Tail(urbs)
              /\ transfers' = transfers + 1
              /\ UNCHANGED <<running, pc, live, done, waitFor, pipeVars, callVars>>
<1>1. urbs # <<>> /\ tasks[Head(urbs)].state # "cancelling" /\ urbs' = Tail(urbs) /\ TransfersInv
  BY PipeFacts DEF UsbComplete, CanComplete
<1>2. 1 \in DOMAIN urbs /\ Head(urbs) = urbs[1] /\ Head(urbs) \in TaskIds
  BY <1>1, UrbsTail
<1>3. PICK t \in TaskIds : t = urbs[1] /\ t = Head(urbs)
  BY <1>2
<1>4. /\ tasks[t].urb = "submitted" /\ tasks[t] \in TaskRecords /\ TaskFits(tasks[t])
      /\ produced \in Nat /\ XferSize \in Nat
  BY <1>1, <1>2, <1>3, TypeFacts, PipeFacts
<1>5. tasks[t].state \in {"inflight", "cancelled"}
  BY <1>1, <1>3, <1>4 DEF TaskFits, TaskRecords, TaskState
<1>6. PICK n \in 0..XferSize, status \in {"ok", "error"} :
         /\ failures' = IF status = "error" THEN failures + 1 ELSE failures
         /\ produced' = produced + n
         /\ SetTask(t, [tasks[t] EXCEPT !.urb = status, !.from = produced,
                                        !.to = IF status = "ok" THEN produced + n ELSE produced])
  BY <1>3 DEF UsbComplete
<1>10. PICK to \in Nat : to = IF status = "ok" THEN produced + n ELSE produced
  BY <1>4
<1> DEFINE new == [tasks[t] EXCEPT !.urb = status, !.from = produced, !.to = to]
<1>7. /\ new \in TaskRecords /\ new.urb = status /\ new.from = produced /\ new.to = to
      /\ new.state = tasks[t].state /\ new.outcome = tasks[t].outcome
      /\ new.mustCancel = tasks[t].mustCancel
  BY <1>4 DEF TaskRecords, UrbState
<1>8. SetTask(t, new)
  BY <1>6, <1>10
<1> HIDE DEF new
<1>9. /\ ready' = Append(ready, Handle("usb", t, {})) /\ transfers' = transfers + 1
      /\ UNCHANGED <<running, pc, live, done, waitFor, pipeVars, callVars>>
  BY <1>3 DEF UsbComplete
<1> QED BY <1>1, <1>2, <1>3, <1>4, <1>5, <1>6, <1>10, <1>7, <1>8, <1>9

LEMMA CompleteInv ==
    ASSUME PipeInv, UsbComplete
    PROVE  PipeInv'
<1>1. PICK t \in TaskIds, n \in 0..XferSize, status \in {"ok", "error"}, new \in TaskRecords :
              /\ 1 \in DOMAIN urbs /\ t = urbs[1] /\ tasks[t].urb = "submitted"
              /\ tasks[t].state \in {"inflight", "cancelled"}
              /\ produced' = produced + n /\ new.urb = status /\ new.from = produced
              /\ new.to = IF status = "ok" THEN produced + n ELSE produced
              /\ failures' = IF status = "error" THEN failures + 1 ELSE failures
              /\ new.state = tasks[t].state /\ new.outcome = tasks[t].outcome
              /\ new.mustCancel = tasks[t].mustCancel /\ SetTask(t, new)
              /\ ready' = Append(ready, Handle("usb", t, {})) /\ urbs' = Tail(urbs)
              /\ transfers' = transfers + 1
              /\ UNCHANGED <<running, pc, live, done, waitFor, pipeVars, callVars>>
  BY CompleteFacts
<1>2. /\ TransfersInv /\ produced \in Nat /\ XferSize \in Nat /\ failures \in Nat /\ transfers \in Nat
  BY PipeFacts DEF PipeType
<1>3. urbs # <<>>
  BY <1>1
<1>4. /\ urbs' \in Seq(TaskIds)
      /\ \A k \in DOMAIN urbs' : urbs'[k] # t /\ \E j \in DOMAIN urbs : urbs'[k] = urbs[j]
      /\ \A k, l \in DOMAIN urbs' : k # l => urbs'[k] # urbs'[l]
  BY <1>1, <1>2, <1>3, UrbsTail
<1>5. TransfersInv'
  <2>1. /\ new.urb = IF tasks[t].state = "cancelling" THEN "cancelled" ELSE new.urb
        /\ new.urb \in {"ok", "error", "cancelled"}
        /\ new.urb = "cancelled" => tasks[t].state = "cancelling"
        /\ UNCHANGED <<running, live, done, waitFor>>
    BY <1>1
  <2> QED BY <1>1, <1>2, <1>4, <2>1, UrbEndsInv
<1>6. /\ produced' \in Nat /\ produced' >= produced /\ transfers' \in Nat /\ failures' \in Nat
      /\ new.from <= new.to /\ new.to <= produced' /\ new.to - new.from <= XferSize
  BY <1>1, <1>2
<1> QED BY <1>1, <1>5, <1>6, OneTaskRest

(* A task that is held back, or submits its transfer. *)
LEMMA ProceedInv ==
    ASSUME PipeInv, NEW kind, NEW t, TaskRuns(kind, t),
           tasks[t].state \in {"created", "notified"}, Proceed(t)
    PROVE  PipeInv'
<1>1. /\ kind \in {"start", "wake"} /\ kind \in TaskKinds /\ Turn(kind) /\ t = Head(ready).task
      /\ UNCHANGED <<running, pc, done, waitFor, taken, usbVars, callVars>>
      /\ t \in TaskIds /\ TaskFits(tasks[t]) /\ tasks[t] \in TaskRecords /\ TransfersInv
      /\ UNCHANGED <<live, buffer>> /\ ready' = Tail(ready)
      /\ produced' \in Nat /\ produced' >= produced /\ produced \in Nat
      /\ transfers' \in Nat /\ failures' \in Nat
  BY PipeFacts DEF TaskRuns, Proceed, usbVars, PipeType, TaskKinds
<1>2. tasks[t].urb = "none" /\ tasks[t].from = 0 /\ tasks[t].to = 0 /\ XferSize \in Nat
  BY <1>1, PipeFacts DEF TaskFits, PipeInv, DataFits
<1>3. CASE Full
  <2> DEFINE new == [tasks[t] EXCEPT !.state = "waiting"]
  <2>1. /\ SetTask(t, new) /\ waiters' = Append(waiters, t) /\ UNCHANGED urbs
        /\ new \in TaskRecords /\ new.from = 0 /\ new.to = 0 /\ new.urb = "none"
        /\ new.outcome = tasks[t].outcome /\ new.state = "waiting"
        /\ new.mustCancel = tasks[t].mustCancel
    BY <1>1, <1>2, <1>3 DEF Proceed, TaskRecords, TaskState
  <2> HIDE DEF new
  <2>2. /\ TaskIds' = TaskIds /\ tasks'[t] = new
        /\ \A u \in TaskIds : u # t => tasks'[u] = tasks[u]
    BY <1>1, <2>1, TypeFacts, SetTaskProperties
  <2>3. TransfersInv'
    <3>1. TaskFits(new)
      BY <1>1, <2>1 DEF TaskFits
    <3>2. \A k \in TaskKinds : Absent(Tail(ready), k, t) \/ KindFits(k, new)
      <4>1. QueueOK(Tail(ready), tasks) /\ Absent(Tail(ready), kind, t) /\ QueueOK(ready, tasks)
            /\ KindFits(kind, tasks[t])
        BY <1>1, TurnProperties, TypeFacts
      <4>2. Absent(Tail(ready), "usb", t) /\ Absent(Tail(ready), "callback", t)
        BY <4>1, AbsentHandles
      <4>3. Absent(Tail(ready), "start", t) /\ Absent(Tail(ready), "wake", t)
        BY <1>1, <4>1, AbsentHandles DEF KindFits
      <4> QED BY <4>2, <4>3 DEF TaskKinds
    <3>3. QueueOK(ready', tasks')
      BY <1>1, <2>1, <3>2, TurnTask
    <3>4. urbs' \in Seq(TaskIds) /\ UrbsFit'
      BY <1>1, <1>2, <2>1, UrbsKept
    <3> QED BY <1>1, <2>1, <3>1, <3>3, <3>4, OneTaskInv
  <2>4. /\ waiters' \in Seq(TaskIds) /\ WaitersFit'
    <3>1. /\ waiters \in Seq(TaskIds) /\ DOMAIN waiters = 1..Len(waiters) /\ Len(waiters) \in Nat
          /\ \A i \in DOMAIN waiters : waiters[i] \in TaskIds /\ waiters[i] # t
                                       /\ tasks[waiters[i]].state = "waiting"
      BY PipeFacts
    <3>2. /\ waiters' \in Seq(TaskIds) /\ DOMAIN waiters' = DOMAIN waiters \cup {Len(waiters) + 1}
          /\ \A i \in DOMAIN waiters : waiters'[i] = waiters[i]
          /\ waiters'[Len(waiters) + 1] = t
      BY <1>1, <2>1, <3>1, AppendParts
    <3>3. \A i \in DOMAIN waiters' : tasks'[waiters'[i]].state = "waiting"
      BY <2>1, <2>2, <3>1, <3>2
    <3>4. \A i, j \in DOMAIN waiters' : i # j => waiters'[i] # waiters'[j]
      BY <3>1, <3>2 DEF PipeInv, WaitersFit, Distinct
    <3> QED BY <3>2, <3>3, <3>4 DEF WaitersFit, Distinct
  <2>5. DataFits'
    <3>1. produced' = produced
      BY <1>1 DEF usbVars
    <3> QED BY <1>1, <1>2, <2>1, <2>2, <3>1 DEF DataFits, PipeInv
  <2>6. PipeType' /\ ArgFits'
    BY <1>1, <2>2, <2>4 DEF PipeInv, PipeType, ArgFits, usbVars, callVars
  <2> QED BY <2>3, <2>4, <2>5, <2>6 DEF PipeInv
<1>4. CASE ~Full
  <2> DEFINE new == [tasks[t] EXCEPT !.state = "inflight", !.urb = "submitted"]
  <2>1. SetTask(t, new) /\ urbs' = Append(urbs, t) /\ UNCHANGED waiters
    BY <1>4 DEF Proceed
  <2>2. TransfersInv'
    BY <1>1, <2>1, SubmitsInv
  <2>3. /\ new \in TaskRecords /\ new.from = 0 /\ new.to = 0 /\ new.urb = "submitted"
    BY <1>1, <1>2 DEF TaskRecords, TaskState, UrbState
  <2> HIDE DEF new
  <2> QED BY <1>1, <1>2, <2>1, <2>2, <2>3, OneTaskRest DEF pipeVars
<1> QED BY <1>3, <1>4

LEMMA EndInv ==
    ASSUME PipeInv, NEW kind, NEW t, TaskRuns(kind, t),
           \/ ~HasToCancel(t) /\ Outcome(t) \in {"error", "cancelled"} /\ End(t)
           \/ kind = "wake" /\ Retires(t)
    PROVE  PipeInv'
<1>1. /\ kind \in {"start", "wake"} /\ Turn(kind) /\ t = Head(ready).task
      /\ UNCHANGED <<running, pc, done, waitFor, taken, usbVars, callVars>>
      /\ t \in TaskIds /\ KindFits(kind, tasks[t]) /\ tasks[t] \in TaskRecords /\ TransfersInv
      /\ UNCHANGED <<urbs, live, buffer, waiters>>
      /\ produced' \in Nat /\ produced' >= produced /\ XferSize \in Nat
      /\ transfers' \in Nat /\ failures' \in Nat
  BY PipeFacts DEF TaskRuns, End, Retires, usbVars, PipeType
<1>2. tasks[t].state # "waiting"
  BY <1>1 DEF KindFits
<1>3. CASE ~HasToCancel(t) /\ Outcome(t) \in {"error", "cancelled"} /\ End(t)
  <2> SUFFICES ASSUME NEW outcome \in {"error", "cancelled"}, outcome = Outcome(t) PROVE PipeInv'
    BY <1>3
  <2>1. SetTask(t, Ended(outcome)) /\ ready' = Append(Tail(ready), CallbackHandle(t))
        /\ outcome \in Outcomes \ {"none"}
    BY <1>3 DEF End, Outcomes
  <2>2. TransfersInv'
    BY <1>1, <1>3, <2>1, EndsInv
  <2>3. /\ Ended(outcome) \in TaskRecords /\ Ended(outcome).from = 0 /\ Ended(outcome).to = 0
        /\ 0 <= produced' /\ 0 - 0 <= XferSize /\ 0 <= 0
    BY <1>1, <2>1, EndedType
  <2> QED BY <1>1, <1>2, <2>1, <2>2, <2>3, OneTaskRest DEF pipeVars
<1>4. CASE kind = "wake" /\ Retires(t)
  <2> DEFINE new == [tasks[t] EXCEPT !.state = "cancelling"]
  <2>1. SetTask(t, new) /\ HasToCancel(t) /\ ready' = Tail(ready)
    BY <1>4 DEF Retires
  <2>2. TransfersInv'
    BY <1>1, <1>4, <2>1, CancelsInv
  <2>3. /\ new \in TaskRecords /\ new.from = tasks[t].from /\ new.to = tasks[t].to
        /\ new.urb = "submitted" /\ tasks[t].from = 0 /\ tasks[t].to = 0
    BY <1>1, <2>1 DEF TaskRecords, TaskState, HasToCancel, PipeInv, DataFits
  <2> HIDE DEF new
  <2> QED BY <1>1, <1>2, <2>1, <2>2, <2>3, OneTaskRest DEF pipeVars
<1> QED BY <1>3, <1>4

LEMMA StoredParts ==
    ASSUME PipeInv, NEW t \in TaskIds
    PROVE  /\ buffer \o Bytes(t) \in Seq(1..produced)
           /\ Len(buffer \o Bytes(t)) = Len(buffer) + Len(Bytes(t))
           /\ DOMAIN (buffer \o Bytes(t)) = 1..(Len(buffer) + Len(Bytes(t)))
           /\ \A i \in DOMAIN buffer : (buffer \o Bytes(t))[i] = buffer[i]
           /\ \A i \in DOMAIN Bytes(t) : (buffer \o Bytes(t))[Len(buffer) + i] = Bytes(t)[i]
<1>1. buffer \in Seq(1..produced) /\ Bytes(t) \in Seq(1..produced)
  BY PipeFacts, BytesParts
<1> SUFFICES ASSUME NEW S, S = 1..produced, NEW b, b = Bytes(t)
    PROVE  /\ buffer \o b \in Seq(S) /\ Len(buffer \o b) = Len(buffer) + Len(b)
           /\ DOMAIN (buffer \o b) = 1..(Len(buffer) + Len(b))
           /\ \A i \in DOMAIN buffer : (buffer \o b)[i] = buffer[i]
           /\ \A i \in DOMAIN b : (buffer \o b)[Len(buffer) + i] = b[i]
  BY Zenon
<1>2. buffer \in Seq(S) /\ b \in Seq(S)
  BY <1>1
<1> QED BY ONLY <1>2, ConcatParts

(* The data of a transfer goes to the buffer. *)
LEMMA StoreFacts ==
    ASSUME PipeInv, NEW t, TaskRuns("wake", t), Outcome(t) = "ok", Store(t)
    PROVE  LET n == Len(tasks) + 1
           IN  /\ t \in TaskIds /\ tasks[t].state = "completed" /\ ~tasks[t].mustCancel
               /\ tasks[t].urb = "ok"
               /\ n \in Nat /\ n \notin TaskIds /\ n # t /\ TaskIds' = TaskIds \cup {n}
               /\ tasks' \in Seq(TaskRecords) /\ DOMAIN tasks' = TaskIds'
               /\ tasks'[n] = Task(0, 0) /\ tasks'[t] = Ended("ok")
               /\ \A u \in TaskIds : u # t => tasks'[u] = tasks[u]
               /\ ready' = Tail(ready) \o <<StartHandle(n), CallbackHandle(t)>>
               /\ live' = live \cup {n}
               /\ UNCHANGED <<running, pc, done, waitFor, taken, usbVars, callVars, urbs, waiters>>
               /\ buffer' = buffer \o Bytes(t) /\ buffer' \in Seq(1..produced)
               /\ Len(buffer') = Len(buffer) + Stored(t)
               /\ DOMAIN buffer' = 1..(Len(buffer) + Stored(t))
               /\ \A i \in DOMAIN buffer : buffer'[i] = buffer[i]
               /\ \A i \in 1..Stored(t) : buffer'[Len(buffer) + i] = tasks[t].from + i
<1> SUFFICES ASSUME NEW n, n = Len(tasks) + 1
    PROVE  /\ t \in TaskIds /\ tasks[t].state = "completed" /\ ~tasks[t].mustCancel
           /\ tasks[t].urb = "ok"
           /\ n \in Nat /\ n \notin TaskIds /\ n # t /\ TaskIds' = TaskIds \cup {n}
           /\ tasks' \in Seq(TaskRecords) /\ DOMAIN tasks' = TaskIds'
           /\ tasks'[n] = Task(0, 0) /\ tasks'[t] = Ended("ok")
           /\ \A u \in TaskIds : u # t => tasks'[u] = tasks[u]
           /\ ready' = Tail(ready) \o <<StartHandle(n), CallbackHandle(t)>>
           /\ live' = live \cup {n}
           /\ UNCHANGED <<running, pc, done, waitFor, taken, usbVars, callVars, urbs, waiters>>
           /\ buffer' = buffer \o Bytes(t) /\ buffer' \in Seq(1..produced)
           /\ Len(buffer') = Len(buffer) + Stored(t)
           /\ DOMAIN buffer' = 1..(Len(buffer) + Stored(t))
           /\ \A i \in DOMAIN buffer : buffer'[i] = buffer[i]
           /\ \A i \in 1..Stored(t) : buffer'[Len(buffer) + i] = tasks[t].from + i
  BY Zenon
<1>1. t \in TaskIds /\ TransfersInv
  BY PipeFacts DEF TaskRuns
<1>2. tasks[t].state = "completed" /\ ~tasks[t].mustCancel /\ tasks[t].urb = "ok"
  BY DEF Outcome
<1>3. /\ n \in Nat /\ n \notin TaskIds /\ n # t /\ TaskIds' = TaskIds \cup {n}
      /\ tasks' \in Seq(TaskRecords) /\ DOMAIN tasks' = TaskIds'
      /\ tasks'[n] = Task(0, 0) /\ tasks'[t] = Ended("ok")
      /\ \A u \in TaskIds : u # t => tasks'[u] = tasks[u]
  <2>1. "ok" \in Outcomes \ {"none"} /\ Task(0, 0) \in TaskRecords
    BY TaskType DEF Outcomes
  <2>2. tasks' = Append([tasks EXCEPT ![t] = Ended("ok")], Task(0, 0))
    BY DEF Store
  <2> SUFFICES ASSUME NEW task \in TaskRecords, task = Task(0, 0)
      PROVE  /\ n \in Nat /\ n \notin TaskIds /\ n # t /\ TaskIds' = TaskIds \cup {n}
             /\ tasks' \in Seq(TaskRecords) /\ DOMAIN tasks' = TaskIds'
             /\ tasks'[n] = task /\ tasks'[t] = Ended("ok")
             /\ \A u \in TaskIds : u # t => tasks'[u] = tasks[u]
    BY <2>1
  <2> QED BY <1>1, <2>1, <2>2, SucceedsTasks DEF TaskIds
<1>4. /\ ready' = Tail(ready) \o <<StartHandle(n), CallbackHandle(t)>>
      /\ live' = live \cup {n} /\ buffer' = buffer \o Bytes(t)
      /\ UNCHANGED <<running, pc, done, waitFor, taken, usbVars, callVars, urbs, waiters>>
  BY DEF Store, TaskRuns
<1>5. /\ buffer' \in Seq(1..produced) /\ Len(buffer') = Len(buffer) + Stored(t)
      /\ DOMAIN buffer' = 1..(Len(buffer) + Stored(t))
      /\ \A i \in DOMAIN buffer : buffer'[i] = buffer[i]
      /\ \A i \in 1..Stored(t) : buffer'[Len(buffer) + i] = tasks[t].from + i
  <2>1. /\ Len(Bytes(t)) = Stored(t) /\ DOMAIN Bytes(t) = 1..Stored(t)
        /\ \A i \in 1..Stored(t) : Bytes(t)[i] = tasks[t].from + i
    BY <1>1, BytesParts
  <2>2. /\ buffer' \in Seq(1..produced) /\ Len(buffer') = Len(buffer) + Len(Bytes(t))
        /\ DOMAIN buffer' = 1..(Len(buffer) + Len(Bytes(t)))
        /\ \A i \in DOMAIN buffer : buffer'[i] = buffer[i]
        /\ \A i \in DOMAIN Bytes(t) : buffer'[Len(buffer) + i] = Bytes(t)[i]
    BY <1>1, <1>4, StoredParts, Zenon
  <2> QED BY <2>1, <2>2
<1> QED BY <1>1, <1>2, <1>3, <1>4, <1>5, Zenon

LEMMA StoreInv ==
    ASSUME PipeInv, NEW t, TaskRuns("wake", t), Outcome(t) = "ok", Store(t)
    PROVE  PipeInv'
<1> SUFFICES ASSUME NEW n, n = Len(tasks) + 1 PROVE PipeInv'
  OBVIOUS
<1>1. /\ t \in TaskIds /\ tasks[t].state = "completed" /\ ~tasks[t].mustCancel
      /\ n \in Nat /\ n \notin TaskIds /\ n # t /\ TaskIds' = TaskIds \cup {n}
      /\ tasks'[n] = Task(0, 0) /\ tasks'[t] = Ended("ok")
      /\ \A u \in TaskIds : u # t => tasks'[u] = tasks[u]
      /\ ready' = Tail(ready) \o <<StartHandle(n), CallbackHandle(t)>>
      /\ live' = live \cup {n}
      /\ UNCHANGED <<running, pc, done, waitFor, taken, usbVars, callVars, urbs, waiters>>
      /\ buffer' \in Seq(1..produced)
  BY StoreFacts, Zenon
<1>2. /\ Turn("wake") /\ t = Head(ready).task /\ TransfersInv /\ produced \in Nat
      /\ XferSize \in Nat /\ produced' = produced
  BY <1>1, PipeFacts DEF TaskRuns, usbVars
<1>3. "ok" \in Outcomes \ {"none"}
  BY DEF Outcomes
<1>4. TransfersInv'
  <2>1. tasks' = Append([tasks EXCEPT ![t] = Ended("ok")], Task(0, 0))
    BY DEF Store
  <2> SUFFICES ASSUME NEW task, task = Task(0, 0) PROVE TransfersInv'
    OBVIOUS
  <2>2. /\ task \in TaskRecords /\ task.state = "created" /\ task.urb = "none"
        /\ task.outcome = "none"
    BY TaskType
  <2>3. tasks' = Append([tasks EXCEPT ![t] = Ended("ok")], task)
    BY <2>1
  <2> QED BY <1>1, <1>2, <1>3, <2>2, <2>3, SucceedsInv
<1>5. /\ Ended("ok").from = 0 /\ Ended("ok").to = 0 /\ Task(0, 0).from = 0 /\ Task(0, 0).to = 0
      /\ 0 <= produced /\ 0 - 0 <= XferSize /\ 0 <= 0
  BY <1>2, <1>3, EndedType, TaskType
<1>6. DataFits'
  <2>1. ASSUME NEW u \in TaskIds'
        PROVE  /\ tasks'[u].from <= tasks'[u].to /\ tasks'[u].to <= produced'
               /\ tasks'[u].to - tasks'[u].from <= XferSize
               /\ tasks'[u].urb \in {"none", "submitted", "cancelled"} =>
                     tasks'[u].from = 0 /\ tasks'[u].to = 0
    <3>1. CASE u \in {n, t}
      BY <1>1, <1>2, <1>5, <3>1
    <3>2. CASE u \notin {n, t}
      <4>1. u \in TaskIds /\ tasks'[u] = tasks[u]
        BY <1>1, <2>1, <3>2
      <4> QED BY <1>2, <4>1 DEF PipeInv, DataFits
    <3> QED BY <3>1, <3>2
  <2> QED BY <2>1 DEF DataFits
<1>7. WaitersFit' /\ waiters' \in Seq(TaskIds')
  <2>1. /\ waiters' = waiters /\ waiters \in Seq(TaskIds) /\ TaskIds \subseteq TaskIds'
        /\ \A i \in DOMAIN waiters : waiters[i] \in TaskIds /\ waiters[i] # t
                                     /\ tasks[waiters[i]].state = "waiting"
    BY <1>1, PipeFacts
  <2>2. waiters \in Seq(TaskIds')
    BY <2>1, SeqMonotonic
  <2> QED BY <1>1, <2>1, <2>2 DEF WaitersFit, PipeInv
<1>8. PipeType' /\ ArgFits'
  BY <1>1, <1>2, <1>7 DEF PipeInv, PipeType, ArgFits, usbVars, callVars
<1> QED BY <1>4, <1>6, <1>7, <1>8 DEF PipeInv

LEMMA RefusesInv ==
    ASSUME PipeInv, NEW kind, NEW t, Refuses(kind, t)
    PROVE  PipeInv'
<1>1. /\ kind \in {"start", "wake"} /\ Turn(kind) /\ t = Head(ready).task /\ TransfersInv
      /\ SetTask(t, Ended("error")) /\ ready' = Append(Tail(ready), CallbackHandle(t))
      /\ UNCHANGED <<running, pc, live, done, waitFor, urbs, pipeVars, callVars>>
      /\ produced' \in Nat /\ produced' >= produced /\ XferSize \in Nat
      /\ transfers' \in Nat /\ failures' \in Nat
  BY PipeFacts DEF Refuses, PipeType
<1>2. /\ t \in TaskIds /\ tasks[t].state \in {"created", "notified"} /\ ~HasToCancel(t)
  BY RefusedTask
<1>3. "error" \in Outcomes \ {"none"}
  BY DEF Outcomes
<1>4. TransfersInv'
  BY <1>1, <1>2, <1>3, EndsInv
<1>5. /\ Ended("error") \in TaskRecords /\ Ended("error").from = 0 /\ Ended("error").to = 0
      /\ 0 <= produced' /\ 0 - 0 <= XferSize /\ 0 <= 0
  BY <1>1, <1>3, EndedType
<1> QED BY <1>1, <1>2, <1>4, <1>5, OneTaskRest

LEMMA TaskInv ==
    ASSUME PipeInv, NEW kind, NEW t, TaskStep(kind, t)
    PROVE  PipeInv'
  BY ProceedInv, EndInv, StoreInv DEF TaskStep

LEMMA CallResetInv ==
    ASSUME PipeInv, NEW c \in Callers, CallReset(c)
    PROVE  PipeInv'
<1>1. /\ tasks' = Cancelled /\ pc' = [pc EXCEPT ![c] = "cancel"] /\ TransfersInv
      /\ TransfersInv' /\ TaskIds' = TaskIds /\ waiters' = <<>> /\ resets' = resets + 1
      /\ UNCHANGED <<buffer, taken, usbVars, arg, result, shared>>
  BY PipeFacts, CancelQueueProperties, CancelQueueInv DEF CallReset
<1>2. waiters' \in Seq(TaskIds) /\ DOMAIN waiters' = {}
  <2>1. <<>> \in Seq(TaskIds) /\ DOMAIN <<>> = {}
    BY EmptySeq
  <2> QED BY <1>1, <2>1
<1>3. UNCHANGED <<produced, transfers, failures>> /\ resets' \in Nat
  BY <1>1 DEF usbVars, PipeInv, PipeType
<1>4. PipeType' /\ ArgFits'
  BY <1>1, <1>2, <1>3 DEF PipeInv, PipeType, ArgFits
<1>5. DataFits'
  BY <1>1, <1>3, CancelledProperties DEF PipeInv, DataFits
<1>6. WaitersFit'
  BY <1>2 DEF WaitersFit, Distinct
<1> QED BY <1>1, <1>4, <1>5, <1>6 DEF PipeInv

--------------------------------------------------------------------------------
(* _start() *)

StartHandles(first) == [i \in 1..XfersPerQueue |-> StartHandle(first + i)]

LEMMA StartQueue ==
    ASSUME NEW first \in Nat, NEW ts,
           \A i \in 1..XfersPerQueue :
               first + i \in DOMAIN ts /\ ts[first + i].state = "created"
    PROVE  /\ StartHandles(first) \in Seq(Handles) /\ QueueOK(StartHandles(first), ts)
           /\ DOMAIN StartHandles(first) = 1..XfersPerQueue
           /\ \A i \in 1..XfersPerQueue : /\ StartHandles(first)[i].kind = "start"
                                          /\ StartHandles(first)[i].task = first + i
<1> DEFINE w == StartHandles(first)
<1>0. XfersPerQueue \in Nat
  BY InPipeAssumption
<1>1. ASSUME NEW i \in 1..XfersPerQueue
      PROVE  /\ w[i] \in Handles /\ w[i].kind = "start" /\ w[i].task = first + i
             /\ HandleFits(w[i], ts)
  <2> SUFFICES ASSUME NEW t, t = first + i, w[i] = StartHandle(t)
      PROVE  /\ w[i] \in Handles /\ w[i].kind = "start" /\ w[i].task = t
             /\ HandleFits(w[i], ts)
    BY DEF StartHandles
  <2>1. t \in Nat /\ t \in DOMAIN ts /\ KindFits("start", ts[t])
    BY <1>0 DEF KindFits
  <2> HIDE DEF w
  <2>2. /\ StartHandle(t) \in Handles /\ StartHandle(t).kind = "start"
        /\ StartHandle(t).task = t /\ HandleFits(StartHandle(t), ts)
    BY <2>1, HandlesFit
  <2> QED BY <2>2
<1>2. w \in Seq(Handles) /\ DOMAIN w = 1..XfersPerQueue
  <2>1. w \in [1..XfersPerQueue -> Handles]
    BY <1>1 DEF StartHandles
  <2> HIDE DEF w
  <2> QED BY <1>0, <2>1, FunctionIsSeq
<1> HIDE DEF w
<1>3. Once(w)
  <2>1. \A i, j \in 1..XfersPerQueue : i # j => first + i # first + j
    BY <1>0
  <2> QED BY <1>1, <1>2, <2>1 DEF Once
<1>4. QueueOK(w, ts)
  BY <1>1, <1>2, <1>3 DEF QueueOK
<1> QED BY <1>1, <1>2, <1>4 DEF w

(* A full set of tasks is submitted behind those that there have been. *)
LEMMA StartFacts ==
    ASSUME PipeInv, StartTasks(Len(tasks))
    PROVE  /\ Len(tasks) \in Nat /\ TaskIds = 1..Len(tasks) /\ XfersPerQueue \in Nat
           /\ TaskIds' = 1..(Len(tasks) + XfersPerQueue) /\ DOMAIN tasks' = TaskIds'
           /\ tasks' \in Seq(TaskRecords) /\ TaskIds \subseteq TaskIds'
           /\ \A t \in TaskIds : tasks'[t] = tasks[t]
           /\ \A t \in TaskIds' \ TaskIds : tasks'[t] = Task(0, 0)
           /\ live' = TaskIds' \ TaskIds
           /\ ready' = ready \o StartHandles(Len(tasks))
<1> SUFFICES ASSUME NEW first \in Nat, first = Len(tasks), NEW n \in Nat, n = first + XfersPerQueue,
                    XfersPerQueue \in Nat
    PROVE  /\ TaskIds = 1..first /\ TaskIds' = 1..n /\ DOMAIN tasks' = TaskIds'
           /\ tasks' \in Seq(TaskRecords) /\ TaskIds \subseteq TaskIds'
           /\ \A t \in TaskIds : tasks'[t] = tasks[t]
           /\ \A t \in TaskIds' \ TaskIds : tasks'[t] = Task(0, 0)
           /\ live' = TaskIds' \ TaskIds
           /\ ready' = ready \o StartHandles(first)
  <2>1. Len(tasks) \in Nat /\ XfersPerQueue \in Nat
    BY PipeFacts, TypeFacts, InPipeAssumption
  <2> QED BY <2>1
<1>1. /\ TaskIds = 1..first /\ \A t \in TaskIds : tasks[t] \in TaskRecords
  BY PipeFacts, TypeFacts
<1>2. /\ tasks' = [t \in 1..n |-> IF t <= first THEN tasks[t] ELSE Task(0, 0)]
      /\ live' = (first + 1)..n /\ ready' = ready \o StartHandles(first)
  BY DEF StartTasks, StartHandles
<1>3. Task(0, 0) \in TaskRecords
  BY TaskType
<1>4. tasks' \in [1..n -> TaskRecords]
  BY <1>1, <1>2, <1>3
<1>5. tasks' \in Seq(TaskRecords) /\ Len(tasks') = n /\ DOMAIN tasks' = 1..n
  BY <1>4, FunctionIsSeq
<1>6. TaskIds' = 1..n
  BY <1>5 DEF TaskIds
<1>7. /\ \A t \in TaskIds : tasks'[t] = tasks[t]
      /\ \A t \in TaskIds' \ TaskIds : tasks'[t] = Task(0, 0)
  BY <1>1, <1>2, <1>6
<1>8. live' = TaskIds' \ TaskIds /\ TaskIds \subseteq TaskIds'
  BY <1>1, <1>2, <1>6
<1> QED BY <1>1, <1>2, <1>5, <1>6, <1>7, <1>8

LEMMA StartInv ==
    ASSUME PipeInv, StartTasks(Len(tasks)), UNCHANGED <<running, waitFor, urbs>>, done' = <<>>
    PROVE  TransfersInv'
<1> SUFFICES ASSUME NEW first \in Nat, first = Len(tasks), NEW n \in Nat, n = first + XfersPerQueue,
                    XfersPerQueue \in Nat
    PROVE  TransfersInv'
  BY StartFacts
<1>1. /\ TaskIds = 1..first /\ TaskIds' = 1..n /\ DOMAIN tasks' = TaskIds'
      /\ tasks' \in Seq(TaskRecords) /\ TaskIds \subseteq TaskIds'
      /\ \A t \in TaskIds : tasks'[t] = tasks[t]
      /\ \A t \in TaskIds' \ TaskIds : tasks'[t] = Task(0, 0)
      /\ live' = TaskIds' \ TaskIds
      /\ ready' = ready \o StartHandles(first)
  BY StartFacts
<1>2. TransfersInv /\ QueueOK(ready, tasks) /\ DOMAIN tasks = TaskIds
      /\ \A t \in TaskIds : TaskFits(tasks[t])
  BY PipeFacts, TypeFacts
<1>3. Task(0, 0).state = "created" /\ TaskFits(Task(0, 0))
  BY TaskType
<1>4. \A t \in 1..n : TaskFits(tasks'[t])
  BY <1>1, <1>2, <1>3
<1>5. QueueOK(ready', tasks')
  <2>1. QueueOK(ready, tasks')
    BY <1>1, <1>2, TasksAdded
  <2>2. ASSUME NEW i \in 1..XfersPerQueue
        PROVE  /\ first + i \in DOMAIN tasks' /\ first + i \notin DOMAIN tasks
               /\ tasks'[first + i].state = "created"
    <3>1. first + i \in 1..n /\ first + i \notin 1..first
      OBVIOUS
    <3> QED BY <1>1, <1>2, <1>3, <3>1
  <2>6. /\ QueueOK(StartHandles(first), tasks') /\ DOMAIN StartHandles(first) = 1..XfersPerQueue
        /\ \A i \in 1..XfersPerQueue : /\ StartHandles(first)[i].kind = "start"
                                       /\ StartHandles(first)[i].task = first + i
    BY ZenonT(30), SMTT(30), <2>2, StartQueue
  <2> SUFFICES ASSUME NEW w, w = StartHandles(first) PROVE QueueOK(ready \o w, tasks')
    BY <1>1, Zenon
  <2>3. /\ QueueOK(w, tasks') /\ DOMAIN w = 1..XfersPerQueue
        /\ \A i \in 1..XfersPerQueue : w[i].kind = "start" /\ w[i].task = first + i
    BY <2>6, Zenon
  <2>4. ASSUME NEW i \in DOMAIN w PROVE Absent(ready, w[i].kind, w[i].task)
    <3> SUFFICES ASSUME NEW t, t = w[i].task PROVE Absent(ready, "start", t)
      BY <2>3
    <3>1. t \notin DOMAIN tasks
      BY <2>2, <2>3
    <3> QED BY <1>2, <3>1, AbsentHandles DEF TaskKinds
  <2> QED BY <2>1, <2>3, <2>4, QueueConcat
<1>6. Len(tasks') = n
  <2>1. DOMAIN tasks' = 1..Len(tasks') /\ Len(tasks') \in Nat
    BY <1>1, LenProperties
  <2> SUFFICES ASSUME NEW m \in Nat, m = Len(tasks'), 1..m = 1..n PROVE m = n
    BY <1>1, <2>1
  <2>2. m \in 1..m \/ m = 0
    OBVIOUS
  <2>3. n \in 1..n \/ n = 0
    OBVIOUS
  <2> QED BY <2>2, <2>3
<1>7. running' \in Callers \cup {NoCaller} /\ live' \subseteq 1..n /\ done' \in Seq(TaskIds)
  <2>1. <<>> \in Seq(TaskIds)
    BY EmptySeq
  <2> QED BY <1>1, <1>2, <2>1 DEF TransfersInv, TransfersType
<1> QED BY <1>1, <1>2, <1>4, <1>5, <1>6, <1>7, TasksGrow

LEMMA EndCancelInv ==
    ASSUME PipeInv, NEW c \in Callers, EndCancel(c)
    PROVE  PipeInv'
<1>1. /\ running = c /\ pc[c] = "cancel" /\ done' = <<>> /\ pc' = [pc EXCEPT ![c] = "run"]
      /\ UNCHANGED <<running, waitFor, urbs, waiters, usbVars, callVars>>
      /\ \/ UNCHANGED <<tasks, live, ready, buffer, taken>>
         \/ StartTasks(Len(tasks)) /\ Clear
  BY DEF EndCancel
<1>2. <<>> \in Seq(TaskIds) /\ <<>> \in Seq(1..produced)
  BY EmptySeq
<1>3. TransfersInv /\ UNCHANGED <<produced, transfers, failures, resets, arg, result, shared>>
      /\ produced \in Nat
  BY <1>1, PipeFacts DEF usbVars, callVars
<1>4. ArgFits'
  BY <1>1, <1>3 DEF ArgFits, PipeInv, PipeType
<1>5. CASE UNCHANGED <<tasks, live, ready, buffer, taken>>
  <2>1. TransfersInv'
    BY <1>1, <1>2, <1>3, <1>5, TasksKept DEF TransfersInv, TransfersType
  <2> QED BY <1>1, <1>3, <1>4, <1>5, <2>1, RestKept DEF PipeInv, PipeType
<1>6. CASE StartTasks(Len(tasks)) /\ Clear
  <2>1. TransfersInv'
    BY <1>1, <1>6, StartInv
  <2>2. /\ TaskIds \subseteq TaskIds' /\ \A t \in TaskIds : tasks'[t] = tasks[t]
        /\ \A t \in TaskIds' \ TaskIds : tasks'[t] = Task(0, 0)
    <3>1. StartTasks(Len(tasks))
      BY <1>6
    <3> QED BY <3>1, StartFacts
  <2>3. Task(0, 0).from = 0 /\ Task(0, 0).to = 0 /\ XferSize \in Nat
    BY TaskType, InPipeAssumption
  <2>4. DataFits'
    BY <1>3, <2>2, <2>3 DEF DataFits, PipeInv
  <2>5. WaitersFit' /\ waiters' \in Seq(TaskIds')
    <3>1. /\ waiters' = waiters /\ waiters \in Seq(TaskIds)
          /\ \A i \in DOMAIN waiters : waiters[i] \in TaskIds /\ tasks[waiters[i]].state = "waiting"
      BY <1>1, PipeFacts
    <3>2. waiters \in Seq(TaskIds')
      BY <2>2, <3>1, SeqMonotonic
    <3> QED BY <2>2, <3>1, <3>2 DEF WaitersFit, PipeInv
  <2>6. PipeType'
    BY <1>1, <1>2, <1>3, <1>6, <2>5 DEF PipeInv, PipeType, Clear
  <2> QED BY <1>4, <2>1, <2>4, <2>5, <2>6 DEF PipeInv
<1> QED BY <1>1, <1>5, <1>6

--------------------------------------------------------------------------------

LEMMA PipeNext == PipeInv /\ [Next]_vars => PipeInv'
<1> SUFFICES ASSUME PipeInv, [Next]_vars PROVE PipeInv'
  OBVIOUS
<1> QED BY StepKinds, QuietInv, ReadsInv, CallResetInv, EndCancelInv, TaskInv, RefusesInv,
           CallbackInv, CompleteInv

LEMMA PipeInit == Init => PipeInv
<1> SUFFICES ASSUME Init PROVE PipeInv
  OBVIOUS
<1>1. /\ XfersPerQueue \in Nat /\ Task(0, 0) \in TaskRecords /\ TaskFits(Task(0, 0))
      /\ Task(0, 0).from = 0 /\ Task(0, 0).to = 0 /\ Task(0, 0).state = "created"
      /\ XferSize \in Nat
  BY TaskType, InPipeAssumption
<1>2. /\ tasks \in Seq(TaskRecords) /\ TaskIds = 1..XfersPerQueue /\ DOMAIN tasks = TaskIds
      /\ \A t \in TaskIds : tasks[t] = Task(0, 0)
  <2>1. tasks = [t \in 1..XfersPerQueue |-> Task(0, 0)]
    BY DEF Init
  <2>2. tasks \in [1..XfersPerQueue -> TaskRecords]
    BY <1>1, <2>1
  <2>3. tasks \in Seq(TaskRecords) /\ Len(tasks) = XfersPerQueue /\ DOMAIN tasks = 1..XfersPerQueue
    BY <1>1, <2>2, FunctionIsSeq
  <2> QED BY <2>1, <2>3 DEF TaskIds
<1>3. QueueOK(ready, tasks)
  <2>1. ready = [i \in 1..XfersPerQueue |-> StartHandle(i)]
    BY DEF Init
  <2>2. ready = StartHandles(0)
    <3>1. \A i \in 1..XfersPerQueue : 0 + i = i
      BY <1>1
    <3> QED BY <2>1, <3>1 DEF StartHandles
  <2>3. \A i \in 1..XfersPerQueue : 0 + i \in DOMAIN tasks /\ tasks[0 + i].state = "created"
    BY <1>1, <1>2
  <2>4. QueueOK(StartHandles(0), tasks)
    BY <2>3, StartQueue
  <2> QED BY <2>2, <2>4
<1>4. /\ urbs = <<>> /\ done = <<>> /\ waiters = <<>> /\ buffer = <<>> /\ running = NoCaller
      /\ live = 1..XfersPerQueue /\ taken = 0 /\ produced = 0
      /\ transfers = 0 /\ failures = 0 /\ resets = 0
      /\ pc = [c \in Callers |-> "idle"] /\ waitFor = [c \in Callers |-> {}]
      /\ arg = [c \in Callers |-> 0] /\ result = [c \in Callers |-> <<>>] /\ shared = {}
  BY DEF Init
<1>5. \A S : <<>> \in Seq(S) /\ DOMAIN <<>> = {}
  BY EmptySeq
<1>6. TransfersInv
  BY <1>1, <1>2, <1>3, <1>4, <1>5 DEF TransfersInv, TransfersType, UrbsFit
<1>7. PipeType
  BY <1>4, <1>5 DEF PipeType
<1>8. DataFits /\ WaitersFit /\ ArgFits
  <2>1. DataFits
    BY <1>1, <1>2, <1>4 DEF DataFits
  <2>2. WaitersFit
    BY <1>4, <1>5 DEF WaitersFit, Distinct
  <2> QED BY <1>4, <2>1, <2>2 DEF ArgFits
<1> QED BY <1>6, <1>7, <1>8 DEF PipeInv

LEMMA PipeAlways == Spec => []PipeInv
  BY PipeInit, PipeNext, PTL DEF Spec

(* Type correctness: the variables of the IN pipe have their types, so that *)
(* no handle names a task that does not exist and no byte is stored that    *)
(* the device has not produced.                                             *)
THEOREM TypeCorrect == Spec => []TypeOK
<1>1. PipeInv => TypeOK
  BY DEF PipeInv, PipeType, TransfersInv, TransfersType, QueueOK, TypeOK
<1> QED BY <1>1, PipeAlways, PTL

--------------------------------------------------------------------------------
(* The callers *)

LEMMA QuietCallers ==
    ASSUME PipeInv, CallersFit, Quiet
    PROVE  CallersFit'
<1>0. /\ TransfersInv /\ pc \in [Callers -> {"idle", "called", "run", "recv", "until", "cancel"}]
      /\ Resumes(ready, pc, waitFor, running)
  BY PipeFacts DEF CallersFit
<1>1. ASSUME NEW c \in Callers, QuietCaller(c) PROVE CallersFit'
  <2>1. CASE CallerWakes(c)
    BY <1>0, <2>1, CallersWake
  <2>2. CASE Resume(c)
    BY <1>0, <2>2, CallersResume
  <2>3. CASE Yields(c)
    BY <1>0, <2>3, CallersYield DEF Yields
  <2>4. CASE CallRecv(c) \/ CallRecvUntil(c)
    <3>1. PICK op \in {"recv", "until"} : Calls(c, op) /\ UNCHANGED <<ready, running, waitFor>>
      BY <2>4 DEF CallRecv, CallRecvUntil
    <3>2. op \notin {"idle", "cancel"}
      OBVIOUS
    <3> QED BY <1>0, <3>1, <3>2, CallersCall
  <2>5. CASE RecvWait(c)
    <3>1. running = c /\ pc[c] \notin Outside /\ pc[c] # "cancel"
      BY <2>5 DEF RecvWait, Outside
    <3>2. CASE WaitOne(c)
      BY <1>0, <3>1, <3>2, CallersWaitOne
    <3>3. CASE pc' = [pc EXCEPT ![c] = "run"] /\ UNCHANGED <<ready, running, done, waitFor>>
      BY <1>0, <3>1, <3>3, CallersGo
    <3> QED BY <2>5, <3>2, <3>3 DEF RecvWait
  <2> QED BY <1>1, <2>1, <2>2, <2>3, <2>4, <2>5 DEF QuietCaller
<1>2. CASE TaskCallback \/ LateCompleted
  BY <1>0, <1>2, CallersCompleted
<1>3. CASE UNCHANGED vars
  <2>1. UNCHANGED <<ready, running, pc, waitFor>>
    BY <1>3 DEF vars
  <2> QED BY <1>0, <2>1, LoopKeeps
<1> QED BY <1>1, <1>2, <1>3 DEF Quiet

LEMMA CallersActs ==
    ASSUME PipeInv, CallersFit, NEW c \in Callers,
           RecvRead(c) \/ RecvUntilRead(c) \/ CallReset(c) \/ EndCancel(c)
    PROVE  CallersFit'
<1>0. /\ TransfersInv /\ pc \in [Callers -> {"idle", "called", "run", "recv", "until", "cancel"}]
      /\ Resumes(ready, pc, waitFor, running) /\ ready \in Seq(Handles)
  BY PipeFacts, TypeFacts DEF CallersFit
<1>1. CASE CallReset(c)
  BY <1>0, <1>1, CallersCancel DEF CallReset
<1>2. CASE RecvRead(c) \/ RecvUntilRead(c)
  <2>1. /\ running = c /\ pc[c] \notin Outside /\ pc[c] # "cancel"
        /\ pc' = pc \/ pc' = [pc EXCEPT ![c] = "run"]
        /\ UNCHANGED <<running, waitFor>>
    BY <1>2 DEF RecvRead, RecvUntilRead, Outside
  <2>2. ready' = ready \o NotifyHandles
    BY <1>2 DEF RecvRead, RecvUntilRead, Read, NotifyHandles
  <2> SUFFICES ASSUME NEW w, w = NotifyHandles, ready' = ready \o w PROVE CallersFit'
    BY <2>2
  <2>3. w \in Seq(Handles) /\ \A i \in DOMAIN w : w[i].kind # "resume"
    BY NotifyQueue
  <2>4. Resumes(ready', pc, waitFor, running)
    BY <1>0, <2>3, ResumesConcat
  <2> QED BY <1>0, <2>1, <2>4, CallersGo
<1>3. CASE EndCancel(c)
  <2>1. /\ running = c /\ pc[c] \notin Outside
        /\ pc' = [pc EXCEPT ![c] = "run"] /\ UNCHANGED <<running, waitFor>>
        /\ UNCHANGED ready \/ StartTasks(Len(tasks))
    BY <1>3 DEF EndCancel, Outside
  <2>2. CASE UNCHANGED ready
    BY <1>0, <2>1, <2>2, CallersGo
  <2>3. CASE StartTasks(Len(tasks))
    <3>1. ready' = ready \o StartHandles(Len(tasks)) /\ Len(tasks) \in Nat
      BY <2>3, StartFacts
    <3> SUFFICES ASSUME NEW first \in Nat, first = Len(tasks),
                        NEW w, w = StartHandles(first), ready' = ready \o w PROVE CallersFit'
      BY <3>1
    <3>2. ASSUME NEW i \in 1..XfersPerQueue
          PROVE  first + i \in DOMAIN tasks' /\ tasks'[first + i].state = "created"
      <4>1. /\ TaskIds' = 1..(first + XfersPerQueue) /\ DOMAIN tasks' = TaskIds'
            /\ TaskIds = 1..first /\ XfersPerQueue \in Nat
            /\ \A t \in TaskIds' \ TaskIds : tasks'[t] = Task(0, 0)
        BY <2>3, StartFacts
      <4>2. first + i \in 1..(first + XfersPerQueue) /\ first + i \notin 1..first
        BY <4>1
      <4>3. Task(0, 0).state = "created"
        BY TaskType
      <4> QED BY <4>1, <4>2, <4>3
    <3>3. /\ StartHandles(first) \in Seq(Handles) /\ DOMAIN StartHandles(first) = 1..XfersPerQueue
          /\ \A i \in 1..XfersPerQueue : StartHandles(first)[i].kind = "start"
      BY <3>2, StartQueue
    <3>4. w \in Seq(Handles) /\ \A i \in DOMAIN w : w[i].kind # "resume"
      BY <3>3
    <3>5. Resumes(ready', pc, waitFor, running)
      BY <1>0, <3>4, ResumesConcat
    <3> QED BY <1>0, <2>1, <3>5, CallersGo
  <2> QED BY <2>1, <2>2, <2>3
<1> QED BY <1>1, <1>2, <1>3

LEMMA CallersLoop ==
    ASSUME PipeInv, CallersFit, \/ \E kind, t : TaskStep(kind, t) \/ Refuses(kind, t)
           \/ UsbOrCallback \/ UsbComplete
    PROVE  CallersFit'
<1>0. /\ TransfersInv /\ Resumes(ready, pc, waitFor, running) /\ ready \in Seq(Handles)
      /\ TaskIds \subseteq Nat
  BY PipeFacts, TypeFacts DEF CallersFit
<1>1. CASE UsbOrCallback
  BY <1>0, <1>1, CallersTransfers DEF UsbOrCallback
<1>2. CASE UsbComplete
  <2>1. PICK t \in TaskIds : /\ ready' = Append(ready, Handle("usb", t, {}))
                             /\ UNCHANGED <<running, pc, waitFor>>
    BY <1>2, CompleteFacts
  <2>2. Handle("usb", t, {}) \in Handles /\ Handle("usb", t, {}).kind # "resume"
    BY <1>0 DEF Handle, Handles, Kinds
  <2>3. Resumes(ready', pc, waitFor, running)
    BY <1>0, <2>1, <2>2, OtherHandles
  <2> QED BY <2>1, <2>3, LoopKeeps
<1>3. ASSUME NEW kind, NEW t, TaskStep(kind, t) \/ Refuses(kind, t) PROVE CallersFit'
  <2>1. /\ Turn(kind) /\ kind \in {"start", "wake"} /\ t \in TaskIds /\ t \in Nat
        /\ UNCHANGED <<running, pc, waitFor>>
    BY <1>0, <1>3 DEF TaskStep, TaskRuns, Refuses
  <2>2. ready # <<>>
    BY <2>1 DEF Turn
  <2>3. /\ Tail(ready) \in Seq(Handles) /\ Resumes(Tail(ready), pc, waitFor, running)
    BY <1>0, <2>2, ResumesTail
  <2>4. CASE ready' = Tail(ready)
    BY <2>1, <2>3, <2>4, LoopKeeps
  <2>5. CASE ready' = Append(Tail(ready), CallbackHandle(t))
    <3>1. CallbackHandle(t) \in Handles /\ CallbackHandle(t).kind # "resume"
      BY <2>1 DEF CallbackHandle, Handle, Handles, Kinds
    <3>2. Resumes(ready', pc, waitFor, running)
      BY <2>3, <2>5, <3>1, OtherHandles
    <3> QED BY <2>1, <3>2, LoopKeeps
  <2>6. CASE kind = "wake" /\ Outcome(t) = "ok" /\ Store(t)
    <3>1. ready' = Tail(ready) \o <<StartHandle(Len(tasks) + 1), CallbackHandle(t)>>
      BY <2>6 DEF Store
    <3>2. /\ StartHandle(Len(tasks) + 1) \in Handles /\ CallbackHandle(t) \in Handles
          /\ StartHandle(Len(tasks) + 1).kind = "start" /\ CallbackHandle(t).kind = "callback"
      <4>1. Len(tasks) + 1 \in Nat
        BY <1>0, TypeFacts
      <4> QED BY <2>1, <4>1 DEF StartHandle, CallbackHandle, Handle, Handles, Kinds
    <3> SUFFICES ASSUME NEW g \in Handles, NEW h \in Handles, g.kind = "start", h.kind = "callback",
                        NEW w, w = <<g, h>>, ready' = Tail(ready) \o w
        PROVE  CallersFit'
      BY <3>1, <3>2
    <3>3. w \in Seq(Handles) /\ \A i \in DOMAIN w : w[i].kind # "resume"
      OBVIOUS
    <3>4. Resumes(ready', pc, waitFor, running)
      BY <2>3, <3>3, ResumesConcat
    <3> QED BY <2>1, <3>4, LoopKeeps
  <2> QED BY <1>3, <2>4, <2>5, <2>6 DEF TaskStep, Proceed, End, Retires, Refuses
<1> QED BY <1>1, <1>2, <1>3

LEMMA CallersNext == PipeInv /\ CallersFit /\ [Next]_vars => CallersFit'
<1> SUFFICES ASSUME PipeInv, CallersFit, [Next]_vars PROVE CallersFit'
  OBVIOUS
<1> QED BY StepKinds, QuietCallers, CallersActs, CallersLoop

LEMMA CallersAlways == Spec => []CallersFit
<1>1. Init => CallersFit
  <2> SUFFICES ASSUME Init PROVE CallersFit
    OBVIOUS
  <2>1. /\ \A c \in Callers : pc[c] = "idle" /\ waitFor[c] = {} /\ running # c
        /\ \A i \in DOMAIN ready : ready[i].kind = "start"
    BY CallersAssumption DEF Init, StartHandle, Handle
  <2> QED BY <2>1 DEF CallersFit, Resumes, Names, Outside
<1> QED BY <1>1, CallersNext, PipeAlways, PTL DEF Spec

--------------------------------------------------------------------------------
(* reset() *)

ResetAll == ResetInv /\ LiveFit

LEMMA QuietReset ==
    ASSUME PipeInv, ResetAll, Quiet
    PROVE  ResetAll'
<1>0. /\ TransfersInv /\ pc \in [Callers -> {"idle", "called", "run", "recv", "until", "cancel"}]
      /\ ResetInv /\ LiveFit
  BY PipeFacts DEF ResetAll
<1>1. ASSUME NEW c \in Callers, QuietCaller(c) PROVE ResetInv' /\ LiveFit'
  <2>1. CASE (CallerWakes(c) /\ Untouched) \/ Yields(c)
    BY <1>0, <2>1, ResetWakes DEF Yields, Untouched
  <2>2. CASE Resume(c)
    BY <1>0, <2>2, ResetResumes
  <2>4. CASE CallRecv(c) \/ CallRecvUntil(c)
    <3>1. PICK op \in {"recv", "until"} : Calls(c, op) /\ UNCHANGED <<tasks, live, waitFor>>
      BY <2>4 DEF CallRecv, CallRecvUntil
    <3>2. op # "cancel"
      OBVIOUS
    <3> QED BY <1>0, <3>1, <3>2, ResetCalls
  <2>5. CASE RecvWait(c)
    <3>1. running = c /\ pc[c] # "cancel" /\ UNCHANGED <<tasks, live>>
      BY <2>5 DEF RecvWait
    <3>2. CASE WaitOne(c)
      BY <1>0, <3>1, <3>2, ResetWaitOne
    <3>3. CASE pc' = [pc EXCEPT ![c] = "run"] /\ UNCHANGED <<ready, running, done, waitFor>>
      <4>1. \E op : op # "cancel" /\ pc' = [pc EXCEPT ![c] = op]
        BY <3>3
      <4>2. UNCHANGED waitFor
        BY <3>3
      <4> QED BY <1>0, <3>1, <4>1, <4>2, ResetSame
    <3> QED BY <2>5, <3>2, <3>3 DEF RecvWait
  <2> QED BY <1>1, <2>1, <2>2, <2>4, <2>5 DEF QuietCaller
<1>2. CASE (TaskCallback \/ LateCompleted) /\ Untouched
  BY <1>0, <1>2, ResetCompleted DEF Untouched, ResetAll
<1>3. CASE UNCHANGED vars
  <2>1. UNCHANGED <<tasks, live, pc, waitFor>>
    BY <1>3 DEF vars
  <2>2. LiveFit'
    BY <1>0, <2>1, TasksUnchanged DEF LiveFit
  <2>3. \A t : Doomed(t)' <=> Doomed(t)
    BY <2>1, TasksUnchanged
  <2>4. Unfinished' = Unfinished
    BY <2>1, TasksUnchanged
  <2> QED BY <1>0, <2>1, <2>2, <2>3, <2>4 DEF ResetInv, ResetAll
<1> QED BY <1>1, <1>2, <1>3 DEF Quiet, ResetAll

(* Notifying the tasks that are held back neither ends nor cancels any. *)
LEMMA NotifiedUnfinished ==
    ASSUME PipeInv, tasks' = Notified
    PROVE  /\ TaskIds' = TaskIds /\ Unfinished' = Unfinished
           /\ \A t \in TaskIds : Doomed(t)' <=> Doomed(t)
<1>1. TaskIds' = TaskIds
  BY NotifiedProperties DEF TaskIds
<1>2. ASSUME NEW t \in TaskIds
      PROVE  (tasks'[t].state = "over" <=> tasks[t].state = "over") /\ (Doomed(t)' <=> Doomed(t))
  BY NotifiedProperties DEF Doomed
<1> QED BY <1>1, <1>2 DEF Unfinished, Over

LEMMA ReadsReset ==
    ASSUME PipeInv, ResetAll, NEW c \in Callers, RecvRead(c) \/ RecvUntilRead(c)
    PROVE  ResetAll'
<1>1. /\ tasks' = Notified /\ running = c /\ pc[c] \in {"recv", "until"}
      /\ (pc' = pc \/ pc' = [pc EXCEPT ![c] = "run"]) /\ UNCHANGED <<live, waitFor>>
  BY DEF RecvRead, RecvUntilRead, Read, Notified, Waits
<1>2. pc \in [Callers -> {"idle", "called", "run", "recv", "until", "cancel"}]
  BY PipeFacts
<1>3. \A d \in Callers : pc[d] = "cancel" <=> pc'[d] = "cancel"
  BY <1>1, <1>2
<1>4. ResetInv'
  BY <1>1, <1>3, NotifiedUnfinished, ResetKept DEF ResetAll, ResetInv, Unfinished
<1>5. LiveFit'
  BY <1>1, NotifiedUnfinished DEF ResetAll, LiveFit
<1> QED BY <1>4, <1>5 DEF ResetAll

LEMMA ResetsReset ==
    ASSUME PipeInv, CallersFit, ResetAll, NEW c \in Callers, CallReset(c) \/ EndCancel(c)
    PROVE  ResetAll'
<1>0. /\ TransfersInv /\ pc \in [Callers -> {"idle", "called", "run", "recv", "until", "cancel"}]
      /\ ResetInv /\ LiveFit
  BY PipeFacts DEF ResetAll
<1>1. CASE CallReset(c)
  BY <1>0, <1>1, ResetCancels DEF CallReset, ResetAll
<1>2. CASE EndCancel(c)
  <2>1. /\ running = c /\ pc[c] = "cancel" /\ pc' = [pc EXCEPT ![c] = "run"]
        /\ (UNCHANGED <<tasks, live>> \/ StartTasks(Len(tasks)))
    BY <1>2 DEF EndCancel
  <2>2. Unfinished = {} /\ \A d \in Callers : d # c => pc[d] # "cancel"
    BY <1>0, <2>1, NothingLeft
  <2>3. \A d \in Callers : pc'[d] # "cancel"
    BY <1>0, <2>1, <2>2
  <2>4. CASE UNCHANGED <<tasks, live>>
    <3>1. Unfinished' = {}
      BY <2>2, <2>4, TasksUnchanged
    <3> QED BY <2>3, <3>1 DEF ResetAll, ResetInv, LiveFit
  <2>5. CASE StartTasks(Len(tasks))
    <3>1. /\ TaskIds \subseteq TaskIds' /\ live' = TaskIds' \ TaskIds
          /\ \A t \in TaskIds : tasks'[t] = tasks[t]
          /\ \A t \in TaskIds' \ TaskIds : tasks'[t] = Task(0, 0)
      BY <2>5, StartFacts
    <3>2. Unfinished' \subseteq TaskIds' \ TaskIds
      BY <2>2, <3>1 DEF Unfinished, Over
    <3>3. \A t \in Unfinished' : ~Doomed(t)'
      BY <3>1, <3>2, TaskType DEF Doomed
    <3> QED BY <2>3, <3>1, <3>2, <3>3 DEF ResetAll, ResetInv, LiveFit
  <2> QED BY <2>1, <2>4, <2>5
<1> QED BY <1>1, <1>2

LEMMA TasksReset ==
    ASSUME PipeInv, ResetAll, NEW kind, NEW t, TaskStep(kind, t)
    PROVE  ResetAll'
<1>0. TransfersInv /\ ResetInv /\ LiveFit
  BY PipeFacts DEF ResetAll
<1>1. /\ TaskRuns(kind, t) /\ t \in TaskIds /\ UNCHANGED <<pc, waitFor>>
      /\ tasks[t] \in TaskRecords /\ TaskFits(tasks[t]) /\ KindFits(kind, tasks[t])
      /\ kind \in {"start", "wake"}
  BY DEF TaskStep, TaskRuns
<1>2. tasks[t].state # "over"
  BY <1>1 DEF KindFits
<1>3. CASE tasks[t].state \in {"created", "notified"} /\ Proceed(t)
  <2>1. \E new \in TaskRecords :
            /\ SetTask(t, new) /\ new.state \in {"waiting", "inflight"}
            /\ new.mustCancel = tasks[t].mustCancel /\ UNCHANGED live
    BY <1>1, <1>3 DEF Proceed, TaskRecords, TaskState, UrbState
  <2>2. PICK new \in TaskRecords :
            /\ SetTask(t, new) /\ new.state \in {"waiting", "inflight"}
            /\ new.mustCancel = tasks[t].mustCancel /\ UNCHANGED live
    BY <2>1
  <2>3. \/ new.state = "over"
        \/ new.mustCancel = tasks[t].mustCancel /\
              (new.state \in {"cancelled", "cancelling", "retired"} <=>
               tasks[t].state \in {"cancelled", "cancelling", "retired"})
    BY <1>3, <2>2
  <2> QED BY <1>0, <1>1, <1>2, <2>2, <2>3, ResetOneTask DEF ResetAll
<1>4. CASE Outcome(t) \in {"error", "cancelled"} /\ End(t)
  <2>1. PICK new \in TaskRecords : SetTask(t, new) /\ new.state = "over" /\ UNCHANGED live
    BY <1>4, EndedType DEF End, Outcomes
  <2> QED BY <1>0, <1>1, <2>1, ResetOneTask DEF ResetAll
<1>5. CASE Retires(t)
  <2>1. \E new \in TaskRecords :
            /\ SetTask(t, new) /\ new.state = "cancelling"
            /\ new.mustCancel = tasks[t].mustCancel /\ UNCHANGED live
    BY <1>1, <1>5 DEF Retires, TaskRecords, TaskState
  <2>2. PICK new \in TaskRecords :
            /\ SetTask(t, new) /\ new.state = "cancelling"
            /\ new.mustCancel = tasks[t].mustCancel /\ UNCHANGED live
    BY <2>1
  <2>3. tasks[t].state = "cancelled"
    BY <1>5 DEF Retires, HasToCancel
  <2>4. \/ new.state = "over"
        \/ new.mustCancel = tasks[t].mustCancel /\
              (new.state \in {"cancelled", "cancelling", "retired"} <=>
               tasks[t].state \in {"cancelled", "cancelling", "retired"})
    BY <2>2, <2>3
  <2> QED BY <1>0, <1>1, <1>2, <2>2, <2>4, ResetOneTask DEF ResetAll
<1>6. CASE kind = "wake" /\ Outcome(t) = "ok" /\ Store(t)
  <2>1. tasks[t].state = "completed" /\ ~tasks[t].mustCancel
    BY <1>6 DEF Outcome
  <2>2. /\ Task(0, 0) \in TaskRecords /\ Task(0, 0).state = "created" /\ ~Task(0, 0).mustCancel
        /\ "ok" \in Outcomes \ {"none"}
    BY TaskType DEF Outcomes
  <2>3. /\ tasks' = Append([tasks EXCEPT ![t] = Ended("ok")], Task(0, 0))
        /\ live' = live \cup {Len(tasks) + 1}
    BY <1>6 DEF Store
  <2> QED BY <1>0, <1>1, <2>1, <2>2, <2>3, ResetSucceeds DEF ResetAll
<1> QED BY <1>3, <1>4, <1>5, <1>6 DEF TaskStep

LEMMA RefusesReset ==
    ASSUME PipeInv, ResetAll, NEW kind, NEW t, Refuses(kind, t)
    PROVE  ResetAll'
<1>1. TransfersInv /\ ResetInv /\ LiveFit /\ UNCHANGED <<pc, waitFor, live>> /\ t \in TaskIds
  BY PipeFacts DEF ResetAll, Refuses
<1>2. PICK new \in TaskRecords : SetTask(t, new) /\ new.state = "over"
  BY RefusedTask
<1> QED BY <1>1, <1>2, ResetOneTask DEF ResetAll

LEMMA UsbReset ==
    ASSUME PipeInv, ResetAll, UsbOrCallback \/ UsbComplete
    PROVE  ResetAll'
<1>0. TransfersInv /\ ResetInv /\ LiveFit
  BY PipeFacts DEF ResetAll
<1>1. CASE UsbOrCallback
  BY <1>0, <1>1, ResetTransfers DEF UsbOrCallback, ResetAll
<1>2. CASE UsbComplete
  <2>1. PICK t \in TaskIds, n \in 0..XferSize, status \in {"ok", "error"}, new \in TaskRecords :
            /\ SetTask(t, new) /\ new.state = tasks[t].state
            /\ new.mustCancel = tasks[t].mustCancel /\ UNCHANGED <<pc, live, waitFor>>
    BY <1>2, CompleteFacts
  <2> QED BY <1>0, <2>1, ResetOneTask DEF ResetAll
<1> QED BY <1>1, <1>2

LEMMA ResetNext == PipeInv /\ CallersFit /\ ResetAll /\ [Next]_vars => ResetAll'
<1> SUFFICES ASSUME PipeInv, CallersFit, ResetAll, [Next]_vars PROVE ResetAll'
  OBVIOUS
<1> QED BY StepKinds, QuietReset, ReadsReset, ResetsReset, TasksReset, RefusesReset, UsbReset

LEMMA InitialTasks ==
    ASSUME Init
    PROVE  /\ TaskIds = 1..XfersPerQueue /\ Unfinished = TaskIds /\ live = TaskIds
           /\ \A t \in TaskIds : tasks[t] = Task(0, 0)
<1>1. XfersPerQueue \in Nat
  BY InPipeAssumption
<1>2. tasks = [t \in 1..XfersPerQueue |-> Task(0, 0)] /\ live = 1..XfersPerQueue
  BY DEF Init
<1>3. Task(0, 0) \in TaskRecords /\ Task(0, 0).state = "created"
  BY TaskType
<1>4. tasks \in [1..XfersPerQueue -> TaskRecords]
  BY <1>2, <1>3
<1>5. Len(tasks) = XfersPerQueue
  BY <1>1, <1>4, FunctionIsSeq
<1>6. TaskIds = 1..XfersPerQueue
  BY <1>5 DEF TaskIds
<1> QED BY <1>2, <1>3, <1>6 DEF Unfinished, Over

LEMMA ResetAlways == Spec => []ResetAll
<1>1. Init => ResetAll
  <2> SUFFICES ASSUME Init PROVE ResetAll
    OBVIOUS
  <2>1. \A c \in Callers : pc[c] # "cancel"
    BY DEF Init
  <2>2. \A t \in Unfinished : t \in live /\ ~Doomed(t)
    BY InitialTasks, TaskType DEF Doomed
  <2> QED BY <2>1, <2>2 DEF ResetAll, ResetInv, LiveFit
<1> QED BY <1>1, ResetNext, PipeAlways, CallersAlways, PTL DEF Spec

--------------------------------------------------------------------------------
(* Read pushback *)

(* A task is held back only while the buffer is over its limit, and then   *)
(* waits to be notified.                                                   *)
HeldBack == \A t \in TaskIds : tasks[t].state = "waiting" => Full /\ Waits(t)

LEMMA HeldKept ==
    ASSUME HeldBack, waiters' = waiters, Full => Full',
           \A t \in TaskIds' : tasks'[t].state = "waiting" =>
               t \in TaskIds /\ tasks[t].state = "waiting"
    PROVE  HeldBack'
  BY DEF HeldBack, Waits

LEMMA HeldOneTask ==
    ASSUME PipeInv, HeldBack, waiters' = waiters, Full => Full',
           NEW t \in TaskIds, NEW new \in TaskRecords, SetTask(t, new),
           new.state # "waiting" \/ tasks[t].state = "waiting"
    PROVE  HeldBack'
<1>1. TaskIds' = TaskIds /\ tasks'[t] = new /\ \A u \in TaskIds : u # t => tasks'[u] = tasks[u]
  BY PipeFacts, TypeFacts, SetTaskProperties
<1> QED BY <1>1, HeldKept

(* A task that goes on is held back, or submits its transfer. *)
LEMMA ProceedFacts ==
    ASSUME PipeInv, NEW kind, NEW t, TaskRuns(kind, t), Proceed(t)
    PROVE  \E new \in TaskRecords :
              /\ SetTask(t, new) /\ new.from = tasks[t].from /\ new.to = tasks[t].to
              /\ new.mustCancel = tasks[t].mustCancel /\ new.outcome = tasks[t].outcome
              /\ UNCHANGED <<live, buffer>> /\ ready' = Tail(ready)
              /\ \/ /\ Full /\ new.state = "waiting" /\ new.urb = tasks[t].urb
                    /\ waiters' = Append(waiters, t) /\ UNCHANGED urbs
                 \/ /\ ~Full /\ new.state = "inflight" /\ new.urb = "submitted"
                    /\ UNCHANGED waiters
<1>1. tasks[t] \in TaskRecords
  BY DEF TaskRuns
<1>2. CASE Full
  <2> DEFINE new == [tasks[t] EXCEPT !.state = "waiting"]
  <2>1. /\ new \in TaskRecords /\ new.from = tasks[t].from /\ new.to = tasks[t].to
        /\ new.mustCancel = tasks[t].mustCancel /\ new.outcome = tasks[t].outcome
        /\ new.state = "waiting" /\ new.urb = tasks[t].urb
    BY <1>1 DEF TaskRecords, TaskState
  <2>2. /\ SetTask(t, new) /\ UNCHANGED <<live, buffer, urbs>> /\ ready' = Tail(ready)
        /\ waiters' = Append(waiters, t)
    BY <1>2 DEF Proceed
  <2> HIDE DEF new
  <2> QED BY <1>2, <2>1, <2>2
<1>3. CASE ~Full
  <2> DEFINE new == [tasks[t] EXCEPT !.state = "inflight", !.urb = "submitted"]
  <2>1. /\ new \in TaskRecords /\ new.from = tasks[t].from /\ new.to = tasks[t].to
        /\ new.mustCancel = tasks[t].mustCancel /\ new.outcome = tasks[t].outcome
        /\ new.state = "inflight" /\ new.urb = "submitted"
    BY <1>1 DEF TaskRecords, TaskState, UrbState
  <2>2. /\ SetTask(t, new) /\ UNCHANGED <<live, buffer, waiters>> /\ ready' = Tail(ready)
    BY <1>3 DEF Proceed
  <2> HIDE DEF new
  <2> QED BY <1>3, <2>1, <2>2
<1> QED BY <1>2, <1>3

LEMMA QuietKeeps ==
    ASSUME Quiet
    PROVE  UNCHANGED <<tasks, buffer, waiters, taken, produced, failures, resets>>
  BY DEF Quiet, QuietCaller, Untouched, Yields, CallRecv, CallRecvUntil, RecvWait, Resume, vars,
         pipeVars, usbVars, callVars

LEMMA HeldNext == PipeInv /\ CallersFit /\ ResetAll /\ HeldBack /\ [Next]_vars => HeldBack'
<1> SUFFICES ASSUME PipeInv, CallersFit, ResetAll, HeldBack, [Next]_vars PROVE HeldBack'
  OBVIOUS
<1>0. TransfersInv /\ LiveFit
  BY PipeFacts DEF ResetAll
<1>1. CASE Quiet
  <2>1. UNCHANGED <<tasks, buffer, waiters>>
    BY <1>1, QuietKeeps
  <2>2. TaskIds' = TaskIds
    BY <2>1 DEF TaskIds
  <2> QED BY <2>1, <2>2, HeldKept DEF Full
<1>2. ASSUME NEW c \in Callers, RecvRead(c) \/ RecvUntilRead(c) PROVE HeldBack'
  <2>1. tasks' = Notified
    BY <1>2 DEF RecvRead, RecvUntilRead, Read, Notified, Waits
  <2>2. \A t \in TaskIds : tasks'[t].state # "waiting"
    BY <2>1, NotifiedProperties DEF HeldBack
  <2> QED BY <2>1, <2>2, NotifiedUnfinished DEF HeldBack
<1>3. ASSUME NEW c \in Callers, CallReset(c) \/ EndCancel(c) PROVE HeldBack'
  <2>1. CASE CallReset(c)
    <3>1. tasks' = Cancelled /\ TaskIds' = TaskIds
      BY <1>0, <2>1, CancelQueueProperties, CancelQueueInv DEF CallReset
    <3>2. ASSUME NEW t \in TaskIds PROVE tasks'[t].state # "waiting"
      <4>1. tasks[t].state = "waiting" => t \in live
        BY <1>0 DEF LiveFit, Unfinished, Over
      <4>2. tasks[t].state = "waiting" => t \in Interrupted
        BY <4>1 DEF Interrupted
      <4> QED BY <1>0, <3>1, <4>2, CancelledProperties
    <3> QED BY <3>1, <3>2 DEF HeldBack
  <2>2. CASE EndCancel(c)
    <3>1. /\ running = c /\ pc[c] = "cancel" /\ UNCHANGED waiters
          /\ (UNCHANGED <<tasks, buffer>> \/ StartTasks(Len(tasks)))
      BY <2>2 DEF EndCancel
    <3>2. \A t \in TaskIds : tasks[t].state # "waiting"
      BY <3>1, NothingLeft DEF Unfinished, Over, ResetAll
    <3>3. CASE UNCHANGED <<tasks, buffer>>
      BY <3>2, <3>3 DEF HeldBack, TaskIds
    <3>4. CASE StartTasks(Len(tasks))
      <4>1. /\ \A t \in TaskIds : tasks'[t] = tasks[t]
            /\ \A t \in TaskIds' \ TaskIds : tasks'[t] = Task(0, 0)
        BY <3>4, StartFacts
      <4> QED BY <3>2, <4>1, TaskType DEF HeldBack
    <3> QED BY <3>1, <3>3, <3>4
  <2> QED BY <1>3, <2>1, <2>2
<1>4. ASSUME NEW kind, NEW t, TaskStep(kind, t) PROVE HeldBack'
  <2>1. /\ TaskRuns(kind, t) /\ t \in TaskIds /\ tasks[t] \in TaskRecords
    BY <1>4 DEF TaskStep, TaskRuns
  <2>2. CASE Proceed(t)
    <3>1. PICK new \in TaskRecords :
              /\ SetTask(t, new) /\ UNCHANGED buffer
              /\ \/ Full /\ new.state = "waiting" /\ waiters' = Append(waiters, t)
                 \/ ~Full /\ new.state = "inflight" /\ UNCHANGED waiters
      BY <2>1, <2>2, ProceedFacts
    <3>2. CASE waiters' = Append(waiters, t) /\ Full
      <4>1. TaskIds' = TaskIds /\ \A u \in TaskIds : u # t => tasks'[u] = tasks[u]
        BY <1>0, <2>1, <3>1, TypeFacts, SetTaskProperties
      <4>2. /\ \A i \in DOMAIN waiters : i \in DOMAIN waiters' /\ waiters'[i] = waiters[i]
            /\ Len(waiters) + 1 \in DOMAIN waiters' /\ waiters'[Len(waiters) + 1] = t
        BY <2>1, <3>2, PipeFacts, AppendParts
      <4>3. \A u \in TaskIds : (Waits(u) \/ u = t) => \E i \in DOMAIN waiters' : waiters'[i] = u
        BY <4>2 DEF Waits
      <4>4. Full'
        BY <3>1, <3>2 DEF Full
      <4> QED BY <4>1, <4>3, <4>4 DEF HeldBack, Waits
    <3>3. CASE ~Full /\ new.state = "inflight" /\ UNCHANGED waiters
      <4>1. Full => Full'
        BY <3>3
      <4> QED BY <2>1, <3>1, <3>3, <4>1, HeldOneTask
    <3> QED BY <3>1, <3>2, <3>3
  <2>3. CASE Outcome(t) \in {"error", "cancelled"} /\ End(t)
    <3>1. PICK new \in TaskRecords : SetTask(t, new) /\ new.state = "over" /\ UNCHANGED <<waiters, buffer>>
      BY <2>3, EndedType DEF End, Outcomes
    <3> QED BY <2>1, <3>1, HeldOneTask DEF Full
  <2>4. CASE Retires(t)
    <3>1. PICK new \in TaskRecords :
              SetTask(t, new) /\ new.state = "cancelling" /\ UNCHANGED <<waiters, buffer>>
      BY <2>1, <2>4 DEF Retires, TaskRecords, TaskState
    <3> QED BY <2>1, <3>1, HeldOneTask DEF Full
  <2>5. CASE kind = "wake" /\ Outcome(t) = "ok" /\ Store(t)
    <3> SUFFICES ASSUME NEW n, n = Len(tasks) + 1 PROVE HeldBack'
      OBVIOUS
    <3>1. /\ TaskIds' = TaskIds \cup {n} /\ tasks'[n] = Task(0, 0) /\ tasks'[t] = Ended("ok")
          /\ \A u \in TaskIds : u # t => tasks'[u] = tasks[u]
          /\ UNCHANGED waiters /\ Len(buffer') = Len(buffer) + Stored(t)
      BY <2>1, <2>5, StoreFacts, Zenon
    <3>2. Stored(t) \in Nat /\ Len(buffer) \in Nat /\ BufferSize \in Nat
      BY <2>1, BytesParts, PipeFacts, InPipeAssumption
    <3>3. Full => Full'
      BY <3>1, <3>2 DEF Full
    <3>4. Task(0, 0).state # "waiting" /\ Ended("ok").state # "waiting"
      BY TaskType, EndedType DEF Outcomes
    <3>5. \A u \in TaskIds' : tasks'[u].state = "waiting" =>
              u \in TaskIds /\ tasks[u].state = "waiting"
      BY <3>1, <3>4
    <3> QED BY <3>1, <3>3, <3>5, HeldKept
  <2> QED BY <1>4, <2>2, <2>3, <2>4, <2>5 DEF TaskStep
<1>7. ASSUME NEW kind, NEW t, Refuses(kind, t) PROVE HeldBack'
  <2>1. t \in TaskIds /\ UNCHANGED <<waiters, buffer>>
    BY <1>7 DEF Refuses, pipeVars
  <2>2. PICK new \in TaskRecords : SetTask(t, new) /\ new.state = "over"
    BY <1>7, RefusedTask
  <2> QED BY <2>1, <2>2, HeldOneTask DEF Full
<1>5. CASE UsbOrCallback
  <2>1. UNCHANGED <<waiters, buffer>>
    BY <1>5 DEF UsbOrCallback, pipeVars
  <2>2. \/ UNCHANGED tasks
        \/ \E t \in TaskIds, new \in TaskRecords : SetTask(t, new) /\ new.state # "waiting"
    BY <1>0, <1>5, TransferTasks DEF UsbOrCallback
  <2>3. CASE UNCHANGED tasks
    BY <2>1, <2>3, HeldKept DEF TaskIds, Full
  <2>4. ASSUME NEW t \in TaskIds, NEW new \in TaskRecords, SetTask(t, new),
               new.state # "waiting" \/ tasks[t].state = "waiting"
        PROVE  HeldBack'
    BY <2>1, <2>4, HeldOneTask DEF Full
  <2> QED BY <2>2, <2>3, <2>4
<1>6. CASE UsbComplete
  <2>1. PICK t \in TaskIds, n \in 0..XferSize, status \in {"ok", "error"}, new \in TaskRecords :
            SetTask(t, new) /\ new.state = tasks[t].state /\ UNCHANGED pipeVars
    BY <1>6, CompleteFacts
  <2>2. UNCHANGED <<waiters, buffer>>
    BY <2>1 DEF pipeVars
  <2> QED BY <2>1, <2>2, HeldOneTask DEF Full
<1> QED BY <1>1, <1>2, <1>3, <1>4, <1>5, <1>6, <1>7, StepKinds

LEMMA HeldAlways == Spec => []HeldBack
<1>1. Init => HeldBack
  <2> SUFFICES ASSUME Init, NEW t \in TaskIds PROVE tasks[t].state # "waiting"
    BY DEF HeldBack
  <2>1. tasks[t] = Task(0, 0)
    BY InitialTasks
  <2> QED BY <2>1 DEF Task
<1> QED BY <1>1, HeldNext, PipeAlways, CallersAlways, ResetAlways, PTL DEF Spec

--------------------------------------------------------------------------------
(* Callers that sleep *)

Coming(c) ==
    \/ \E i \in DOMAIN ready : ready[i].kind = "callback" /\ ready[i].task \in waitFor[c]
    \/ Late \in waitFor[c] /\ \E i \in DOMAIN ready : ready[i].kind = "completed" /\ c \in ready[i].who

(* A caller that sleeps waits for something: the end of it is on its way,  *)
(* or the caller waits for every task that has not finished, and what it   *)
(* needs is not there.                                                     *)
Sleeps(c) ==
    Asleep(c) =>
        /\ waitFor[c] # {}
        /\ Coming(c) \/ (Unfinished \subseteq waitFor[c] /\ Short(c))

SleepInv == \A c \in Callers : Sleeps(c)

(* The handles that end a wait or resume a caller are still in the queue. *)
Retained(q, r) ==
    \A i \in DOMAIN q : q[i].kind \in {"callback", "completed", "resume"} =>
        \E j \in DOMAIN r : r[j] = q[i]

LEMMA RetainedQueues ==
    ASSUME NEW q \in Seq(Handles)
    PROVE  /\ Retained(q, q)
           /\ \A h \in Handles : Retained(q, Append(q, h))
           /\ \A w \in Seq(Handles) : Retained(q, q \o w)
<1>1. Retained(q, q)
  BY DEF Retained
<1>2. ASSUME NEW h \in Handles PROVE Retained(q, Append(q, h))
  <2>1. \A i \in DOMAIN q : i \in DOMAIN Append(q, h) /\ Append(q, h)[i] = q[i]
    BY AppendParts
  <2> QED BY <2>1 DEF Retained
<1>3. ASSUME NEW w \in Seq(Handles) PROVE Retained(q, q \o w)
  <2>1. \A i \in DOMAIN q : i \in DOMAIN (q \o w) /\ (q \o w)[i] = q[i]
    BY ConcatParts
  <2> QED BY <2>1 DEF Retained
<1> QED BY <1>1, <1>2, <1>3

LEMMA RetainedTail ==
    ASSUME NEW q \in Seq(Handles), q # <<>>,
           Head(q).kind \notin {"callback", "completed", "resume"}
    PROVE  /\ Retained(q, Tail(q))
           /\ \A h \in Handles : Retained(q, Append(Tail(q), h))
           /\ \A w \in Seq(Handles) : Retained(q, Tail(q) \o w)
<1>1. Tail(q) \in Seq(Handles)
  BY TailParts
<1>2. Retained(q, Tail(q))
  <2>1. \A i \in DOMAIN q : i = 1 \/ (i - 1 \in DOMAIN Tail(q) /\ Tail(q)[i - 1] = q[i])
    BY TailParts
  <2>2. Head(q) = q[1]
    BY TailParts
  <2> QED BY <2>1, <2>2 DEF Retained
<1>3. \A s : Retained(Tail(q), s) => Retained(q, s)
  BY <1>2 DEF Retained
<1> QED BY <1>1, <1>2, <1>3, RetainedQueues

(* Steps that do not concern a caller that sleeps. *)
LEMMA SleepsOn ==
    ASSUME NEW c \in Callers, Sleeps(c), pc'[c] = pc[c], running' # c => running # c,
           waitFor'[c] = waitFor[c], Retained(ready, ready'),
           Unfinished' \subseteq Unfinished, Short(c) => Short(c)'
    PROVE  Sleeps(c)'
<1> SUFFICES ASSUME Asleep(c)'
             PROVE  /\ waitFor'[c] # {}
                    /\ Coming(c)' \/ (Unfinished' \subseteq waitFor'[c] /\ Short(c)')
  BY DEF Sleeps
<1>1. Asleep(c)
  BY DEF Asleep, Retained
<1>2. Coming(c) => Coming(c)'
  BY DEF Coming, Retained
<1> QED BY <1>1, <1>2 DEF Sleeps

(* A caller that runs, or is outside the pipe, does not sleep. *)
LEMMA Awake ==
    ASSUME NEW c \in Callers, running' = c \/ pc'[c] \notin {"recv", "until"}
    PROVE  Sleeps(c)'
  BY DEF Sleeps, Asleep

LEMMA ShortKept ==
    ASSUME NEW c \in Callers, pc'[c] = pc[c], UNCHANGED buffer, arg'[c] = arg[c]
    PROVE  Short(c) => Short(c)'
  BY DEF Short, Need

(* A caller that calls wait_one() when what it needs is not there. *)
LEMMA WaitsSleep ==
    ASSUME PipeInv, LiveFit, NEW c \in Callers, RecvWait(c), AsyncioWait(c, Over, ready), live # {},
           UNCHANGED pc
    PROVE  Sleeps(c)'
<1>1. /\ Short(c)' /\ TaskIds' = TaskIds /\ Unfinished' = Unfinished
  BY TasksUnchanged, ShortKept DEF RecvWait, pipeVars, callVars
<1>2. /\ ready \in Seq(Handles) /\ waitFor \in [Callers -> SUBSET (TaskIds \cup {Late})]
      /\ live \subseteq TaskIds
  BY PipeFacts, TypeFacts DEF TransfersInv, TransfersType
<1>3. /\ waitFor'[c] = (live \ (live \cap Over))
                             \cup (IF live \cap Over = {} THEN {} ELSE {Late})
      /\ ready' = IF live \cap Over = {} THEN ready
                  ELSE Append(ready, Handle("completed", 0, {c}))
  BY <1>2 DEF AsyncioWait
<1>4. Unfinished \subseteq waitFor'[c] /\ waitFor'[c] # {}
  BY <1>2, <1>3 DEF LiveFit, Unfinished
<1>5. CASE live \cap Over = {}
  BY <1>1, <1>4 DEF Sleeps
<1>6. CASE live \cap Over # {}
  <2>1. /\ Handle("completed", 0, {c}) \in Handles /\ Handle("completed", 0, {c}).kind = "completed"
        /\ Handle("completed", 0, {c}).who = {c}
    BY CallerHandles
  <2>2. Len(ready) + 1 \in DOMAIN ready' /\ ready'[Len(ready) + 1] = Handle("completed", 0, {c})
    BY <1>2, <1>3, <1>6, <2>1, AppendParts
  <2>3. Late \in waitFor'[c]
    BY <1>3, <1>6
  <2>4. Coming(c)'
    BY <2>1, <2>2, <2>3 DEF Coming
  <2> QED BY <1>4, <2>4 DEF Sleeps
<1> QED BY <1>5, <1>6

LEMMA ConsParts ==
    ASSUME NEW S, NEW h \in S, NEW w \in Seq(S)
    PROVE  /\ <<h>> \o w \in Seq(S) /\ 1 \in DOMAIN (<<h>> \o w) /\ (<<h>> \o w)[1] = h
           /\ \A i \in DOMAIN w : \E j \in DOMAIN (<<h>> \o w) : (<<h>> \o w)[j] = w[i]
<1>0. <<h>> \in Seq(S)
  OBVIOUS
<1> SUFFICES ASSUME NEW v \in Seq(S), v = <<h>>
             PROVE  /\ v \o w \in Seq(S) /\ 1 \in DOMAIN (v \o w) /\ (v \o w)[1] = h
                    /\ \A i \in DOMAIN w : \E j \in DOMAIN (v \o w) : (v \o w)[j] = w[i]
  BY <1>0, Zenon
<1>1. Len(v) = 1 /\ DOMAIN v = {1} /\ v[1] = h
  OBVIOUS
<1>2. /\ v \o w \in Seq(S)
      /\ \A i \in DOMAIN v : i \in DOMAIN (v \o w) /\ (v \o w)[i] = v[i]
      /\ \A i \in DOMAIN w : /\ Len(v) + i \in DOMAIN (v \o w)
                            /\ (v \o w)[Len(v) + i] = w[i]
  BY ConcatParts
<1> SUFFICES ASSUME NEW q, q = v \o w
             PROVE  /\ 1 \in DOMAIN q /\ q[1] = h
                    /\ \A i \in DOMAIN w : \E j \in DOMAIN q : q[j] = w[i]
  BY <1>2, Zenon
<1>3. /\ \A i \in DOMAIN v : i \in DOMAIN q /\ q[i] = v[i]
      /\ \A i \in DOMAIN w : Len(v) + i \in DOMAIN q /\ q[Len(v) + i] = w[i]
  BY <1>2, Zenon
<1>4. 1 \in DOMAIN v
  BY <1>1
<1> QED BY <1>1, <1>3, <1>4, Zenon

(* Another caller is resumed. *)
LEMMA ResumeSleeps ==
    ASSUME PipeInv, NEW d \in Callers, Resume(d), UNCHANGED <<buffer, arg>>,
           NEW c \in Callers, Sleeps(c)
    PROVE  Sleeps(c)'
<1>1. CASE c = d
  BY <1>1, Awake DEF Resume
<1>2. CASE c # d
  <2> SUFFICES ASSUME Asleep(c)'
               PROVE  /\ waitFor'[c] # {}
                      /\ Coming(c)' \/ (Unfinished' \subseteq waitFor'[c] /\ Short(c)')
    BY DEF Sleeps
  <2> DEFINE h == Handle("resume", 0, Head(ready).who \ {d})
  <2>1. /\ ready \in Seq(Handles) /\ ready # <<>> /\ Head(ready).kind = "resume"
        /\ running = NoCaller /\ NoCaller \notin Callers /\ UNCHANGED <<waitFor, tasks>>
        /\ \/ ready' = Tail(ready) /\ Head(ready).who \ {d} = {}
           \/ ready' = <<h>> \o Tail(ready)
        /\ pc'[c] = pc[c]
    BY <1>2, PipeFacts, TypeFacts DEF Resume, Turn, RestOfResume, Poll
  <2>2. /\ Tail(ready) \in Seq(Handles) /\ Head(ready) = ready[1] /\ Head(ready) \in Handles
        /\ \A i \in DOMAIN ready : i = 1 \/ (i - 1 \in DOMAIN Tail(ready) /\ Tail(ready)[i - 1] = ready[i])
    BY <2>1, TailParts
  <2>3. h \in Handles /\ h.kind = "resume" /\ h.who = Head(ready).who \ {d}
    <3>1. Head(ready).who \ {d} \in SUBSET Callers
      BY <2>2 DEF Handles
    <3> QED BY <3>1, CallerHandles
  <2> HIDE DEF h
  <2>4. /\ 1 \in DOMAIN (<<h>> \o Tail(ready)) /\ (<<h>> \o Tail(ready))[1] = h
        /\ \A i \in DOMAIN Tail(ready) :
               \E j \in DOMAIN (<<h>> \o Tail(ready)) : (<<h>> \o Tail(ready))[j] = Tail(ready)[i]
    <3> SUFFICES ASSUME NEW w \in Seq(Handles), w = Tail(ready), NEW g \in Handles, g = h
                 PROVE  /\ 1 \in DOMAIN (<<g>> \o w) /\ (<<g>> \o w)[1] = g
                        /\ \A i \in DOMAIN w :
                               \E j \in DOMAIN (<<g>> \o w) : (<<g>> \o w)[j] = w[i]
      BY <2>2, <2>3, Zenon
    <3> QED BY ONLY w \in Seq(Handles), g \in Handles, ConsParts
  <2>10. \A i \in DOMAIN Tail(ready) : \E j \in DOMAIN ready' : ready'[j] = Tail(ready)[i]
    BY <2>1, <2>4, Zenon
  <2>5. \A i \in DOMAIN ready : i # 1 => \E j \in DOMAIN ready' : ready'[j] = ready[i]
    BY <2>2, <2>10, ZenonT(30), SMTT(30)
  <2>6. ~(c \in Head(ready).who)
    <3> SUFFICES ASSUME c \in Head(ready).who PROVE FALSE
      OBVIOUS
    <3>1. c \in h.who /\ ready' = <<h>> \o Tail(ready)
      BY <1>2, <2>1, <2>3
    <3>2. 1 \in DOMAIN ready' /\ ready'[1] = h
      BY <2>4, <3>1, Zenon
    <3> QED BY <2>3, <3>1, <3>2, Zenon DEF Asleep
  <2>7. Asleep(c)
    BY <2>1, <2>2, <2>5, <2>6 DEF Asleep
  <2>8. Coming(c) => Coming(c)'
    <3>1. \A i \in DOMAIN ready : ready[i].kind # "resume" => i # 1
      BY <2>1, <2>2
    <3> QED BY <2>1, <2>5, <3>1 DEF Coming
  <2>9. Unfinished' = Unfinished /\ (Short(c) => Short(c)')
    BY <2>1, TasksUnchanged, ShortKept
  <2> QED BY <2>1, <2>7, <2>8, <2>9 DEF Sleeps
<1> QED BY <1>1, <1>2

(* The end of a task, or of a wait for tasks that had ended, is handled: a *)
(* caller that waits for it is resumed.                                    *)
LEMMA CompletedSleeps ==
    ASSUME PipeInv, NEW kind \in {"callback", "completed"}, Turn(kind),
           NEW x, NEW who \in SUBSET Callers, Completed(x, who),
           UNCHANGED <<running, pc, tasks, buffer, arg>>,
           kind = "callback" => x = Head(ready).task /\ who = Callers,
           kind = "completed" => x = Late /\ who = Head(ready).who,
           NEW c \in Callers, Sleeps(c)
    PROVE  Sleeps(c)'
<1> SUFFICES ASSUME Asleep(c)'
             PROVE  /\ waitFor'[c] # {}
                    /\ Coming(c)' \/ (Unfinished' \subseteq waitFor'[c] /\ Short(c)')
  BY DEF Sleeps
<1> DEFINE woken == WaitEnds(x, who)
           h == Handle("resume", 0, woken)
<1>1. /\ ready \in Seq(Handles) /\ ready # <<>> /\ Head(ready).kind = kind
      /\ ready' = IF woken = {} THEN Tail(ready) ELSE Append(Tail(ready), h)
      /\ waitFor'[c] = IF c \in woken THEN {} ELSE IF c \in who THEN waitFor[c] \ {x} ELSE waitFor[c]
  BY PipeFacts, TypeFacts DEF Turn, Completed
<1>2. /\ Tail(ready) \in Seq(Handles) /\ Head(ready) = ready[1]
      /\ \A i \in DOMAIN ready : i = 1 \/ (i - 1 \in DOMAIN Tail(ready) /\ Tail(ready)[i - 1] = ready[i])
  BY <1>1, TailParts
<1>3. /\ h \in Handles /\ h.kind = "resume" /\ h.who = woken
  <2>1. woken \in SUBSET Callers
    BY DEF WaitEnds
  <2> HIDE DEF woken
  <2> QED BY <2>1, CallerHandles
<1>4. pc[c] \in {"recv", "until"} /\ (x \in waitFor[c] /\ c \in who => c \in woken)
  BY DEF Asleep, WaitEnds, WaitsForAll
<1> HIDE DEF woken, h
<1>5. /\ \A i \in DOMAIN Tail(ready) : \E j \in DOMAIN ready' : ready'[j] = Tail(ready)[i]
      /\ woken # {} => \E j \in DOMAIN ready' : ready'[j] = h
  <2>1. CASE woken = {}
    BY <1>1, <2>1
  <2>2. CASE woken # {}
    <3>1. ready' = Append(Tail(ready), h)
      BY <1>1, <2>2
    <3> QED BY <1>2, <1>3, <3>1, AppendParts
  <2> QED BY <2>1, <2>2
<1>6. c \notin woken
  BY <1>3, <1>5 DEF Asleep
<1>7. ~(x \in waitFor[c] /\ c \in who) /\ waitFor'[c] = waitFor[c]
  BY <1>1, <1>4, <1>6
<1>8. \A i \in DOMAIN ready : i # 1 => \E j \in DOMAIN ready' : ready'[j] = ready[i]
  BY <1>2, <1>5
<1>9. Asleep(c)
  BY SMTT(30), ZenonT(30), <1>1, <1>2, <1>8 DEF Asleep
<1>10. Coming(c) => Coming(c)'
  <2>1. CASE \E i \in DOMAIN ready : ready[i].kind = "callback" /\ ready[i].task \in waitFor[c]
    <3>1. PICK i \in DOMAIN ready : ready[i].kind = "callback" /\ ready[i].task \in waitFor[c]
      BY <2>1
    <3>2. i # 1
      BY <1>1, <1>2, <1>7, <3>1
    <3> QED BY <1>7, <1>8, <3>1, <3>2 DEF Coming
  <2>2. CASE Late \in waitFor[c] /\ \E i \in DOMAIN ready : ready[i].kind = "completed" /\ c \in ready[i].who
    <3>1. PICK i \in DOMAIN ready : ready[i].kind = "completed" /\ c \in ready[i].who
      BY <2>2
    <3>2. i # 1
      BY <1>1, <1>2, <1>7, <2>2, <3>1
    <3> QED BY <1>7, <1>8, <2>2, <3>1, <3>2 DEF Coming
  <2> QED BY <2>1, <2>2 DEF Coming
<1>11. Unfinished' = Unfinished /\ (Short(c) => Short(c)')
  BY TasksUnchanged, ShortKept
<1> QED BY <1>7, <1>9, <1>10, <1>11 DEF Sleeps

LEMMA QuietSleeps ==
    ASSUME PipeInv, ResetAll, Quiet, NEW c \in Callers, Sleeps(c)
    PROVE  Sleeps(c)'
<1>0. /\ ready \in Seq(Handles) /\ LiveFit
      /\ pc \in [Callers -> {"idle", "called", "run", "recv", "until", "cancel"}]
      /\ arg \in [Callers -> Nat] /\ waitFor \in [Callers -> SUBSET (TaskIds \cup {Late})]
  BY PipeFacts, TypeFacts DEF ResetAll, PipeType, TransfersInv, TransfersType
<1>1. UNCHANGED <<tasks, buffer>> /\ Unfinished' \subseteq Unfinished
  BY QuietKeeps, TasksUnchanged
<1>2. ASSUME pc'[c] = pc[c], arg'[c] = arg[c], waitFor'[c] = waitFor[c],
             running' # c => running # c, Retained(ready, ready')
      PROVE  Sleeps(c)'
  BY <1>1, <1>2, ShortKept, SleepsOn
<1>3. ASSUME NEW d \in Callers, QuietCaller(d) PROVE Sleeps(c)'
  <2>1. CASE CallerWakes(d) /\ Untouched
    <3>1. /\ ready' = Append(ready, Handle("resume", 0, {d})) /\ Handle("resume", 0, {d}) \in Handles
          /\ UNCHANGED <<running, waitFor, arg>> /\ pc' = [pc EXCEPT ![d] = "called"]
      BY <2>1, CallerHandles DEF CallerWakes, Untouched, callVars
    <3>2. Retained(ready, ready')
      BY <1>0, <3>1, RetainedQueues
    <3>3. CASE c = d
      BY <1>0, <3>1, <3>3, Awake
    <3>4. CASE c # d
      BY <1>0, <1>2, <3>1, <3>2, <3>4
    <3> QED BY <3>3, <3>4
  <2>2. CASE Resume(d) /\ UNCHANGED <<pipeVars, usbVars, callVars>>
    <3>1. UNCHANGED <<buffer, arg>>
      BY <2>2 DEF pipeVars, callVars
    <3> QED BY <2>2, <3>1, ResumeSleeps
  <2>3. CASE Yields(d)
    <3>1. /\ UNCHANGED <<ready, waitFor>> /\ pc' = [pc EXCEPT ![d] = "idle"] /\ running = d
          /\ arg' = [arg EXCEPT ![d] = 0]
      BY <2>3 DEF Yields, Yield
    <3>2. CASE c = d
      BY <1>0, <3>1, <3>2, Awake
    <3>3. CASE c # d
      BY <1>0, <1>2, <3>1, <3>3, RetainedQueues
    <3> QED BY <3>2, <3>3
  <2>4. CASE CallRecv(d) \/ CallRecvUntil(d)
    <3>1. /\ UNCHANGED <<ready, waitFor, running>> /\ running = d
          /\ \A e \in Callers : e # d => pc'[e] = pc[e] /\ arg'[e] = arg[e]
      BY <1>0, <2>4 DEF CallRecv, CallRecvUntil, Calls
    <3>2. CASE c = d
      BY <3>1, <3>2, Awake
    <3>3. CASE c # d
      BY <1>0, <1>2, <3>1, <3>3, RetainedQueues
    <3> QED BY <3>2, <3>3
  <2>5. CASE RecvWait(d)
    <3>1. /\ running = d /\ pc[d] \in {"recv", "until"} /\ UNCHANGED arg
          /\ WaitOne(d) \/ (pc' = [pc EXCEPT ![d] = "run"] /\ UNCHANGED <<ready, running, waitFor>>)
      BY <2>5 DEF RecvWait, callVars
    <3>2. \/ /\ \A e \in Callers : e # d => pc'[e] = pc[e]
             /\ UNCHANGED <<ready, running, waitFor>>
          \/ UNCHANGED pc /\ AsyncioWait(d, Over, ready) /\ live # {}
      BY <1>0, <3>1, WaitOneKinds
    <3>3. CASE /\ \A e \in Callers : e # d => pc'[e] = pc[e]
               /\ UNCHANGED <<ready, running, waitFor>>
      <4>1. CASE c = d
        BY <3>1, <3>3, <4>1, Awake
      <4>2. CASE c # d
        BY <1>0, <1>2, <3>1, <3>3, <4>2, RetainedQueues
      <4> QED BY <4>1, <4>2
    <3>4. CASE UNCHANGED pc /\ AsyncioWait(d, Over, ready) /\ live # {}
      <4>1. CASE c = d
        BY <1>0, <2>5, <3>4, <4>1, WaitsSleep
      <4>2. CASE c # d
        <5>1. waitFor'[c] = waitFor[c] /\ running # c
          BY <1>0, <3>1, <3>4, <4>2 DEF AsyncioWait
        <5>2. ready' = ready \/ ready' = Append(ready, Handle("completed", 0, {d}))
          BY <3>4 DEF AsyncioWait
        <5>3. Handle("completed", 0, {d}) \in Handles
          BY CallerHandles
        <5>4. Retained(ready, ready')
          BY <1>0, <5>2, <5>3, RetainedQueues
        <5> QED BY <1>2, <3>1, <3>4, <5>1, <5>4
      <4> QED BY <4>1, <4>2
    <3> QED BY <3>2, <3>3, <3>4
  <2> QED BY <1>3, <2>1, <2>2, <2>3, <2>4, <2>5 DEF QuietCaller
<1>4. CASE TaskCallback /\ Untouched
  <2>1. /\ Turn("callback") /\ Completed(Head(ready).task, Callers)
        /\ UNCHANGED <<running, pc, tasks, buffer, arg>> /\ Callers \in SUBSET Callers
    BY <1>4, <1>1 DEF TaskCallback, Untouched, callVars
  <2> QED BY <2>1, CompletedSleeps
<1>5. CASE LateCompleted /\ Untouched
  <2>1. /\ Turn("completed") /\ Completed(Late, Head(ready).who)
        /\ UNCHANGED <<running, pc, tasks, buffer, arg>>
    BY <1>5, <1>1 DEF LateCompleted, Untouched, callVars
  <2>2. Head(ready).who \in SUBSET Callers
    <3>1. Head(ready) \in Handles
      BY <1>0, <2>1, TailParts DEF Turn
    <3> QED BY <3>1 DEF Handles
  <2> QED BY <2>1, <2>2, CompletedSleeps
<1>6. CASE UNCHANGED vars
  <2>1. UNCHANGED <<ready, running, pc, waitFor, arg>>
    BY <1>6 DEF vars, callVars
  <2> QED BY <1>0, <1>2, <2>1, RetainedQueues
<1> QED BY <1>3, <1>4, <1>5, <1>6 DEF Quiet

LEMMA ReadsSleep ==
    ASSUME PipeInv, NEW d \in Callers, RecvRead(d) \/ RecvUntilRead(d), NEW c \in Callers, Sleeps(c)
    PROVE  Sleeps(c)'
<1>0. /\ ready \in Seq(Handles)
      /\ pc \in [Callers -> {"idle", "called", "run", "recv", "until", "cancel"}]
  BY PipeFacts, TypeFacts
<1>1. PICK n \in 1..Len(buffer) : Read(d, n)
  <2>1. CASE RecvRead(d)
    <3>1. Read(d, arg[d]) /\ arg[d] <= Len(buffer) /\ arg[d] \in RecvSizes
      BY <2>1 DEF RecvRead, PipeInv, ArgFits
    <3>2. Len(buffer) \in Nat /\ RecvSizes \subseteq Nat \ {0}
      BY PipeFacts, InPipeAssumption
    <3>3. arg[d] \in 1..Len(buffer)
      <4> SUFFICES ASSUME NEW n, n = arg[d], NEW m, m = Len(buffer) PROVE n \in 1..m
        OBVIOUS
      <4>1. n \in Nat /\ n # 0 /\ n <= m /\ m \in Nat
        BY <3>1, <3>2
      <4> QED BY <4>1
    <3> QED BY <3>1, <3>3
  <2>2. CASE RecvUntilRead(d)
    BY <2>2, UntilFirstFits DEF RecvUntilRead
  <2> QED BY <2>1, <2>2
<1>2. /\ running = d /\ UNCHANGED <<running, waitFor, arg>>
      /\ \A e \in Callers : e # d => pc'[e] = pc[e]
  BY <1>0 DEF RecvRead, RecvUntilRead
<1>3. /\ tasks' = Notified /\ ready' = ready \o NotifyHandles
      /\ Len(buffer') = Len(buffer) - n /\ Len(buffer) \in Nat
  <2>1. /\ tasks' = Notified /\ ready' = ready \o NotifyHandles
        /\ Len(buffer') = Len(buffer) - n
    BY <1>1, ReadFacts, Zenon
  <2> QED BY <2>1, PipeFacts, Zenon
<1>4. CASE c = d
  BY <1>2, <1>4, Awake
<1>5. CASE c # d
  <2>1. Retained(ready, ready')
    BY <1>0, <1>3, NotifyQueue, RetainedQueues
  <2>2. Unfinished' \subseteq Unfinished
    BY <1>3, NotifiedUnfinished
  <2>3. Need(c)' = Need(c)
    BY <1>2, <1>5 DEF Need
  <2>4. Need(c) \in Nat
    BY DEF Need, PipeInv, PipeType
  <2>5. Short(c) => Short(c)'
    BY <1>3, <2>3, <2>4 DEF Short
  <2> QED BY <1>2, <1>5, <2>1, <2>2, <2>5, SleepsOn
<1> QED BY <1>4, <1>5

(* While a caller is in reset(), no other is inside the pipe. *)
LEMMA ResetsSleep ==
    ASSUME PipeInv, CallersFit, NEW d \in Callers, CallReset(d) \/ EndCancel(d), NEW c \in Callers
    PROVE  Sleeps(c)'
<1>0. /\ pc \in [Callers -> {"idle", "called", "run", "recv", "until", "cancel"}] /\ TransfersInv
  BY PipeFacts
<1>1. pc'[c] \notin {"recv", "until"}
  <2>1. CASE CallReset(d)
    BY <1>0, <2>1, CancelQueueProperties DEF CallReset
  <2>2. CASE EndCancel(d)
    BY <1>0, <2>2 DEF EndCancel, CallersFit, Outside
  <2> QED BY <2>1, <2>2
<1> QED BY <1>1, Awake

(* A task ends: who sleeps on it is to be told. *)
LEMMA EndsSleep ==
    ASSUME NEW c \in Callers, Sleeps(c), UNCHANGED <<pc, running, waitFor>>, Retained(ready, ready'),
           NEW t \in Unfinished,
           \E j \in DOMAIN ready' : ready'[j].kind = "callback" /\ ready'[j].task = t
    PROVE  Sleeps(c)'
<1> SUFFICES ASSUME Asleep(c)' PROVE waitFor'[c] # {} /\ Coming(c)'
  BY DEF Sleeps
<1>1. Asleep(c)
  BY DEF Asleep, Retained
<1>2. Coming(c) => Coming(c)'
  BY DEF Coming, Retained
<1>3. t \in waitFor[c] => Coming(c)'
  BY DEF Coming
<1> QED BY <1>1, <1>2, <1>3 DEF Sleeps

LEMMA OneTaskUnfinished ==
    ASSUME PipeInv, NEW t \in TaskIds, NEW new \in TaskRecords, SetTask(t, new),
           tasks[t].state = "over" => new.state = "over"
    PROVE  TaskIds' = TaskIds /\ Unfinished' \subseteq Unfinished
<1>1. TaskIds' = TaskIds /\ tasks'[t] = new /\ \A u \in TaskIds : u # t => tasks'[u] = tasks[u]
  BY PipeFacts, TypeFacts, SetTaskProperties
<1> QED BY <1>1 DEF Unfinished, Over

LEMMA TasksSleep ==
    ASSUME PipeInv, NEW kind, NEW t, TaskStep(kind, t), NEW c \in Callers, Sleeps(c)
    PROVE  Sleeps(c)'
<1>1. /\ UNCHANGED <<running, pc, waitFor, arg>> /\ ready \in Seq(Handles) /\ ready # <<>>
      /\ Head(ready).kind \notin {"callback", "completed", "resume"}
      /\ TaskRuns(kind, t) /\ t \in TaskIds /\ t \in Nat /\ tasks[t] \in TaskRecords
      /\ tasks[t].state # "over"
  BY PipeFacts, TypeFacts DEF TaskStep, TaskRuns, Turn, callVars, KindFits
<1>2. t \in Unfinished
  BY <1>1 DEF Unfinished, Over
<1>3. /\ Retained(ready, Tail(ready)) /\ Tail(ready) \in Seq(Handles)
      /\ \A h \in Handles : Retained(ready, Append(Tail(ready), h))
      /\ \A w \in Seq(Handles) : Retained(ready, Tail(ready) \o w)
  BY <1>1, RetainedTail, TailParts
<1>4. /\ CallbackHandle(t) \in Handles /\ CallbackHandle(t).kind = "callback"
      /\ CallbackHandle(t).task = t
  BY <1>1, HandlesFit, PipeFacts, TypeFacts
<1>5. ASSUME NEW new \in TaskRecords, SetTask(t, new), UNCHANGED buffer, ready' = Tail(ready)
      PROVE  Sleeps(c)'
  BY <1>1, <1>3, <1>5, OneTaskUnfinished, ShortKept, SleepsOn
<1>6. CASE Proceed(t)
  <2>1. PICK new \in TaskRecords : SetTask(t, new) /\ UNCHANGED buffer /\ ready' = Tail(ready)
    BY <1>1, <1>6, ProceedFacts
  <2> QED BY <1>5, <2>1
<1>7. CASE Retires(t)
  <2>1. PICK new \in TaskRecords : SetTask(t, new) /\ UNCHANGED buffer /\ ready' = Tail(ready)
    BY <1>1, <1>7 DEF Retires, TaskRecords, TaskState
  <2> QED BY <1>5, <2>1
<1>8. CASE End(t)
  <2>1. ready' = Append(Tail(ready), CallbackHandle(t))
    BY <1>8 DEF End
  <2>2. /\ Retained(ready, ready')
        /\ Len(Tail(ready)) + 1 \in DOMAIN ready' /\ ready'[Len(Tail(ready)) + 1] = CallbackHandle(t)
    BY <1>3, <1>4, <2>1, AppendParts
  <2> QED BY <1>1, <1>2, <1>4, <2>2, EndsSleep
<1>9. CASE Store(t)
  <2>1. ready' = Tail(ready) \o <<StartHandle(Len(tasks) + 1), CallbackHandle(t)>>
    BY <1>9 DEF Store
  <2>2. StartHandle(Len(tasks) + 1) \in Handles
    <3>1. Len(tasks) + 1 \in Nat
      BY PipeFacts, TypeFacts
    <3> QED BY <3>1 DEF StartHandle, Handle, Handles, Kinds
  <2> SUFFICES ASSUME NEW g \in Handles, NEW h \in Handles, h = CallbackHandle(t),
                      ready' = Tail(ready) \o <<g, h>>
               PROVE  Sleeps(c)'
    BY <1>4, <2>1, <2>2
  <2>3. ready' = Append(Append(Tail(ready), g), h)
    BY <1>3, AppendTwo
  <2> SUFFICES ASSUME NEW r, r = Append(Tail(ready), g), ready' = Append(r, h) PROVE Sleeps(c)'
    BY <2>3
  <2>4. r \in Seq(Handles) /\ Retained(ready, r)
    BY <1>3, AppendParts
  <2>5. Retained(ready, ready')
    <3>1. Retained(r, ready')
      BY <2>4, RetainedQueues
    <3> QED BY <2>4, <3>1 DEF Retained
  <2>6. Len(r) + 1 \in DOMAIN ready' /\ ready'[Len(r) + 1] = h
    BY <2>4, AppendParts
  <2> QED BY <1>1, <1>2, <1>4, <2>5, <2>6, EndsSleep
<1> QED BY <1>6, <1>7, <1>8, <1>9 DEF TaskStep

LEMMA RefusesSleep ==
    ASSUME PipeInv, NEW kind, NEW t, Refuses(kind, t), NEW c \in Callers, Sleeps(c)
    PROVE  Sleeps(c)'
<1>1. /\ UNCHANGED <<running, pc, waitFor>> /\ ready \in Seq(Handles) /\ ready # <<>>
      /\ Head(ready).kind \notin {"callback", "completed", "resume"} /\ t \in Nat
      /\ ready' = Append(Tail(ready), CallbackHandle(t))
  BY PipeFacts, TypeFacts DEF Refuses, Turn
<1>2. t \in Unfinished
  BY RefusedTask
<1>3. /\ CallbackHandle(t) \in Handles /\ CallbackHandle(t).kind = "callback"
      /\ CallbackHandle(t).task = t
  BY <1>1 DEF CallbackHandle, Handle, Handles, Kinds
<1>4. Retained(ready, ready') /\ Tail(ready) \in Seq(Handles)
  BY <1>1, <1>3, RetainedTail, TailParts
<1>5. Len(Tail(ready)) + 1 \in DOMAIN ready' /\ ready'[Len(Tail(ready)) + 1] = CallbackHandle(t)
  BY <1>1, <1>3, <1>4, AppendParts
<1> QED BY <1>1, <1>2, <1>3, <1>4, <1>5, EndsSleep

LEMMA UsbSleeps ==
    ASSUME PipeInv, UsbOrCallback \/ UsbComplete, NEW c \in Callers, Sleeps(c)
    PROVE  Sleeps(c)'
<1>0. ready \in Seq(Handles) /\ TransfersInv /\ TaskIds \subseteq Nat
  BY PipeFacts, TypeFacts
<1>1. ASSUME UNCHANGED <<running, pc, waitFor, arg, buffer>>, Retained(ready, ready'),
             \/ UNCHANGED tasks
             \/ \E t \in TaskIds, new \in TaskRecords :
                   SetTask(t, new) /\ (tasks[t].state = "over" => new.state = "over")
      PROVE  Sleeps(c)'
  <2>1. Unfinished' \subseteq Unfinished
    BY <1>1, TasksUnchanged, OneTaskUnfinished
  <2> QED BY <1>1, <2>1, ShortKept, SleepsOn
<1>2. CASE UsbComplete
  <2>1. PICK t \in TaskIds, n \in 0..XferSize, status \in {"ok", "error"}, new \in TaskRecords :
            /\ SetTask(t, new) /\ new.state = tasks[t].state
            /\ ready' = Append(ready, Handle("usb", t, {}))
            /\ UNCHANGED <<running, pc, waitFor, pipeVars, callVars>>
    BY <1>2, CompleteFacts
  <2>2. Handle("usb", t, {}) \in Handles
    BY <1>0 DEF Handle, Handles, Kinds
  <2>3. Retained(ready, ready')
    BY <1>0, <2>1, <2>2, RetainedQueues
  <2> QED BY <1>1, <2>1, <2>3 DEF pipeVars, callVars
<1>3. CASE UsbOrCallback
  <2>1. /\ UNCHANGED <<running, pc, waitFor, arg, buffer>>
        /\ TransferCallback \/ UsbCancelled
    BY <1>3 DEF UsbOrCallback, TransferCallback, UsbCancelled, pipeVars, callVars
  <2>2. \/ UNCHANGED tasks
        \/ \E t \in TaskIds, new \in TaskRecords :
              SetTask(t, new) /\ (tasks[t].state = "over" => new.state = "over")
    <3>1. \/ UNCHANGED tasks
          \/ \E t \in TaskIds, new \in TaskRecords :
                SetTask(t, new) /\ tasks[t].state \in {"inflight", "cancelling"}
      BY <1>0, <2>1, TransferTasks
    <3> QED BY <3>1
  <2>3. Retained(ready, ready')
    <3>1. CASE UsbCancelled
      <4>1. PICK i \in DOMAIN urbs : ready' = Append(ready, Handle("usb", urbs[i], {}))
        BY <3>1 DEF UsbCancelled
      <4>2. Handle("usb", urbs[i], {}) \in Handles
        BY <1>0, TypeFacts DEF Handle, Handles, Kinds
      <4> QED BY <1>0, <4>1, <4>2, RetainedQueues
    <3>2. CASE TransferCallback
      <4>1. /\ ready # <<>> /\ Head(ready).kind = "usb" /\ Head(ready).task \in Nat
        BY <1>0, <3>2, TurnProperties DEF TransferCallback, TaskKinds
      <4>2. \/ ready' = Tail(ready)
            \/ ready' = Append(Tail(ready), WakeHandle(Head(ready).task))
        BY <3>2 DEF TransferCallback
      <4>3. WakeHandle(Head(ready).task) \in Handles
        BY <4>1 DEF WakeHandle, Handle, Handles, Kinds
      <4> QED BY <1>0, <4>1, <4>2, <4>3, RetainedTail
    <3> QED BY <2>1, <3>1, <3>2
  <2> QED BY <1>1, <2>1, <2>2, <2>3
<1> QED BY <1>2, <1>3

LEMMA SleepNext == PipeInv /\ CallersFit /\ ResetAll /\ SleepInv /\ [Next]_vars => SleepInv'
<1> SUFFICES ASSUME PipeInv, CallersFit, ResetAll, SleepInv, [Next]_vars, NEW c \in Callers
             PROVE  Sleeps(c)'
  BY DEF SleepInv
<1>1. Sleeps(c)
  BY DEF SleepInv
<1> QED BY <1>1, StepKinds, QuietSleeps, ReadsSleep, ResetsSleep, TasksSleep, RefusesSleep,
           UsbSleeps

LEMMA SleepAlways == Spec => []SleepInv
<1>1. Init => SleepInv
  BY DEF Init, SleepInv, Sleeps, Asleep
<1> QED BY <1>1, SleepNext, PipeAlways, CallersAlways, ResetAlways, PTL DEF Spec

(* A caller of recv() or recv_until() does not sleep on data that is there: *)
(* the _callback of a task that it waits for, or the end of its wait for    *)
(* tasks that had ended, is scheduled.                                      *)
THEOREM Wakes == Spec => []NoLostWakeup
<1>1. SleepInv => NoLostWakeup
  BY DEF SleepInv, Sleeps, Coming, NoLostWakeup
<1> QED BY <1>1, SleepAlways, PTL

(* Read pushback holds tasks back only while the buffer is over its limit.  *)
(* A caller that sleeps on tasks that all wait for it has asked for more    *)
(* than one byte beyond the limit: whatever recv() is asked for, that is    *)
(* the only way in which the pipe and its caller wait for each other.       *)
THEOREM NeverStuck == Spec => []NotStuck
<1>1. ASSUME PipeInv, SleepInv, HeldBack PROVE NotStuck
  <2> SUFFICES ASSUME NEW c \in Callers, Asleep(c),
                      \A t \in waitFor[c] : t # Late /\ tasks[t].state = "waiting"
               PROVE  Full /\ Short(c) /\ Need(c) > BufferSize + 1
    BY DEF NotStuck
  <2>1. waitFor[c] # {} /\ (Coming(c) \/ Short(c))
    BY <1>1 DEF SleepInv, Sleeps
  <2>2. waitFor[c] \subseteq TaskIds
    BY <1>1, PipeFacts DEF TransfersInv, TransfersType
  <2>3. ~Coming(c)
    <3>1. \A i \in DOMAIN ready : ready[i].kind = "callback" => tasks[ready[i].task].state = "over"
      BY <1>1, PipeFacts, TypeFacts DEF QueueOK, HandleFits, KindFits, TaskKinds
    <3> QED BY <3>1 DEF Coming
  <2>4. Full
    BY <1>1, <2>1, <2>2 DEF HeldBack
  <2>5. Need(c) \in Nat
    BY <1>1 DEF Need, PipeInv, PipeType
  <2>6. Len(buffer) \in Nat /\ BufferSize \in Nat
    BY <1>1, PipeFacts, InPipeAssumption
  <2> QED BY <2>1, <2>3, <2>4, <2>5, <2>6 DEF Short, Full
<1> QED BY <1>1, PipeAlways, SleepAlways, HeldAlways, PTL

--------------------------------------------------------------------------------
(* What recv() and recv_until() return *)

(* While recv_until() goes on, it has met no delimiter. *)
UntilFits ==
    \A c \in Callers : pc[c] = "until" =>
        \A i \in DOMAIN result[c] : result[c][i] \notin Delimiters

LEMMA UntilKept ==
    ASSUME UntilFits,
           \A c \in Callers : pc'[c] = "until" =>
               (pc[c] = "until" /\ result'[c] = result[c]) \/ result'[c] = <<>>
    PROVE  UntilFits'
<1>1. DOMAIN <<>> = {}
  OBVIOUS
<1> QED BY <1>1 DEF UntilFits

(* recv() takes what it was asked for. *)
LEMMA RecvReadResult ==
    ASSUME PipeInv, NEW c \in Callers, RecvRead(c)
    PROVE  Len(result'[c]) = arg[c]
<1>1. /\ result'[c] = SubSeq(buffer, 1, arg[c]) /\ arg[c] <= Len(buffer)
  BY DEF RecvRead, PipeInv, PipeType
<1>2. arg[c] \in Nat /\ Len(buffer) \in Nat
  BY PipeFacts DEF PipeInv, PipeType
<1>3. arg[c] \in 0..Len(buffer)
  <2> SUFFICES ASSUME NEW n, n = arg[c], NEW m, m = Len(buffer) PROVE n \in 0..m
    OBVIOUS
  <2> QED BY <1>1, <1>2
<1>4. Len(SubSeq(buffer, 1, arg[c])) = arg[c]
  BY <1>3, TakenParts, Zenon
<1> QED BY <1>1, <1>4

(* recv_until() adds the bytes up to the first delimiter, or all of them. *)
LEMMA UntilReadResult ==
    ASSUME PipeInv, NEW c \in Callers, RecvUntilRead(c)
    PROVE  /\ UntilFirst \in 1..Len(buffer)
           /\ Len(result'[c]) = Len(result[c]) + UntilFirst /\ Len(result[c]) \in Nat
           /\ DOMAIN result'[c] = 1..(Len(result[c]) + UntilFirst)
           /\ \A i \in DOMAIN result'[c] :
                 \/ i \in DOMAIN result[c] /\ result'[c][i] = result[c][i]
                 \/ /\ i - Len(result[c]) \in 1..UntilFirst
                    /\ result'[c][i] = buffer[i - Len(result[c])]
<1>1. UntilFirst \in 1..Len(buffer) /\ Len(buffer) \in Nat
  BY UntilFirstFits, PipeFacts DEF RecvUntilRead
<1>2. /\ SubSeq(buffer, 1, UntilFirst) \in Seq(1..produced)
      /\ Len(SubSeq(buffer, 1, UntilFirst)) = UntilFirst
      /\ DOMAIN SubSeq(buffer, 1, UntilFirst) = 1..UntilFirst
      /\ \A i \in 1..UntilFirst : SubSeq(buffer, 1, UntilFirst)[i] = buffer[i]
  <2>1. UntilFirst \in 0..Len(buffer)
    BY <1>1
  <2> QED BY <2>1, TakenParts, Zenon
<1>3. result[c] \in Seq(1..produced) /\ result'[c] = result[c] \o SubSeq(buffer, 1, UntilFirst)
  BY DEF RecvUntilRead, PipeInv, PipeType
<1> DEFINE Adds(q, r) ==
               /\ Len(q) = Len(r) + UntilFirst /\ Len(r) \in Nat
               /\ DOMAIN q = 1..(Len(r) + UntilFirst)
               /\ \A i \in DOMAIN q :
                     \/ i \in DOMAIN r /\ q[i] = r[i]
                     \/ i - Len(r) \in 1..UntilFirst /\ q[i] = buffer[i - Len(r)]
<1> SUFFICES Adds(result'[c], result[c])
  BY <1>1
<1> HIDE DEF Adds
<1> SUFFICES ASSUME NEW b, b = SubSeq(buffer, 1, UntilFirst), NEW r, r = result[c]
             PROVE  Adds(r \o b, r)
  BY <1>3, Zenon
<1>4. /\ b \in Seq(1..produced) /\ Len(b) = UntilFirst /\ DOMAIN b = 1..UntilFirst
      /\ \A i \in 1..UntilFirst : b[i] = buffer[i]
  BY <1>2, Zenon
<1>5. r \in Seq(1..produced) /\ b \in Seq(1..produced)
  BY <1>3, <1>4
<1>6. /\ Len(r \o b) = Len(r) + Len(b) /\ Len(r) \in Nat
      /\ DOMAIN (r \o b) = 1..(Len(r) + Len(b))
      /\ \A i \in DOMAIN (r \o b) :
             \/ i \in DOMAIN r /\ (r \o b)[i] = r[i]
             \/ i - Len(r) \in DOMAIN b /\ (r \o b)[i] = b[i - Len(r)]
  BY ONLY <1>5, ConcatParts
<1> SUFFICES ASSUME NEW q, q = r \o b PROVE Adds(q, r)
  BY Zenon
<1>7. /\ Len(q) = Len(r) + Len(b) /\ Len(r) \in Nat
      /\ DOMAIN q = 1..(Len(r) + Len(b))
      /\ \A i \in DOMAIN q :
             \/ i \in DOMAIN r /\ q[i] = r[i]
             \/ i - Len(r) \in DOMAIN b /\ q[i] = b[i - Len(r)]
  BY <1>6, Zenon
<1> QED BY <1>4, <1>7 DEF Adds

LEMMA UntilReadFits ==
    ASSUME PipeInv, UntilFits, NEW c \in Callers, RecvUntilRead(c)
    PROVE  /\ pc'[c] = "until" => \A i \in DOMAIN result'[c] : result'[c][i] \notin Delimiters
           /\ pc'[c] = "run" => \A i \in DOMAIN result'[c] :
                                    result'[c][i] \in Delimiters <=> i = Len(result'[c])
<1>1. /\ pc \in [Callers -> {"idle", "called", "run", "recv", "until", "cancel"}]
      /\ DOMAIN buffer = 1..Len(buffer) /\ Len(buffer) \in Nat
  BY PipeFacts
<1>2. /\ pc[c] = "until" /\ buffer # <<>>
      /\ pc' = IF Hits = {} THEN pc ELSE [pc EXCEPT ![c] = "run"]
  BY DEF RecvUntilRead
<1>3. /\ UntilFirst \in 1..Len(buffer)
      /\ Hits # {} => UntilFirst \in Hits /\ \A i \in Hits : UntilFirst <= i
  BY <1>2, UntilFirstFits
<1>4. \A i \in DOMAIN result[c] : result[c][i] \notin Delimiters
  BY <1>2 DEF UntilFits
<1> SUFFICES ASSUME NEW n \in 1..Len(buffer), n = UntilFirst, NEW m \in Nat, m = Len(result[c])
             PROVE  /\ Hits = {} => \A i \in DOMAIN result'[c] : result'[c][i] \notin Delimiters
                    /\ Hits # {} => \A i \in DOMAIN result'[c] :
                                        result'[c][i] \in Delimiters <=> i = Len(result'[c])
  BY <1>1, <1>2, <1>3, UntilReadResult
<1>5. /\ Len(result'[c]) = m + n /\ DOMAIN result'[c] = 1..(m + n) /\ DOMAIN result[c] = 1..m
      /\ \A i \in DOMAIN result'[c] :
            \/ i \in DOMAIN result[c] /\ result'[c][i] = result[c][i]
            \/ i - m \in 1..n /\ result'[c][i] = buffer[i - m]
  <2>1. DOMAIN result[c] = 1..Len(result[c])
    <3>1. result[c] \in Seq(1..produced)
      BY DEF PipeInv, PipeType
    <3> QED BY <3>1, LenProperties
  <2> QED BY <2>1, UntilReadResult
<1>6. \A j \in 1..n : buffer[j] \in Delimiters <=> j \in Hits
  BY <1>1 DEF Hits
<1>7. ASSUME Hits = {}, NEW i \in DOMAIN result'[c] PROVE result'[c][i] \notin Delimiters
  BY <1>4, <1>5, <1>6, <1>7
<1>8. ASSUME Hits # {}, NEW i \in DOMAIN result'[c]
      PROVE  result'[c][i] \in Delimiters <=> i = m + n
  <2>1. n \in Hits /\ \A j \in Hits : n <= j
    BY <1>3, <1>8
  <2>2. i \in Nat
    BY <1>5, <1>8
  <2>3. CASE i \in DOMAIN result[c] /\ result'[c][i] = result[c][i]
    <3>1. i # m + n
      BY <1>5, <2>3
    <3> QED BY <1>4, <2>3, <3>1
  <2>4. CASE i - m \in 1..n /\ result'[c][i] = buffer[i - m]
    <3>1. i - m \in Hits <=> i - m = n
      BY <1>6, <2>1, <2>4
    <3>2. result'[c][i] \in Delimiters <=> i - m \in Hits
      BY <1>6, <2>4
    <3> QED BY <2>2, <3>1, <3>2
  <2> QED BY <1>5, <2>3, <2>4
<1> QED BY <1>5, <1>7, <1>8

LEMMA UntilNext == PipeInv /\ UntilFits /\ [Next]_vars => UntilFits'
<1> SUFFICES ASSUME PipeInv, UntilFits, [Next]_vars PROVE UntilFits'
  OBVIOUS
<1>0. /\ pc \in [Callers -> {"idle", "called", "run", "recv", "until", "cancel"}] /\ TransfersInv
      /\ result \in [Callers -> Seq(1..produced)]
  BY PipeFacts DEF PipeType
<1>1. ASSUME NEW d \in Callers, QuietCaller(d) PROVE UntilFits'
  <2>1. CASE Yields(d)
    <3>1. pc' = [pc EXCEPT ![d] = "idle"] /\ result' = [result EXCEPT ![d] = <<>>]
      BY <2>1 DEF Yields, Yield
    <3> QED BY <1>0, <3>1, UntilKept
  <2>2. CASE CallRecvUntil(d)
    <3>1. pc' = [pc EXCEPT ![d] = "until"] /\ result' = [result EXCEPT ![d] = <<>>]
      BY <2>2 DEF CallRecvUntil, Calls
    <3> QED BY <1>0, <3>1, UntilKept
  <2>3. CASE CallRecv(d)
    <3>1. pc' = [pc EXCEPT ![d] = "recv"] /\ UNCHANGED result
      BY <2>3 DEF CallRecv, Calls
    <3> QED BY <1>0, <3>1, UntilKept
  <2>4. CASE CallerWakes(d) /\ Untouched
    <3>1. pc' = [pc EXCEPT ![d] = "called"] /\ UNCHANGED result
      BY <2>4 DEF CallerWakes, Untouched, callVars
    <3> QED BY <1>0, <3>1, UntilKept
  <2>5. CASE Resume(d) /\ UNCHANGED <<pipeVars, usbVars, callVars>>
    <3>1. (pc' = pc \/ pc' = [pc EXCEPT ![d] = "run"]) /\ UNCHANGED result
      BY <2>5 DEF Resume, Poll, callVars
    <3> QED BY <1>0, <3>1, UntilKept
  <2>6. CASE RecvWait(d)
    <3>1. /\ UNCHANGED result
          /\ WaitOne(d) \/ (pc' = [pc EXCEPT ![d] = "run"] /\ UNCHANGED <<ready, running, waitFor>>)
      BY <2>6 DEF RecvWait, callVars
    <3>2. pc' = pc \/ pc' = [pc EXCEPT ![d] = "run"]
      BY <3>1 DEF WaitOne, Poll
    <3> QED BY <1>0, <3>1, <3>2, UntilKept
  <2> QED BY <1>1, <2>1, <2>2, <2>3, <2>4, <2>5, <2>6 DEF QuietCaller
<1>2. CASE UNCHANGED <<pc, result>>
  BY <1>2, UntilKept
<1>3. ASSUME NEW d \in Callers, RecvRead(d) \/ RecvUntilRead(d) PROVE UntilFits'
  <2>1. /\ \A c \in Callers : c # d => pc'[c] = pc[c] /\ result'[c] = result[c]
        /\ RecvRead(d) => pc'[d] = "run"
    BY <1>0, <1>3 DEF RecvRead, RecvUntilRead
  <2> QED BY <1>3, <2>1, UntilReadFits DEF UntilFits
<1>4. ASSUME NEW d \in Callers, CallReset(d) \/ EndCancel(d) PROVE UntilFits'
  <2>1. (pc' = [pc EXCEPT ![d] = "cancel"] \/ pc' = [pc EXCEPT ![d] = "run"]) /\ UNCHANGED result
    BY <1>4 DEF CallReset, CancelQueue, Calls, EndCancel, callVars
  <2> QED BY <1>0, <2>1, UntilKept
<1>5. ASSUME NEW kind, NEW t, TaskStep(kind, t) PROVE UNCHANGED <<pc, result>>
  BY <1>5 DEF TaskStep, TaskRuns, callVars
<1>6. UsbOrCallback \/ UsbComplete => UNCHANGED <<pc, result>>
  <2>1. UsbOrCallback => UNCHANGED <<pc, result>>
    BY DEF UsbOrCallback, TransferCallback, UsbCancelled, callVars
  <2>2. UsbComplete => UNCHANGED <<pc, result>>
    BY DEF UsbComplete, callVars
  <2> QED BY <2>1, <2>2
<1>7. Quiet => (\E d \in Callers : QuietCaller(d)) \/ UNCHANGED <<pc, result>>
  BY DEF Quiet, TaskCallback, LateCompleted, Untouched, callVars, vars
<1>8. ASSUME NEW kind, NEW t, Refuses(kind, t) PROVE UNCHANGED <<pc, result>>
  BY <1>8 DEF Refuses, callVars
<1> QED BY <1>1, <1>2, <1>3, <1>4, <1>5, <1>6, <1>7, <1>8, StepKinds

LEMMA UntilAlways == Spec => []UntilFits
<1>1. Init => UntilFits
  BY DEF Init, UntilFits
<1> QED BY <1>1, UntilNext, PipeAlways, PTL DEF Spec

--------------------------------------------------------------------------------
(* How many tasks there are *)

LEMMA FiniteTasks ==
    ASSUME NEW n \in Nat
    PROVE  \A S \in SUBSET (1..n) : IsFiniteSet(S) /\ Cardinality(S) \in Nat
<1>1. IsFiniteSet(1..n)
  BY FS_Interval
<1> QED BY <1>1, FS_Subset, FS_CardinalityType

LEMMA FiniteSets ==
    ASSUME PipeInv
    PROVE  /\ IsFiniteSet(Unfinished) /\ Cardinality(Unfinished) \in Nat
           /\ IsFiniteSet(Failed) /\ Cardinality(Failed) \in Nat
<1>1. Len(tasks) \in Nat /\ Unfinished \in SUBSET (1..Len(tasks)) /\ Failed \in SUBSET (1..Len(tasks))
  BY PipeFacts, TypeFacts DEF Unfinished, Failed, TaskIds
<1> QED BY <1>1, FiniteTasks

(* Until a reset() has been called no task is cancelled. *)
DepthInv == QueueDepth /\ (resets = 0 => \A c \in Callers : pc[c] # "cancel")

LEMMA DepthKept ==
    ASSUME DepthInv, UNCHANGED <<Unfinished, Failed, resets>>,
           \A c \in Callers : pc'[c] = "cancel" => pc[c] = "cancel"
    PROVE  DepthInv'
  BY DEF DepthInv, QueueDepth

LEMMA SameTasks ==
    ASSUME PipeInv, NEW t \in TaskIds, NEW new \in TaskRecords, SetTask(t, new),
           new.state = "over" <=> tasks[t].state = "over", new.outcome = tasks[t].outcome
    PROVE  UNCHANGED <<Unfinished, Failed>>
<1>1. /\ TaskIds' = TaskIds /\ tasks'[t] = new /\ \A u \in TaskIds : u # t => tasks'[u] = tasks[u]
  BY PipeFacts, TypeFacts, SetTaskProperties
<1>2. Unfinished' = Unfinished /\ Failed' = Failed
  BY <1>1 DEF Unfinished, Over, Failed
<1> QED BY <1>2

LEMMA QuietPlaces ==
    ASSUME PipeInv, Quiet, NEW c \in Callers, pc'[c] = "cancel"
    PROVE  pc[c] = "cancel"
<1>0. pc \in [Callers -> {"idle", "called", "run", "recv", "until", "cancel"}]
  BY PipeFacts
<1>1. \/ pc' = pc
      \/ \E d \in Callers : \E op : op # "cancel" /\ pc' = [pc EXCEPT ![d] = op]
  <2>1. CASE UNCHANGED vars
    BY <2>1 DEF vars
  <2>2. CASE TaskCallback \/ LateCompleted
    BY <2>2 DEF TaskCallback, LateCompleted
  <2>3. ASSUME NEW d \in Callers, QuietCaller(d)
        PROVE  pc' = pc \/ \E op : op # "cancel" /\ pc' = [pc EXCEPT ![d] = op]
    <3>1. \/ pc' = pc
          \/ pc' = [pc EXCEPT ![d] = "called"] \/ pc' = [pc EXCEPT ![d] = "run"]
          \/ pc' = [pc EXCEPT ![d] = "idle"] \/ pc' = [pc EXCEPT ![d] = "recv"]
          \/ pc' = [pc EXCEPT ![d] = "until"]
      BY <2>3 DEF QuietCaller, CallerWakes, Resume, Poll, Yields, Yield, CallRecv, CallRecvUntil,
                  Calls, RecvWait, WaitOne
    <3> QED BY <3>1
  <2> QED BY <2>1, <2>2, <2>3 DEF Quiet
<1> QED BY <1>0, <1>1

LEMMA ResetsDepth ==
    ASSUME PipeInv, CallersFit, ResetAll, DepthInv, NEW c \in Callers, CallReset(c) \/ EndCancel(c)
    PROVE  DepthInv'
<1>0. /\ TransfersInv /\ resets \in Nat /\ XfersPerQueue \in Nat
      /\ pc \in [Callers -> {"idle", "called", "run", "recv", "until", "cancel"}]
  BY PipeFacts, InPipeAssumption DEF PipeType
<1>1. CASE CallReset(c)
  <2>1. tasks' = Cancelled /\ TaskIds' = TaskIds /\ resets' = resets + 1
    BY <1>0, <1>1, CancelQueueProperties, CancelQueueInv DEF CallReset
  <2>2. Unfinished' = Unfinished
    BY <1>0, <2>1, CancelledProperties DEF Unfinished, Over
  <2>3. resets' # 0
    BY <1>0, <2>1
  <2> QED BY <2>2, <2>3 DEF DepthInv, QueueDepth
<1>2. CASE EndCancel(c)
  <2>1. /\ running = c /\ pc[c] = "cancel" /\ resets' = resets
        /\ UNCHANGED tasks \/ StartTasks(Len(tasks))
    BY <1>2 DEF EndCancel, callVars
  <2>2. Unfinished = {} /\ resets' # 0
    BY <2>1, NothingLeft DEF DepthInv, ResetAll
  <2>3. Cardinality(Unfinished') <= XfersPerQueue
    <3>1. CASE UNCHANGED tasks
      <4>1. Unfinished' = Unfinished
        BY <3>1, TasksUnchanged
      <4> QED BY <4>1 DEF DepthInv, QueueDepth
    <3>2. CASE StartTasks(Len(tasks))
      <4> SUFFICES ASSUME NEW n, n = Len(tasks) PROVE Cardinality(Unfinished') <= XfersPerQueue
        OBVIOUS
      <4>1. /\ n \in Nat /\ TaskIds = 1..n /\ TaskIds' = 1..(n + XfersPerQueue)
            /\ \A t \in TaskIds : tasks'[t] = tasks[t]
            /\ \A t \in TaskIds' \ TaskIds : tasks'[t] = Task(0, 0)
        BY <3>2, StartFacts
      <4>2. \A t \in TaskIds : tasks[t].state = "over"
        BY <2>2 DEF Unfinished, Over
      <4>3. Unfinished' = TaskIds' \ TaskIds
        <5>1. \A t \in TaskIds' : t \in Over' <=> t \in TaskIds
          BY <4>1, <4>2, TaskType DEF Over
        <5> QED BY <5>1 DEF Unfinished
      <4>4. Unfinished' = (n + 1)..(n + XfersPerQueue)
        BY <1>0, <4>1, <4>3
      <4>5. Cardinality((n + 1)..(n + XfersPerQueue)) = XfersPerQueue
        <5>1. /\ n + 1 \in Int /\ n + XfersPerQueue \in Int
              /\ ~(n + 1 > n + XfersPerQueue)
              /\ (n + XfersPerQueue) - (n + 1) + 1 = XfersPerQueue
          BY <1>0, <4>1, InPipeAssumption
        <5> QED BY <5>1, FS_Interval
      <4> QED BY <1>0, <4>4, <4>5
    <3> QED BY <2>1, <3>1, <3>2
  <2> QED BY <2>2, <2>3 DEF DepthInv, QueueDepth
<1> QED BY <1>1, <1>2

LEMMA EndsDepth ==
    ASSUME PipeInv, ResetAll, DepthInv, NEW kind, NEW t, TaskRuns(kind, t),
           tasks[t].state \in {"created", "notified"} => tasks[t].mustCancel,
           Outcome(t) \in {"error", "cancelled"}, End(t)
    PROVE  DepthInv'
<1>0. /\ TransfersInv /\ t \in TaskIds /\ tasks[t] \in TaskRecords /\ TaskFits(tasks[t])
      /\ KindFits(kind, tasks[t]) /\ kind \in {"start", "wake"} /\ UNCHANGED <<pc, resets>>
      /\ XfersPerQueue \in Nat
  BY PipeFacts, InPipeAssumption DEF TaskRuns, callVars
<1>1. tasks[t].state # "over" /\ tasks[t].outcome = "none"
  BY <1>0 DEF KindFits, TaskFits
<1> DEFINE new == Ended(Outcome(t))
<1>2. /\ new \in TaskRecords /\ new.state = "over" /\ new.outcome = Outcome(t) /\ SetTask(t, new)
  BY EndedType DEF End, Outcomes
<1> HIDE DEF new
<1>3. /\ TaskIds' = TaskIds /\ tasks'[t] = new /\ \A u \in TaskIds : u # t => tasks'[u] = tasks[u]
  BY <1>0, <1>2, TypeFacts, SetTaskProperties
<1>4. Unfinished' = Unfinished \ {t} /\ t \in Unfinished
  BY <1>0, <1>1, <1>2, <1>3 DEF Unfinished, Over
<1>5. t \notin Failed /\ (Outcome(t) = "error" => Failed' = Failed \cup {t})
  BY <1>0, <1>1, <1>2, <1>3 DEF Failed
<1>6. resets = 0 => Outcome(t) = "error"
  <2> SUFFICES ASSUME resets = 0 PROVE Outcome(t) = "error"
    OBVIOUS
  <2>1. \A c \in Callers : pc[c] # "cancel"
    BY DEF DepthInv
  <2>2. ~Doomed(t)
    BY <1>4, <2>1 DEF ResetAll, ResetInv
  <2>3. tasks[t].state = "completed" /\ ~tasks[t].mustCancel
    BY <1>0, <2>2 DEF Doomed, KindFits
  <2>4. Outcome(t) = tasks[t].urb /\ tasks[t].urb \in {"ok", "error"}
    BY <1>0, <2>3 DEF Outcome, TaskFits
  <2> QED BY <2>4
<1>7. /\ Cardinality(Unfinished') = Cardinality(Unfinished) - 1
      /\ Outcome(t) = "error" => Cardinality(Failed') = Cardinality(Failed) + 1
      /\ Cardinality(Unfinished) \in Nat /\ Cardinality(Failed) \in Nat
  BY <1>4, <1>5, FiniteSets, FS_RemoveElement, FS_AddElement
<1>8. /\ Cardinality(Unfinished') <= XfersPerQueue
      /\ resets = 0 => Cardinality(Unfinished') + Cardinality(Failed') = XfersPerQueue
  <2> SUFFICES ASSUME NEW u \in Nat, u = Cardinality(Unfinished), NEW f \in Nat, f = Cardinality(Failed)
               PROVE  /\ Cardinality(Unfinished') <= XfersPerQueue
                      /\ resets = 0 => Cardinality(Unfinished') + Cardinality(Failed') = XfersPerQueue
    BY <1>7
  <2>1. u <= XfersPerQueue /\ (resets = 0 => u + f = XfersPerQueue)
    BY DEF DepthInv, QueueDepth
  <2> QED BY <1>0, <1>6, <1>7, <2>1
<1> QED BY <1>0, <1>8 DEF DepthInv, QueueDepth

LEMMA StoreDepth ==
    ASSUME PipeInv, DepthInv, NEW t, TaskRuns("wake", t), Outcome(t) = "ok", Store(t)
    PROVE  DepthInv'
<1> SUFFICES ASSUME NEW n, n = Len(tasks) + 1 PROVE DepthInv'
  OBVIOUS
<1>1. /\ t \in TaskIds /\ tasks[t].state = "completed" /\ n \notin TaskIds /\ n # t
      /\ TaskIds' = TaskIds \cup {n} /\ tasks'[n] = Task(0, 0) /\ tasks'[t] = Ended("ok")
      /\ \A u \in TaskIds : u # t => tasks'[u] = tasks[u]
      /\ UNCHANGED <<pc, callVars>>
  BY StoreFacts, Zenon
<1>2. UNCHANGED <<pc, resets>>
  BY <1>1 DEF callVars
<1>3. /\ Task(0, 0).state = "created" /\ Task(0, 0).outcome = "none"
      /\ Ended("ok").state = "over" /\ Ended("ok").outcome = "ok"
  BY TaskType, EndedType DEF Outcomes
<1>4. tasks[t].outcome = "none"
  BY <1>1, PipeFacts, TypeFacts DEF TaskFits
<1>5. Unfinished' = (Unfinished \ {t}) \cup {n} /\ t \in Unfinished /\ n \notin Unfinished
  BY <1>1, <1>3 DEF Unfinished, Over
<1>6. Failed' = Failed
  BY <1>1, <1>3, <1>4 DEF Failed
<1>7. Cardinality(Unfinished') = Cardinality(Unfinished)
  <2>1. /\ IsFiniteSet(Unfinished \ {t})
        /\ Cardinality(Unfinished \ {t}) = Cardinality(Unfinished) - 1
        /\ Cardinality(Unfinished) \in Nat
    BY <1>5, FiniteSets, FS_RemoveElement
  <2>2. Cardinality((Unfinished \ {t}) \cup {n}) = Cardinality(Unfinished \ {t}) + 1
    BY <1>5, <2>1, FS_AddElement
  <2> QED BY <1>5, <2>1, <2>2
<1> QED BY <1>2, <1>6, <1>7 DEF DepthInv, QueueDepth

LEMMA RefusesDepth ==
    ASSUME PipeInv, DepthInv, NEW kind, NEW t, Refuses(kind, t)
    PROVE  DepthInv'
<1>1. /\ TransfersInv /\ XfersPerQueue \in Nat /\ t \in TaskIds /\ t \in Unfinished
      /\ tasks[t].outcome = "none" /\ UNCHANGED <<pc, resets>>
  BY PipeFacts, RefusedTask, InPipeAssumption DEF Refuses, callVars
<1>2. PICK new \in TaskRecords : SetTask(t, new) /\ new.state = "over" /\ new.outcome = "error"
  BY RefusedTask
<1>3. /\ TaskIds' = TaskIds /\ tasks'[t] = new /\ \A u \in TaskIds : u # t => tasks'[u] = tasks[u]
  BY <1>1, <1>2, TypeFacts, SetTaskProperties
<1>4. Unfinished' = Unfinished \ {t}
  BY <1>1, <1>2, <1>3 DEF Unfinished, Over
<1>5. t \notin Failed /\ Failed' = Failed \cup {t}
  BY <1>1, <1>2, <1>3 DEF Failed
<1>6. /\ Cardinality(Unfinished') = Cardinality(Unfinished) - 1
      /\ Cardinality(Failed') = Cardinality(Failed) + 1
      /\ Cardinality(Unfinished) \in Nat /\ Cardinality(Failed) \in Nat
  BY <1>1, <1>4, <1>5, FiniteSets, FS_RemoveElement, FS_AddElement
<1>7. /\ Cardinality(Unfinished') <= XfersPerQueue
      /\ resets = 0 => Cardinality(Unfinished') + Cardinality(Failed') = XfersPerQueue
  <2> SUFFICES ASSUME NEW u \in Nat, u = Cardinality(Unfinished), NEW f \in Nat, f = Cardinality(Failed)
               PROVE  /\ Cardinality(Unfinished') <= XfersPerQueue
                      /\ resets = 0 => Cardinality(Unfinished') + Cardinality(Failed') = XfersPerQueue
    BY <1>6
  <2>1. u <= XfersPerQueue /\ (resets = 0 => u + f = XfersPerQueue)
    BY DEF DepthInv, QueueDepth
  <2> QED BY <1>1, <1>6, <2>1
<1> QED BY <1>1, <1>7 DEF DepthInv, QueueDepth

LEMMA DepthNext == PipeInv /\ CallersFit /\ ResetAll /\ DepthInv /\ [Next]_vars => DepthInv'
<1> SUFFICES ASSUME PipeInv, CallersFit, ResetAll, DepthInv, [Next]_vars PROVE DepthInv'
  OBVIOUS
<1>0. /\ TransfersInv /\ pc \in [Callers -> {"idle", "called", "run", "recv", "until", "cancel"}]
  BY PipeFacts
<1>1. CASE Quiet
  BY <1>1, QuietKeeps, QuietPlaces, TasksUnchanged, DepthKept
<1>2. ASSUME NEW c \in Callers, RecvRead(c) \/ RecvUntilRead(c) PROVE DepthInv'
  <2>1. /\ tasks' = Notified /\ UNCHANGED resets
        /\ pc' = pc \/ pc' = [pc EXCEPT ![c] = "run"]
    BY <1>2 DEF RecvRead, RecvUntilRead, Read, Notified, Waits
  <2>2. UNCHANGED <<Unfinished, Failed>>
    <3>1. TaskIds' = TaskIds /\ Unfinished' = Unfinished
      BY <2>1, NotifiedUnfinished
    <3>2. Failed' = Failed
      BY <2>1, <3>1, NotifiedProperties DEF Failed
    <3> QED BY <3>1, <3>2
  <2> QED BY <1>0, <2>1, <2>2, DepthKept
<1>3. ASSUME NEW c \in Callers, CallReset(c) \/ EndCancel(c) PROVE DepthInv'
  BY <1>3, ResetsDepth
<1>4. ASSUME NEW kind, NEW t, TaskStep(kind, t) PROVE DepthInv'
  <2>1. /\ TaskRuns(kind, t) /\ t \in TaskIds /\ tasks[t] \in TaskRecords /\ UNCHANGED <<pc, resets>>
    BY <1>4 DEF TaskStep, TaskRuns, callVars
  <2>2. CASE tasks[t].state \in {"created", "notified"} /\ Proceed(t)
    <3>1. PICK new \in TaskRecords : /\ SetTask(t, new) /\ new.outcome = tasks[t].outcome
                                     /\ new.state \in {"waiting", "inflight"}
      BY <2>1, <2>2, ProceedFacts
    <3>2. new.state # "over" /\ tasks[t].state # "over"
      BY <2>2, <3>1
    <3> QED BY <2>1, <3>1, <3>2, SameTasks, DepthKept
  <2>3. CASE /\ tasks[t].state \in {"created", "notified"} => tasks[t].mustCancel
             /\ Outcome(t) \in {"error", "cancelled"} /\ End(t)
    BY <2>1, <2>3, EndsDepth
  <2>4. CASE Retires(t)
    <3>1. PICK new \in TaskRecords : /\ SetTask(t, new) /\ new.outcome = tasks[t].outcome
                                     /\ new.state = "cancelling"
      <4> DEFINE new == [tasks[t] EXCEPT !.state = "cancelling"]
      <4>1. /\ new \in TaskRecords /\ new.outcome = tasks[t].outcome /\ new.state = "cancelling"
            /\ SetTask(t, new)
        BY <2>1, <2>4 DEF Retires, TaskRecords, TaskState
      <4> HIDE DEF new
      <4> QED BY <4>1
    <3>2. new.state # "over" /\ tasks[t].state # "over"
      BY <2>4, <3>1 DEF Retires, HasToCancel
    <3> QED BY <2>1, <3>1, <3>2, SameTasks, DepthKept
  <2>5. CASE kind = "wake" /\ Outcome(t) = "ok" /\ Store(t)
    BY <2>1, <2>5, StoreDepth
  <2> QED BY <1>4, <2>2, <2>3, <2>4, <2>5 DEF TaskStep
<1>5. CASE UsbOrCallback
  <2>1. UNCHANGED <<pc, resets>>
    BY <1>5 DEF UsbOrCallback, callVars, TransferCallback, UsbCancelled
  <2>2. \/ UNCHANGED tasks
        \/ \E t \in TaskIds, new \in TaskRecords :
              /\ SetTask(t, new) /\ new.outcome = tasks[t].outcome
              /\ new.state # "over" /\ tasks[t].state # "over"
    BY <1>0, <1>5, TransferTasks DEF UsbOrCallback
  <2>3. UNCHANGED <<Unfinished, Failed>>
    BY <2>2, SameTasks, TasksUnchanged
  <2> QED BY <2>1, <2>3, DepthKept
<1>6. CASE UsbComplete
  <2>1. PICK t \in TaskIds, n \in 0..XferSize, status \in {"ok", "error"}, new \in TaskRecords :
            /\ SetTask(t, new) /\ new.state = tasks[t].state /\ new.outcome = tasks[t].outcome
            /\ UNCHANGED <<pc, callVars>>
    BY <1>6, CompleteFacts
  <2>2. UNCHANGED <<pc, resets>>
    BY <2>1 DEF callVars
  <2> QED BY <2>1, <2>2, SameTasks, DepthKept
<1> QED BY <1>1, <1>2, <1>3, <1>4, <1>5, <1>6, RefusesDepth, StepKinds

LEMMA DepthAlways == Spec => []DepthInv
<1>1. Init => DepthInv
  <2> SUFFICES ASSUME Init PROVE DepthInv
    OBVIOUS
  <2>1. /\ Unfinished = 1..XfersPerQueue /\ \A t \in TaskIds : tasks[t] = Task(0, 0)
        /\ \A c \in Callers : pc[c] # "cancel"
    BY InitialTasks DEF Init
  <2>2. Failed = {}
    BY <2>1, TaskType DEF Failed
  <2>3. Cardinality(Unfinished) = XfersPerQueue /\ Cardinality(Failed) = 0
    <3>1. XfersPerQueue \in Int /\ ~(1 > XfersPerQueue) /\ XfersPerQueue - 1 + 1 = XfersPerQueue
      BY InPipeAssumption
    <3> QED BY <2>1, <2>2, <3>1, FS_Interval, FS_EmptySet
  <2> QED BY <2>1, <2>3, InPipeAssumption DEF DepthInv, QueueDepth
<1> QED BY <1>1, DepthNext, PipeAlways, CallersAlways, ResetAlways, PTL DEF Spec

(* The pipe never has more than _xfers_per_queue reads queued, and until a *)
(* reset() it has lost exactly those that failed.                          *)
THEOREM DepthKeeps == Spec => []QueueDepth
<1>1. DepthInv => QueueDepth
  BY DEF DepthInv
<1> QED BY <1>1, DepthAlways, PTL

--------------------------------------------------------------------------------
(* Read pushback *)

LEMMA TimesLess ==
    ASSUME NEW a \in Nat, NEW b \in Nat, NEW c \in Nat, b <= c
    PROVE  a * b \in Nat /\ a * b <= a * c /\ a * (b + 1) = a * b + a
<1>1. a * c = a * b + a * (c - b) /\ a * (c - b) >= 0
  OBVIOUS
<1> QED BY <1>1

LEMMA PushLimit == XferSize * XfersPerQueue \in Nat /\ BufferSize + XferSize * XfersPerQueue \in Nat
<1>1. XferSize * XfersPerQueue \in Nat
  BY InPipeAssumption, TimesLess
<1> SUFFICES ASSUME NEW p \in Nat, p = XferSize * XfersPerQueue PROVE BufferSize + p \in Nat
  BY <1>1
<1> QED BY InPipeAssumption

(* The tasks whose data is still to come to the buffer. *)
Busy == {t \in TaskIds : tasks[t].state \in {"inflight", "completed"}}

LEMMA BusyFinite ==
    ASSUME PipeInv
    PROVE  /\ IsFiniteSet(Busy) /\ Cardinality(Busy) \in Nat
           /\ Busy \subseteq Unfinished /\ Cardinality(Busy) <= Cardinality(Unfinished)
<1>1. Len(tasks) \in Nat /\ Busy \in SUBSET (1..Len(tasks))
  BY PipeFacts, TypeFacts DEF Busy, TaskIds
<1>2. Busy \in SUBSET Unfinished
  BY DEF Busy, Unfinished, Over
<1> QED BY <1>1, <1>2, FiniteTasks, FiniteSets, FS_Subset

LEMMA PushKept ==
    ASSUME PipeInv, PushbackBound, Busy' \subseteq Busy,
           Len(buffer') \in Nat, Len(buffer') <= Len(buffer)
    PROVE  PushbackBound'
<1> SUFFICES ASSUME Bounded PROVE PushbackBound'
  BY DEF PushbackBound
<1> SUFFICES ASSUME NEW k \in Nat, k = Cardinality(Busy), NEW m \in Nat, m = Cardinality(Busy'),
                    m <= k
             PROVE  PushbackBound'
  <2>1. Busy' \in SUBSET Busy
    OBVIOUS
  <2> QED BY <2>1, BusyFinite, FS_Subset, FS_CardinalityType
<1>1. XferSize * m \in Nat /\ XferSize * m <= XferSize * k /\ XferSize * k \in Nat
  BY PipeFacts, TimesLess
<1>2. Len(buffer) + XferSize * k <= BufferSize + XferSize * XfersPerQueue
  BY DEF PushbackBound, Busy
<1>3. Len(buffer') + XferSize * m <= BufferSize + XferSize * XfersPerQueue
  <2> SUFFICES ASSUME NEW l \in Nat, l = BufferSize + XferSize * XfersPerQueue,
                      NEW x \in Nat, x = XferSize * m, NEW y \in Nat, y = XferSize * k
               PROVE  Len(buffer') + x <= l
    BY <1>1, PushLimit
  <2>1. Len(buffer) \in Nat /\ Len(buffer) + y <= l /\ x <= y
    BY <1>1, <1>2, PipeFacts
  <2> QED BY <2>1
<1> QED BY <1>3 DEF PushbackBound, Busy

LEMMA PushOneTask ==
    ASSUME PipeInv, PushbackBound, UNCHANGED buffer,
           NEW t \in TaskIds, NEW new \in TaskRecords, SetTask(t, new),
           new.state \in {"inflight", "completed"} => tasks[t].state \in {"inflight", "completed"}
    PROVE  PushbackBound'
<1>1. TaskIds' = TaskIds /\ tasks'[t] = new /\ \A u \in TaskIds : u # t => tasks'[u] = tasks[u]
  BY PipeFacts, TypeFacts, SetTaskProperties
<1>2. Busy' \subseteq Busy
  BY <1>1 DEF Busy
<1> QED BY <1>2, PipeFacts, PushKept

(* A transfer is submitted only while the buffer is within its limit. *)
LEMMA SubmitPush ==
    ASSUME PipeInv, PipeInv', DepthInv', UNCHANGED buffer, ~Full
    PROVE  PushbackBound'
<1> SUFFICES ASSUME Bounded PROVE PushbackBound'
  BY DEF PushbackBound
<1> SUFFICES ASSUME NEW m \in Nat, m = Cardinality(Busy'), m <= XfersPerQueue PROVE PushbackBound'
  <2>1. /\ Cardinality(Busy') \in Nat /\ Cardinality(Unfinished') \in Nat
        /\ Cardinality(Busy') <= Cardinality(Unfinished')
    <3>1. Len(tasks') \in Nat /\ Unfinished' \in SUBSET (1..Len(tasks'))
      <4>1. tasks' \in Seq(TaskRecords)
        BY DEF PipeInv, TransfersInv, TransfersType
      <4> QED BY <4>1, LenProperties DEF Unfinished, TaskIds
    <3>2. Busy' \in SUBSET Unfinished'
      BY DEF Busy, Unfinished, Over
    <3> QED BY <3>1, <3>2, FiniteTasks, FS_Subset, FS_CardinalityType
  <2>2. Cardinality(Unfinished') <= XfersPerQueue
    BY DEF DepthInv, QueueDepth
  <2> QED BY <2>1, <2>2, InPipeAssumption
<1>1. XferSize * m \in Nat /\ XferSize * m <= XferSize * XfersPerQueue
  BY InPipeAssumption, TimesLess
<1>2. Len(buffer') <= BufferSize /\ Len(buffer') \in Nat /\ BufferSize \in Nat
  BY PipeFacts DEF Full
<1>3. XferSize * XfersPerQueue \in Nat
  BY InPipeAssumption, TimesLess
<1> QED BY <1>1, <1>2, <1>3 DEF PushbackBound, Busy

LEMMA StorePush ==
    ASSUME PipeInv, PushbackBound, NEW t, TaskRuns("wake", t), Outcome(t) = "ok", Store(t)
    PROVE  PushbackBound'
<1> SUFFICES ASSUME Bounded PROVE PushbackBound'
  BY DEF PushbackBound
<1> SUFFICES ASSUME NEW n, n = Len(tasks) + 1 PROVE PushbackBound'
  OBVIOUS
<1>1. /\ t \in TaskIds /\ tasks[t].state = "completed" /\ n \notin TaskIds /\ n # t
      /\ TaskIds' = TaskIds \cup {n} /\ tasks'[n] = Task(0, 0) /\ tasks'[t] = Ended("ok")
      /\ \A u \in TaskIds : u # t => tasks'[u] = tasks[u]
      /\ Len(buffer') = Len(buffer) + Stored(t)
  BY StoreFacts, Zenon
<1>2. Task(0, 0).state = "created" /\ Ended("ok").state = "over"
  BY TaskType, EndedType DEF Outcomes
<1>3. Busy' = Busy \ {t} /\ t \in Busy
  BY <1>1, <1>2 DEF Busy
<1> SUFFICES ASSUME NEW k \in Nat, k = Cardinality(Busy), NEW m \in Nat, m = Cardinality(Busy'),
                    k = m + 1
             PROVE  PushbackBound'
  <2>1. IsFiniteSet(Busy \ {t}) /\ Cardinality(Busy \ {t}) = Cardinality(Busy) - 1
    BY <1>3, BusyFinite, FS_RemoveElement
  <2> QED BY <1>3, <2>1, BusyFinite, FS_CardinalityType
<1>4. XferSize * m \in Nat /\ XferSize * k = XferSize * m + XferSize
  <2>1. m <= m /\ XferSize \in Nat
    BY PipeFacts
  <2>2. XferSize * m \in Nat /\ XferSize * (m + 1) = XferSize * m + XferSize
    BY <2>1, TimesLess
  <2> QED BY <2>2
<1>5. Len(buffer) + XferSize * k <= BufferSize + XferSize * XfersPerQueue
  BY DEF PushbackBound, Busy
<1>6. Len(buffer') + XferSize * m <= BufferSize + XferSize * XfersPerQueue
  <2> SUFFICES ASSUME NEW l \in Nat, l = BufferSize + XferSize * XfersPerQueue,
                      NEW x \in Nat, x = XferSize * m, NEW y, y = XferSize * k
               PROVE  Len(buffer') + x <= l
    BY <1>4, PushLimit
  <2>1. /\ Len(buffer) \in Nat /\ XferSize \in Nat /\ Stored(t) \in 0..XferSize
        /\ Len(buffer) + y <= l /\ y = x + XferSize /\ Len(buffer') = Len(buffer) + Stored(t)
    BY <1>1, <1>4, <1>5, PipeFacts, BytesParts
  <2>2. x \in Nat /\ l \in Nat
    OBVIOUS
  <2> QED BY ONLY <2>1, <2>2
<1> QED BY <1>6 DEF PushbackBound, Busy

LEMMA PushNext ==
    PipeInv /\ CallersFit /\ ResetAll /\ DepthInv /\ PushbackBound /\ [Next]_vars => PushbackBound'
<1> SUFFICES ASSUME PipeInv, CallersFit, ResetAll, DepthInv, PushbackBound, [Next]_vars
             PROVE  PushbackBound'
  OBVIOUS
<1>0. TransfersInv /\ PipeInv' /\ DepthInv'
  BY PipeFacts, PipeNext, DepthNext
<1>1. CASE Quiet
  <2>1. UNCHANGED <<tasks, buffer>>
    BY <1>1, QuietKeeps
  <2> QED BY <2>1 DEF PushbackBound, TaskIds
<1>2. ASSUME NEW c \in Callers, RecvRead(c) \/ RecvUntilRead(c) PROVE PushbackBound'
  <2>1. PICK n \in 1..Len(buffer) : Read(c, n)
    <3>1. CASE RecvRead(c)
      <4>1. arg[c] \in Nat \ {0} /\ arg[c] <= Len(buffer) /\ Read(c, arg[c])
        BY <3>1, PipeFacts, InPipeAssumption DEF RecvRead, PipeInv, ArgFits
      <4>2. arg[c] \in 1..Len(buffer)
        BY <4>1, PipeFacts
      <4> QED BY <4>1, <4>2
    <3>2. CASE RecvUntilRead(c)
      BY <3>2, UntilFirstFits DEF RecvUntilRead
    <3> QED BY <1>2, <3>1, <3>2
  <2>2. tasks' = Notified /\ TaskIds' = TaskIds /\ Len(buffer') = Len(buffer) - n
    BY <2>1, ReadFacts
  <2>3. Busy' \subseteq Busy
    BY <2>2, NotifiedProperties DEF Busy
  <2>4. Len(buffer') \in Nat /\ Len(buffer') <= Len(buffer)
    BY <2>2, PipeFacts
  <2> QED BY <2>3, <2>4, PushKept
<1>3. ASSUME NEW c \in Callers, CallReset(c) PROVE PushbackBound'
  <2>1. tasks' = Cancelled /\ TaskIds' = TaskIds /\ UNCHANGED buffer
    BY <1>0, <1>3, CancelQueueProperties, CancelQueueInv DEF CallReset
  <2>2. Busy' \subseteq Busy
    BY <1>0, <2>1, CancelledProperties DEF Busy
  <2> QED BY <2>1, <2>2, PipeFacts, PushKept
<1>4. ASSUME NEW c \in Callers, EndCancel(c) PROVE PushbackBound'
  <2>1. CASE UNCHANGED <<tasks, buffer>>
    BY <2>1 DEF PushbackBound, TaskIds
  <2>2. CASE StartTasks(Len(tasks)) /\ buffer' = <<>>
    <3>1. /\ \A t \in TaskIds : tasks'[t] = tasks[t]
          /\ \A t \in TaskIds' \ TaskIds : tasks'[t] = Task(0, 0)
      BY <2>2, StartFacts
    <3>2. Busy' \subseteq Busy
      BY <3>1, TaskType DEF Busy
    <3>3. Len(buffer') = 0
      BY <2>2
    <3> QED BY <3>2, <3>3, PipeFacts, PushKept
  <2> QED BY <1>4, <2>1, <2>2 DEF EndCancel, Clear
<1>5. ASSUME NEW kind, NEW t, TaskStep(kind, t) PROVE PushbackBound'
  <2>1. /\ TaskRuns(kind, t) /\ t \in TaskIds /\ tasks[t] \in TaskRecords
    BY <1>5 DEF TaskStep, TaskRuns
  <2>2. CASE Proceed(t)
    <3>1. PICK new \in TaskRecords :
              /\ SetTask(t, new) /\ UNCHANGED buffer
              /\ new.state = "waiting" \/ ~Full
      BY <2>1, <2>2, ProceedFacts
    <3>2. CASE new.state = "waiting"
      BY <2>1, <3>1, <3>2, PushOneTask
    <3>3. CASE ~Full
      BY <1>0, <3>1, <3>3, SubmitPush
    <3> QED BY <3>1, <3>2, <3>3
  <2>3. CASE Outcome(t) \in {"error", "cancelled"} /\ End(t)
    <3>1. PICK new \in TaskRecords : SetTask(t, new) /\ new.state = "over" /\ UNCHANGED buffer
      BY <2>3, EndedType DEF End, Outcomes
    <3> QED BY <2>1, <3>1, PushOneTask
  <2>4. CASE Retires(t)
    <3>1. PICK new \in TaskRecords : SetTask(t, new) /\ new.state = "cancelling" /\ UNCHANGED buffer
      BY <2>1, <2>4 DEF Retires, TaskRecords, TaskState
    <3> QED BY <2>1, <3>1, PushOneTask
  <2>5. CASE kind = "wake" /\ Outcome(t) = "ok" /\ Store(t)
    BY <2>1, <2>5, StorePush
  <2> QED BY <1>5, <2>2, <2>3, <2>4, <2>5 DEF TaskStep
<1>6. CASE UsbOrCallback
  <2>1. UNCHANGED buffer
    BY <1>6 DEF UsbOrCallback, pipeVars
  <2>2. \/ UNCHANGED tasks
        \/ \E t \in TaskIds, new \in TaskRecords :
              /\ SetTask(t, new)
              /\ new.state = "completed" => tasks[t].state = "inflight"
              /\ new.state # "inflight"
    BY <1>0, <1>6, TransferTasks DEF UsbOrCallback
  <2>3. CASE UNCHANGED tasks
    BY <2>1, <2>3 DEF PushbackBound, TaskIds
  <2> QED BY <2>1, <2>2, <2>3, PushOneTask
<1>7. CASE UsbComplete
  <2>1. PICK t \in TaskIds, n \in 0..XferSize, status \in {"ok", "error"}, new \in TaskRecords :
            SetTask(t, new) /\ new.state = tasks[t].state /\ UNCHANGED pipeVars
    BY <1>7, CompleteFacts
  <2>2. UNCHANGED buffer
    BY <2>1 DEF pipeVars
  <2> QED BY <2>1, <2>2, PushOneTask
<1>8. ASSUME NEW kind, NEW t, Refuses(kind, t) PROVE PushbackBound'
  <2>1. t \in TaskIds /\ UNCHANGED buffer
    BY <1>8 DEF Refuses, pipeVars
  <2>2. PICK new \in TaskRecords : SetTask(t, new) /\ new.state = "over"
    BY <1>8, RefusedTask
  <2> QED BY <2>1, <2>2, PushOneTask
<1> QED BY <1>1, <1>2, <1>3, <1>4, <1>5, <1>6, <1>7, <1>8, StepKinds

(* The buffer exceeds its limit only by the transfers that were submitted  *)
(* while it did not.                                                       *)
THEOREM PushbackBounded == Spec => []PushbackBound
<1>1. Init => PushbackBound
  <2> SUFFICES ASSUME Init, Bounded PROVE PushbackBound
    BY DEF PushbackBound
  <2>1. \A t \in TaskIds : tasks[t] = Task(0, 0)
    BY InitialTasks
  <2>2. Busy = {} /\ Len(buffer) = 0
    <3>1. Task(0, 0).state = "created"
      BY TaskType
    <3>2. \A t \in TaskIds : tasks[t].state = "created"
      BY <2>1, <3>1
    <3> QED BY <3>2 DEF Busy, Init
  <2>3. Len(buffer) + XferSize * Cardinality(Busy) = 0
    BY <2>2, FS_EmptySet, InPipeAssumption
  <2>4. 0 <= BufferSize + XferSize * XfersPerQueue
    BY PushLimit
  <2> QED BY <2>3, <2>4 DEF PushbackBound, Busy
<1> QED BY <1>1, PushNext, PipeAlways, CallersAlways, ResetAlways, DepthAlways, PTL DEF Spec

--------------------------------------------------------------------------------
(* The order of the data *)

(* The data that a handle brings: the callback of a transfer, or the       *)
(* wake-up of a task that has the result of its transfer.                  *)
Flows(h, ts) ==
    \/ h.kind = "usb" /\ ts[h.task].state = "inflight"
    \/ h.kind = "wake" /\ ts[h.task].state = "completed"

Holds(task) == task.state \in {"inflight", "completed"} /\ task.urb \in {"ok", "error"}

(* Wake-ups come before callbacks, and each in the order of the queue.     *)
InOrder(q, ts) ==
    \A i, j \in DOMAIN q :
        /\ Flows(q[i], ts) /\ Flows(q[j], ts)
        /\ (q[i].kind = q[j].kind /\ i < j) \/ (q[i].kind = "wake" /\ q[j].kind = "usb")
        => ts[q[i].task].to <= ts[q[j].task].from

Carried(q, ts, T) ==
    \A t \in T : Holds(ts[t]) => \E i \in DOMAIN q : q[i].task = t /\ Flows(q[i], ts)

(* What flows in r is what flows in q, moved by d. *)
Shifted(q, r, d, ts) ==
    /\ \A i \in DOMAIN q : q[i].kind \in {"usb", "wake"} =>
          (d = -1 /\ i = 1) \/ (i + d \in DOMAIN r /\ r[i + d] = q[i])
    /\ \A j \in DOMAIN r : Flows(r[j], ts) => j - d \in DOMAIN q /\ q[j - d] = r[j]

LEMMA ShiftedQueues ==
    ASSUME NEW q \in Seq(Handles), NEW ts
    PROVE  /\ Shifted(q, q, 0, ts)
           /\ \A h \in Handles : h.kind \notin {"usb", "wake"} => Shifted(q, Append(q, h), 0, ts)
           /\ \A w \in Seq(Handles) : (\A i \in DOMAIN w : ~Flows(w[i], ts)) =>
                 Shifted(q, q \o w, 0, ts)
<1>1. DOMAIN q = 1..Len(q) /\ Len(q) \in Nat
  BY LenProperties
<1>2. Shifted(q, q, 0, ts)
  BY <1>1 DEF Shifted
<1>3. ASSUME NEW h \in Handles, h.kind \notin {"usb", "wake"} PROVE Shifted(q, Append(q, h), 0, ts)
  <2> SUFFICES ASSUME NEW r, r = Append(q, h) PROVE Shifted(q, r, 0, ts)
    OBVIOUS
  <2>1. /\ DOMAIN r = DOMAIN q \cup {Len(q) + 1} /\ r[Len(q) + 1] = h
        /\ \A i \in DOMAIN q : r[i] = q[i]
    BY AppendParts
  <2> QED BY <1>1, <1>3, <2>1 DEF Shifted, Flows
<1>4. ASSUME NEW w \in Seq(Handles), \A i \in DOMAIN w : ~Flows(w[i], ts)
      PROVE  Shifted(q, q \o w, 0, ts)
  <2> SUFFICES ASSUME NEW r, r = q \o w PROVE Shifted(q, r, 0, ts)
    OBVIOUS
  <2>1. /\ DOMAIN r \subseteq Int
        /\ \A i \in DOMAIN r : \/ i \in DOMAIN q /\ r[i] = q[i]
                               \/ i - Len(q) \in DOMAIN w /\ r[i] = w[i - Len(q)]
        /\ \A i \in DOMAIN q : i \in DOMAIN r /\ r[i] = q[i]
    BY ConcatParts
  <2>2. \A j \in DOMAIN r : Flows(r[j], ts) => j \in DOMAIN q /\ q[j] = r[j] /\ j - 0 = j
    BY <1>4, <2>1
  <2>3. \A i \in DOMAIN q : i + 0 = i
    BY <1>1
  <2> QED BY <2>1, <2>2, <2>3 DEF Shifted
<1> QED BY <1>2, <1>3, <1>4

LEMMA ShiftedTail ==
    ASSUME NEW q \in Seq(Handles), q # <<>>, NEW ts
    PROVE  /\ Shifted(q, Tail(q), -1, ts)
           /\ \A h \in Handles : h.kind \notin {"usb", "wake"} =>
                 Shifted(q, Append(Tail(q), h), -1, ts)
           /\ \A w \in Seq(Handles) : (\A i \in DOMAIN w : ~Flows(w[i], ts)) =>
                 Shifted(q, Tail(q) \o w, -1, ts)
           /\ \A h \in Handles : h.kind \notin {"usb", "wake"} /\ q[1].kind \notin {"usb", "wake"}
                 => Shifted(q, <<h>> \o Tail(q), 0, ts)
<1> SUFFICES ASSUME NEW s \in Seq(Handles), s = Tail(q)
    PROVE  /\ Shifted(q, s, -1, ts)
           /\ \A h \in Handles : h.kind \notin {"usb", "wake"} => Shifted(q, Append(s, h), -1, ts)
           /\ \A w \in Seq(Handles) : (\A i \in DOMAIN w : ~Flows(w[i], ts)) =>
                 Shifted(q, s \o w, -1, ts)
           /\ \A h \in Handles : h.kind \notin {"usb", "wake"} /\ q[1].kind \notin {"usb", "wake"}
                 => Shifted(q, <<h>> \o s, 0, ts)
  BY TailParts
<1>1. /\ DOMAIN q = 1..Len(q) /\ DOMAIN s = 1..(Len(q) - 1) /\ Len(q) \in Nat /\ Len(q) >= 1
      /\ \A i \in DOMAIN s : i \in Nat /\ i + 1 \in DOMAIN q /\ i + 1 # 1 /\ s[i] = q[i + 1]
      /\ \A i \in DOMAIN q : i # 1 => i - 1 \in DOMAIN s /\ s[i - 1] = q[i]
  BY TailParts
<1>2. ASSUME NEW r, DOMAIN r \subseteq Int,
             \A i \in DOMAIN s : i \in DOMAIN r /\ r[i] = s[i],
             \A j \in DOMAIN r : Flows(r[j], ts) => j \in DOMAIN s /\ r[j] = s[j]
      PROVE  Shifted(q, r, -1, ts)
  <2>1. \A i \in DOMAIN q : i = 1 \/ (i - 1 \in DOMAIN r /\ r[i - 1] = q[i] /\ i - 1 = i + (-1))
    BY <1>1, <1>2
  <2>2. \A j \in DOMAIN r : Flows(r[j], ts) =>
            j + 1 \in DOMAIN q /\ q[j + 1] = r[j] /\ j + 1 = j - (-1)
    BY <1>1, <1>2
  <2> QED BY <2>1, <2>2 DEF Shifted
<1>3. Shifted(q, s, -1, ts)
  <2>1. /\ DOMAIN s \subseteq Int
        /\ \A i \in DOMAIN s : i \in DOMAIN s /\ s[i] = s[i]
        /\ \A j \in DOMAIN s : Flows(s[j], ts) => j \in DOMAIN s /\ s[j] = s[j]
    BY <1>1
  <2> QED BY ONLY <1>2, <2>1
<1>4. ASSUME NEW h \in Handles, h.kind \notin {"usb", "wake"} PROVE Shifted(q, Append(s, h), -1, ts)
  <2> SUFFICES ASSUME NEW r, r = Append(s, h) PROVE Shifted(q, r, -1, ts)
    OBVIOUS
  <2>1. /\ DOMAIN r = DOMAIN s \cup {Len(s) + 1} /\ r[Len(s) + 1] = h /\ Len(s) \in Nat
        /\ \A i \in DOMAIN s : r[i] = s[i]
    BY AppendParts
  <2>2. ~Flows(h, ts)
    BY <1>4 DEF Flows
  <2>3. /\ DOMAIN r \subseteq Int
        /\ \A i \in DOMAIN s : i \in DOMAIN r /\ r[i] = s[i]
        /\ \A j \in DOMAIN r : Flows(r[j], ts) => j \in DOMAIN s /\ r[j] = s[j]
    BY <1>1, <2>1, <2>2
  <2> QED BY ONLY <1>2, <2>3
<1>5. ASSUME NEW w \in Seq(Handles), \A i \in DOMAIN w : ~Flows(w[i], ts)
      PROVE  Shifted(q, s \o w, -1, ts)
  <2> SUFFICES ASSUME NEW r, r = s \o w PROVE Shifted(q, r, -1, ts)
    OBVIOUS
  <2>1. /\ DOMAIN r \subseteq Int
        /\ \A i \in DOMAIN r : \/ i \in DOMAIN s /\ r[i] = s[i]
                               \/ i - Len(s) \in DOMAIN w /\ r[i] = w[i - Len(s)]
        /\ \A i \in DOMAIN s : i \in DOMAIN r /\ r[i] = s[i]
    BY ConcatParts
  <2> QED BY <1>2, <1>5, <2>1
<1>6. ASSUME NEW h \in Handles, h.kind \notin {"usb", "wake"}, q[1].kind \notin {"usb", "wake"}
      PROVE  Shifted(q, <<h>> \o s, 0, ts)
  <2> SUFFICES ASSUME NEW r, r = <<h>> \o s PROVE Shifted(q, r, 0, ts)
    OBVIOUS
  <2>0. <<h>> \in Seq(Handles) /\ Len(<<h>>) = 1 /\ DOMAIN <<h>> = {1} /\ <<h>>[1] = h
    OBVIOUS
  <2>1. /\ DOMAIN r = 1..(1 + Len(s)) /\ Len(s) \in Nat
        /\ \A i \in DOMAIN r : \/ i = 1 /\ r[i] = h
                               \/ i # 1 /\ i - 1 \in DOMAIN s /\ r[i] = s[i - 1]
        /\ \A i \in DOMAIN s : 1 + i \in DOMAIN r /\ r[1 + i] = s[i]
    <3> HIDE DEF Handles
    <3> QED BY <2>0, ConcatParts
  <2>2. ~Flows(h, ts)
    BY <1>6 DEF Flows
  <2>3. \A j \in DOMAIN r : Flows(r[j], ts) => j \in DOMAIN q /\ q[j] = r[j] /\ j - 0 = j
    <3>1. ASSUME NEW j \in DOMAIN r, Flows(r[j], ts) PROVE j \in DOMAIN q /\ q[j] = r[j] /\ j - 0 = j
      <4>1. j \in Int /\ j - 1 \in DOMAIN s /\ r[j] = s[j - 1]
        BY <2>1, <2>2, <3>1
      <4>2. (j - 1) + 1 = j
        BY <4>1
      <4> QED BY <1>1, <4>1, <4>2
    <3> QED BY <3>1
  <2>4. \A i \in DOMAIN q : q[i].kind \in {"usb", "wake"} => i \in DOMAIN r /\ r[i] = q[i] /\ i + 0 = i
    <3>1. ASSUME NEW i \in DOMAIN q, q[i].kind \in {"usb", "wake"}
          PROVE  i \in DOMAIN r /\ r[i] = q[i] /\ i + 0 = i
      <4>1. i \in Int /\ i - 1 \in DOMAIN s /\ s[i - 1] = q[i]
        BY <1>1, <1>6, <3>1
      <4>2. 1 + (i - 1) = i
        BY <4>1
      <4> QED BY <2>1, <4>1, <4>2
    <3> QED BY <3>1
  <2> QED BY <2>3, <2>4 DEF Shifted
<1> QED BY <1>3, <1>4, <1>5, <1>6

(* What flows stays in order, and what is held is still carried. *)
LEMMA OrderShift ==
    ASSUME NEW q \in Seq(Handles), NEW r \in Seq(Handles), NEW d \in {0, -1}, NEW ts, NEW us,
           Shifted(q, r, d, us), InOrder(q, ts),
           \A i \in DOMAIN q : Flows(q[i], us) /\ ~(d = -1 /\ i = 1) =>
               /\ Flows(q[i], ts) /\ us[q[i].task].from = ts[q[i].task].from
               /\ us[q[i].task].to = ts[q[i].task].to
    PROVE  InOrder(r, us)
<1>1. DOMAIN r = 1..Len(r) /\ Len(r) \in Nat /\ DOMAIN q = 1..Len(q) /\ Len(q) \in Nat
  BY LenProperties
<1>2. ASSUME NEW j \in DOMAIN r, Flows(r[j], us)
      PROVE  /\ j - d \in DOMAIN q /\ q[j - d] = r[j] /\ Flows(q[j - d], ts)
             /\ us[r[j].task].from = ts[r[j].task].from /\ us[r[j].task].to = ts[r[j].task].to
  <2>1. j - d \in DOMAIN q /\ q[j - d] = r[j]
    BY <1>2 DEF Shifted
  <2>2. ~(d = -1 /\ j - d = 1)
    BY <1>1
  <2> QED BY <1>2, <2>1, <2>2
<1>3. ASSUME NEW i \in DOMAIN r, NEW j \in DOMAIN r, Flows(r[i], us), Flows(r[j], us),
             (r[i].kind = r[j].kind /\ i < j) \/ (r[i].kind = "wake" /\ r[j].kind = "usb")
      PROVE  us[r[i].task].to <= us[r[j].task].from
  <2>1. /\ i - d \in DOMAIN q /\ q[i - d] = r[i] /\ Flows(q[i - d], ts)
        /\ us[r[i].task].to = ts[r[i].task].to
        /\ j - d \in DOMAIN q /\ q[j - d] = r[j] /\ Flows(q[j - d], ts)
        /\ us[r[j].task].from = ts[r[j].task].from
    BY <1>2, <1>3
  <2>2. i < j => i - d < j - d
    BY <1>1
  <2>3. ts[q[i - d].task].to <= ts[q[j - d].task].from
    BY <1>3, <2>1, <2>2 DEF InOrder
  <2> QED BY <2>1, <2>3
<1> QED BY <1>3 DEF InOrder

LEMMA CarriedShift ==
    ASSUME NEW q \in Seq(Handles), NEW r \in Seq(Handles), NEW d \in {0, -1}, NEW ts, NEW us,
           Shifted(q, r, d, us), NEW T, Carried(q, ts, T), NEW U,
           \A t \in U : Holds(us[t]) =>
               /\ t \in T /\ Holds(ts[t])
               /\ \A i \in DOMAIN q : q[i].task = t /\ Flows(q[i], ts) =>
                     Flows(q[i], us) /\ ~(d = -1 /\ i = 1)
    PROVE  Carried(r, us, U)
<1> SUFFICES ASSUME NEW t \in U, Holds(us[t])
             PROVE  \E j \in DOMAIN r : r[j].task = t /\ Flows(r[j], us)
  BY DEF Carried
<1>1. PICK i \in DOMAIN q : q[i].task = t /\ Flows(q[i], ts)
  BY DEF Carried
<1>2. Flows(q[i], us) /\ ~(d = -1 /\ i = 1) /\ q[i].kind \in {"usb", "wake"}
  BY <1>1 DEF Flows
<1>3. i + d \in DOMAIN r /\ r[i + d] = q[i]
  BY <1>2 DEF Shifted
<1> QED BY <1>1, <1>2, <1>3

(* A handle that brings data behind all the others of its kind. *)
LEMMA FlowAppend ==
    ASSUME NEW q \in Seq(Handles), NEW h \in Handles, NEW ts, NEW T,
           InOrder(q, ts), Carried(q, ts, T \ {h.task}), Flows(h, ts),
           \A i \in DOMAIN q : Flows(q[i], ts) =>
               IF h.kind = "wake" /\ q[i].kind = "usb"
               THEN ts[h.task].to <= ts[q[i].task].from
               ELSE ts[q[i].task].to <= ts[h.task].from
    PROVE  InOrder(Append(q, h), ts) /\ Carried(Append(q, h), ts, T)
<1> SUFFICES ASSUME NEW r, r = Append(q, h) PROVE InOrder(r, ts) /\ Carried(r, ts, T)
  OBVIOUS
<1> SUFFICES ASSUME NEW n \in Nat, n = Len(q) PROVE InOrder(r, ts) /\ Carried(r, ts, T)
  BY LenProperties
<1>1. /\ DOMAIN q = 1..n /\ DOMAIN r = 1..(n + 1)
      /\ \A i \in 1..n : r[i] = q[i]
      /\ r[n + 1] = h
  BY AppendParts
<1>2. ASSUME NEW i \in DOMAIN r, NEW j \in DOMAIN r, Flows(r[i], ts), Flows(r[j], ts),
             (r[i].kind = r[j].kind /\ i < j) \/ (r[i].kind = "wake" /\ r[j].kind = "usb")
      PROVE  ts[r[i].task].to <= ts[r[j].task].from
  <2>1. CASE i \in 1..n /\ j \in 1..n
    BY <1>1, <1>2, <2>1 DEF InOrder
  <2>2. CASE i \in 1..n /\ j = n + 1
    <3>1. r[i] = q[i] /\ r[j] = h /\ i \in DOMAIN q /\ Flows(q[i], ts)
      BY <1>1, <1>2, <2>2
    <3>2. ~(h.kind = "wake" /\ q[i].kind = "usb")
      BY <1>2, <3>1
    <3> QED BY <3>1, <3>2
  <2>3. CASE i = n + 1 /\ j \in 1..n
    <3>1. r[i] = h /\ r[j] = q[j] /\ j \in DOMAIN q /\ Flows(q[j], ts)
      BY <1>1, <1>2, <2>3
    <3>2. h.kind = "wake" /\ q[j].kind = "usb"
      BY <1>1, <1>2, <2>3, <3>1
    <3> QED BY <3>1, <3>2
  <2>4. CASE i = n + 1 /\ j = n + 1
    BY <1>1, <1>2, <2>4
  <2> QED BY <1>1, <2>1, <2>2, <2>3, <2>4
<1>3. ASSUME NEW t \in T, Holds(ts[t])
      PROVE  \E i \in DOMAIN r : r[i].task = t /\ Flows(r[i], ts)
  <2>1. CASE t = h.task
    BY <1>1, <2>1
  <2>2. CASE t # h.task
    <3>1. PICK i \in DOMAIN q : q[i].task = t /\ Flows(q[i], ts)
      BY <1>3, <2>2 DEF Carried
    <3> QED BY <1>1, <3>1
  <2> QED BY <2>1, <2>2
<1> QED BY <1>2, <1>3 DEF InOrder, Carried

BufEnd == IF buffer = <<>> THEN taken ELSE buffer[Len(buffer)]

Behind == \A t \in TaskIds : Holds(tasks[t]) => BufEnd <= tasks[t].from

(* The data that is on its way to the buffer comes in order, and belongs   *)
(* behind what is there.                                                   *)
FlowInv == ~Resetting => InOrder(ready, tasks) /\ Carried(ready, tasks, TaskIds) /\ Behind

LEMMA BufEndFacts ==
    ASSUME PipeInv
    PROVE  /\ BufEnd \in 0..produced /\ produced \in Nat
           /\ Len(buffer) = 0 => BufEnd = taken
           /\ Len(buffer) # 0 => BufEnd = buffer[Len(buffer)] /\ Len(buffer) \in DOMAIN buffer
<1>1. /\ buffer \in Seq(1..produced) /\ Len(buffer) \in Nat /\ DOMAIN buffer = 1..Len(buffer)
      /\ \A i \in DOMAIN buffer : buffer[i] \in 1..produced
      /\ taken \in 0..produced /\ produced \in Nat
  BY PipeFacts
<1>2. buffer = <<>> <=> Len(buffer) = 0
  BY <1>1, EmptySeq
<1> QED BY <1>1, <1>2 DEF BufEnd

Alike(t) == /\ tasks'[t].state = tasks[t].state
            /\ tasks'[t].from = tasks[t].from /\ tasks'[t].to = tasks[t].to

LEMMA FlowKept ==
    ASSUME PipeInv, FlowInv, Resetting => Resetting', BufEnd' = BufEnd \/ Behind', ready' \in Seq(Handles),
           NEW d \in {0, -1}, Shifted(ready, ready', d, tasks'),
           \A t \in TaskIds : tasks'[t].state \in {"inflight", "completed"} =>
               Alike(t) \/ (tasks'[t].state = "inflight" /\ Absent(ready, "usb", t)),
           \A t \in TaskIds' : Holds(tasks'[t]) =>
               /\ t \in TaskIds /\ Holds(tasks[t]) /\ Alike(t)
               /\ d = -1 => ready[1].task # t \/ ~Flows(ready[1], tasks)
    PROVE  FlowInv'
<1> SUFFICES ASSUME ~Resetting'
             PROVE  InOrder(ready', tasks') /\ Carried(ready', tasks', TaskIds') /\ Behind'
  BY DEF FlowInv
<1>1. InOrder(ready, tasks) /\ Carried(ready, tasks, TaskIds) /\ Behind
  BY DEF FlowInv
<1>2. /\ ready \in Seq(Handles)
      /\ \A i \in DOMAIN ready : ready[i].kind \in {"usb", "wake"} => ready[i].task \in TaskIds
  BY PipeFacts, TypeFacts DEF QueueOK, HandleFits, TaskKinds
<1>3. InOrder(ready', tasks')
  <2>1. ASSUME NEW i \in DOMAIN ready, Flows(ready[i], tasks')
        PROVE  /\ Flows(ready[i], tasks) /\ tasks'[ready[i].task].from = tasks[ready[i].task].from
               /\ tasks'[ready[i].task].to = tasks[ready[i].task].to
    <3>1. PICK t \in TaskIds : t = ready[i].task
      BY <1>2, <2>1 DEF Flows
    <3>2. tasks'[t].state \in {"inflight", "completed"}
      BY <2>1, <3>1 DEF Flows
    <3>3. Alike(t)
      BY <2>1, <3>1, <3>2 DEF Flows, Absent
    <3> QED BY <2>1, <3>1, <3>3 DEF Alike, Flows
  <2> SUFFICES ASSUME NEW r, r = ready', NEW us, us = tasks', NEW ts, ts = tasks, NEW q, q = ready
               PROVE  InOrder(r, us)
    OBVIOUS
  <2>2. \A i \in DOMAIN q : Flows(q[i], us) =>
            /\ Flows(q[i], ts)
            /\ us[q[i].task].from = ts[q[i].task].from /\ us[q[i].task].to = ts[q[i].task].to
    BY <2>1
  <2>3. q \in Seq(Handles) /\ r \in Seq(Handles) /\ Shifted(q, r, d, us) /\ InOrder(q, ts)
    BY <1>1, <1>2
  <2> QED BY ONLY <2>2, <2>3, d \in {0, -1}, OrderShift
<1>4. Carried(ready', tasks', TaskIds')
  <2>1. ASSUME NEW t \in TaskIds', Holds(tasks'[t])
        PROVE  /\ t \in TaskIds /\ Holds(tasks[t])
               /\ \A i \in DOMAIN ready : ready[i].task = t /\ Flows(ready[i], tasks) =>
                     Flows(ready[i], tasks') /\ ~(d = -1 /\ i = 1)
    <3>1. t \in TaskIds /\ Holds(tasks[t]) /\ Alike(t)
      BY <2>1
    <3>2. \A i \in DOMAIN ready : ready[i].task = t /\ Flows(ready[i], tasks) => Flows(ready[i], tasks')
      BY <3>1 DEF Flows, Alike
    <3>3. \A i \in DOMAIN ready : ready[i].task = t /\ Flows(ready[i], tasks) => ~(d = -1 /\ i = 1)
      BY <2>1
    <3> QED BY <3>1, <3>2, <3>3
  <2> SUFFICES ASSUME NEW r, r = ready', NEW us, us = tasks', NEW U, U = TaskIds'
               PROVE  Carried(r, us, U)
    OBVIOUS
  <2>2. \A t \in U : Holds(us[t]) =>
            /\ t \in TaskIds /\ Holds(tasks[t])
            /\ \A i \in DOMAIN ready : ready[i].task = t /\ Flows(ready[i], tasks) =>
                  Flows(ready[i], us) /\ ~(d = -1 /\ i = 1)
    BY <2>1
  <2>3. r \in Seq(Handles) /\ Shifted(ready, r, d, us)
    OBVIOUS
  <2> QED BY ONLY <1>1, <1>2, <2>2, <2>3, d \in {0, -1}, CarriedShift
<1>5. Behind'
  BY <1>1 DEF Behind, Alike
<1> QED BY <1>3, <1>4, <1>5

LEMMA QuietResetting ==
    ASSUME PipeInv, Quiet
    PROVE  Resetting' <=> Resetting
<1>0. pc \in [Callers -> {"idle", "called", "run", "recv", "until", "cancel"}]
  BY PipeFacts
<1>1. \/ pc' = pc
      \/ \E d \in Callers : pc[d] # "cancel" /\ \E op : op # "cancel" /\ pc' = [pc EXCEPT ![d] = op]
  <2>1. CASE UNCHANGED vars
    BY <2>1 DEF vars
  <2>2. CASE TaskCallback \/ LateCompleted
    BY <2>2 DEF TaskCallback, LateCompleted
  <2>3. ASSUME NEW d \in Callers, QuietCaller(d)
        PROVE  \/ pc' = pc
               \/ pc[d] # "cancel" /\ \E op : op # "cancel" /\ pc' = [pc EXCEPT ![d] = op]
    <3>1. \/ pc' = pc
          \/ /\ pc[d] # "cancel"
             /\ \/ pc' = [pc EXCEPT ![d] = "called"] \/ pc' = [pc EXCEPT ![d] = "run"]
                \/ pc' = [pc EXCEPT ![d] = "idle"] \/ pc' = [pc EXCEPT ![d] = "recv"]
                \/ pc' = [pc EXCEPT ![d] = "until"]
      <4>1. CASE Resume(d)
        <5>1. CASE pc[d] = "cancel"
          BY <4>1, <5>1 DEF Resume
        <5>2. CASE pc[d] # "cancel"
          BY <4>1, <5>2 DEF Resume, Poll
        <5> QED BY <5>1, <5>2
      <4>2. CASE CallerWakes(d) \/ Yields(d) \/ CallRecv(d) \/ CallRecvUntil(d)
        BY <4>2 DEF CallerWakes, Yields, Yield, CallRecv, CallRecvUntil, Calls
      <4>3. CASE RecvWait(d)
        BY <4>3 DEF RecvWait, WaitOne, Poll
      <4> QED BY <2>3, <4>1, <4>2, <4>3 DEF QuietCaller
    <3> QED BY <3>1
  <2> QED BY <2>1, <2>2, <2>3 DEF Quiet
<1>2. \A c \in Callers : pc'[c] = "cancel" <=> pc[c] = "cancel"
  BY <1>0, <1>1
<1> QED BY <1>2 DEF Resetting

LEMMA QuietQueue ==
    ASSUME PipeInv, Quiet, NEW ts
    PROVE  \E d \in {0, -1} : /\ Shifted(ready, ready', d, ts)
                              /\ d = -1 => ready[1].kind \notin {"usb", "wake"}
<1>0. /\ ready \in Seq(Handles)
      /\ pc \in [Callers -> {"idle", "called", "run", "recv", "until", "cancel"}]
  BY PipeFacts, TypeFacts
<1>1. CASE ready' = ready
  BY <1>0, <1>1, ShiftedQueues
<1>2. ASSUME NEW h \in Handles, h.kind \notin {"usb", "wake"}, ready' = Append(ready, h)
      PROVE  Shifted(ready, ready', 0, ts)
  BY <1>0, <1>2, ShiftedQueues
<1>3. ASSUME ready # <<>>, NEW h \in Handles, h.kind \notin {"usb", "wake"},
             Head(ready).kind \notin {"usb", "wake"},
             \/ ready' = Tail(ready) \/ ready' = Append(Tail(ready), h)
             \/ ready' = <<h>> \o Tail(ready)
      PROVE  \E d \in {0, -1} : /\ Shifted(ready, ready', d, ts)
                                /\ d = -1 => ready[1].kind \notin {"usb", "wake"}
  <2>1. Head(ready) = ready[1]
    BY <1>0, <1>3, TailParts
  <2>2. Shifted(ready, ready', -1, ts) \/ Shifted(ready, ready', 0, ts)
    BY <1>0, <1>3, <2>1, ShiftedTail
  <2> QED BY <1>3, <2>1, <2>2
<1>4. ASSUME NEW who \in SUBSET Callers
      PROVE  /\ Handle("resume", 0, who) \in Handles /\ Handle("resume", 0, who).kind = "resume"
             /\ Handle("completed", 0, who) \in Handles /\ Handle("completed", 0, who).kind = "completed"
  BY DEF Handle, Handles, Kinds
<1>5. ASSUME NEW c \in Callers, QuietCaller(c)
      PROVE  \E d \in {0, -1} : /\ Shifted(ready, ready', d, ts)
                                /\ d = -1 => ready[1].kind \notin {"usb", "wake"}
  <2>1. CASE CallerWakes(c)
    <3>1. ready' = Append(ready, Handle("resume", 0, {c})) /\ {c} \in SUBSET Callers
      BY <2>1 DEF CallerWakes
    <3>2. PICK h \in Handles : h = Handle("resume", 0, {c}) /\ h.kind \notin {"usb", "wake"}
      BY <1>4, <3>1
    <3>3. Shifted(ready, ready', 0, ts)
      BY <1>2, <3>1, <3>2
    <3> QED BY <3>3
  <2>2. CASE Resume(c)
    <3>1. /\ ready # <<>> /\ Head(ready).kind = "resume" /\ ready' = RestOfResume(c)
          /\ Head(ready).who \ {c} \in SUBSET Callers
      <4>1. ready # <<>> /\ Head(ready).kind = "resume" /\ ready' = RestOfResume(c)
        BY <2>2 DEF Resume, Turn
      <4>2. Head(ready) \in Handles
        BY <1>0, <4>1, TailParts
      <4> QED BY <4>1, <4>2 DEF Handles
    <3>2. PICK who \in SUBSET Callers : who = Head(ready).who \ {c}
      BY <3>1
    <3>3. ready' = Tail(ready) \/ ready' = <<Handle("resume", 0, who)>> \o Tail(ready)
      BY <3>1, <3>2 DEF RestOfResume
    <3> QED BY <1>3, <1>4, <3>1, <3>3
  <2>3. CASE Yields(c) \/ CallRecv(c) \/ CallRecvUntil(c)
    BY <1>1, <2>3 DEF Yields, Yield, CallRecv, CallRecvUntil
  <2>4. CASE RecvWait(c)
    <3>1. WaitOne(c) \/ (pc' = [pc EXCEPT ![c] = "run"] /\ UNCHANGED <<ready, running, waitFor>>)
      BY <2>4 DEF RecvWait
    <3>2. UNCHANGED ready \/ AsyncioWait(c, Over, ready)
      BY <1>0, <3>1, WaitOneKinds
    <3>3. ready' = ready \/ ready' = Append(ready, Handle("completed", 0, {c}))
      BY <3>2 DEF AsyncioWait
    <3>4. {c} \in SUBSET Callers
      OBVIOUS
    <3> QED BY <1>1, <1>2, <1>4, <3>3, <3>4
  <2> QED BY <1>5, <2>1, <2>2, <2>3, <2>4 DEF QuietCaller
<1>6. CASE TaskCallback \/ LateCompleted
  <2>1. PICK x, who : /\ Completed(x, who) /\ ready # <<>>
                      /\ Head(ready).kind \in {"callback", "completed"}
                      /\ who = Callers \/ who = Head(ready).who
    BY <1>6 DEF TaskCallback, LateCompleted, Turn
  <2>2. Head(ready) \in Handles
    BY <1>0, <2>1, TailParts
  <2>3. who \in SUBSET Callers
    BY <2>1, <2>2 DEF Handles
  <2>4. PICK ends \in SUBSET Callers : ready' = Tail(ready) \/ ready' = Append(Tail(ready), Handle("resume", 0, ends))
    <3>1. WaitEnds(x, who) \in SUBSET Callers
      BY <2>3 DEF WaitEnds
    <3> QED BY <2>1, <3>1 DEF Completed
  <2> QED BY <1>3, <1>4, <2>1, <2>4
<1>7. CASE UNCHANGED vars
  BY <1>1, <1>7 DEF vars
<1> QED BY <1>5, <1>6, <1>7 DEF Quiet

LEMMA DoomedResets ==
    ASSUME ResetAll, NEW t \in TaskIds, tasks[t].state # "over", Doomed(t)
    PROVE  Resetting
  BY DEF ResetAll, ResetInv, Resetting, Unfinished, Over

LEMMA QuietFlow ==
    ASSUME PipeInv, FlowInv, Quiet, ready' \in Seq(Handles)
    PROVE  FlowInv'
<1>1. UNCHANGED <<tasks, buffer, taken>> /\ TaskIds' = TaskIds /\ BufEnd' = BufEnd
  BY QuietKeeps DEF TaskIds, BufEnd
<1>2. PICK d \in {0, -1} : /\ Shifted(ready, ready', d, tasks')
                           /\ d = -1 => ready[1].kind \notin {"usb", "wake"}
  BY QuietQueue
<1>3. Resetting => Resetting'
  BY QuietResetting
<1>4. \A t \in TaskIds : Alike(t)
  BY <1>1 DEF Alike
<1>5. d = -1 => ~Flows(ready[1], tasks)
  BY <1>2 DEF Flows
<1>6. \A t \in TaskIds' : Holds(tasks'[t]) =>
               /\ t \in TaskIds /\ Holds(tasks[t]) /\ Alike(t)
               /\ d = -1 => ready[1].task # t \/ ~Flows(ready[1], tasks)
  BY <1>1, <1>4, <1>5
<1> QED BY <1>1, <1>2, <1>3, <1>4, <1>6, FlowKept

LEMMA ReadCase ==
    ASSUME PipeInv, NEW c \in Callers, RecvRead(c) \/ RecvUntilRead(c)
    PROVE  \E n \in 1..Len(buffer) : Read(c, n)
<1>1. CASE RecvRead(c)
  <2>1. arg[c] \in Nat \ {0} /\ arg[c] <= Len(buffer) /\ Read(c, arg[c])
    BY <1>1, PipeFacts, InPipeAssumption DEF RecvRead, PipeInv, ArgFits
  <2>2. arg[c] \in 1..Len(buffer)
    BY <2>1, PipeFacts
  <2> QED BY <2>1, <2>2
<1>2. CASE RecvUntilRead(c)
  BY <1>2, UntilFirstFits DEF RecvUntilRead
<1> QED BY <1>1, <1>2

LEMMA ReadEnd ==
    ASSUME PipeInv, NEW c \in Callers, NEW n \in 1..Len(buffer), Read(c, n)
    PROVE  BufEnd' = BufEnd
<1>1. /\ buffer' \in Seq(1..produced) /\ Len(buffer') = Len(buffer) - n
      /\ DOMAIN buffer' = 1..(Len(buffer) - n) /\ taken' = buffer[n]
      /\ \A i \in DOMAIN buffer' : buffer'[i] = buffer[n + i]
  BY ReadFacts
<1>2. Len(buffer) \in Nat /\ BufEnd = buffer[Len(buffer)]
  BY BufEndFacts, PipeFacts
<1>3. CASE n = Len(buffer)
  <2>1. buffer' = <<>>
    BY <1>1, <1>2, <1>3, EmptySeq
  <2> QED BY <1>1, <1>2, <1>3, <2>1 DEF BufEnd
<1>4. CASE n # Len(buffer)
  <2>1. buffer' # <<>> /\ Len(buffer') \in DOMAIN buffer'
    BY <1>1, <1>2, <1>4, EmptySeq
  <2>2. n + Len(buffer') = Len(buffer)
    BY <1>1, <1>2
  <2> QED BY <1>1, <1>2, <2>1, <2>2 DEF BufEnd
<1> QED BY <1>3, <1>4

LEMMA ReadsFlow ==
    ASSUME PipeInv, FlowInv, NEW c \in Callers, RecvRead(c) \/ RecvUntilRead(c), ready' \in Seq(Handles)
    PROVE  FlowInv'
<1>1. PICK n \in 1..Len(buffer) : Read(c, n)
  BY ReadCase
<1>2. tasks' = Notified /\ ready' = ready \o NotifyHandles /\ TaskIds' = TaskIds
  BY <1>1, ReadFacts
<1>3. BufEnd' = BufEnd
  BY <1>1, ReadEnd
<1>4. Resetting => Resetting'
  <2>1. pc' = pc \/ (pc[c] # "cancel" /\ pc' = [pc EXCEPT ![c] = "run"])
    BY DEF RecvRead, RecvUntilRead
  <2> QED BY <2>1, PipeFacts DEF Resetting
<1>5. /\ NotifyHandles \in Seq(Handles)
      /\ \A i \in DOMAIN NotifyHandles :
            NotifyHandles[i].kind = "wake" /\ Waits(NotifyHandles[i].task)
            /\ NotifyHandles[i].task \in TaskIds
  BY NotifyQueue, PipeFacts DEF Waits
<1>6. \A t \in TaskIds : /\ tasks'[t].state = IF Waits(t) THEN "notified" ELSE tasks[t].state
                         /\ tasks'[t].from = tasks[t].from /\ tasks'[t].to = tasks[t].to
                         /\ tasks'[t].urb = tasks[t].urb
  BY <1>2, NotifiedProperties
<1>7. \A i \in DOMAIN NotifyHandles : ~Flows(NotifyHandles[i], tasks')
  BY <1>5, <1>6 DEF Flows
<1>8. Shifted(ready, ready', 0, tasks')
  <2>1. ready \in Seq(Handles)
    BY PipeFacts, TypeFacts
  <2> SUFFICES ASSUME NEW w \in Seq(Handles), w = NotifyHandles PROVE Shifted(ready, ready', 0, tasks')
    BY <1>5
  <2>2. ready' = ready \o w /\ \A i \in DOMAIN w : ~Flows(w[i], tasks')
    BY <1>2, <1>7
  <2> QED BY <2>1, <2>2, ShiftedQueues
<1>9. \A t \in TaskIds : tasks'[t].state \in {"inflight", "completed"} => Alike(t)
  BY <1>6 DEF Alike
<1>10. \A t \in TaskIds' : Holds(tasks'[t]) => t \in TaskIds /\ Holds(tasks[t]) /\ Alike(t)
  BY <1>2, <1>6, <1>9 DEF Holds, Alike
<1> QED BY <1>3, <1>4, <1>8, <1>9, <1>10, FlowKept

LEMMA NoFlow ==
    ASSUME NEW q, NEW ts, QueueOK(q, ts),
           \A t \in DOMAIN ts : ts[t].state \notin {"inflight", "completed"}
    PROVE  InOrder(q, ts) /\ Carried(q, ts, DOMAIN ts)
<1>1. \A i \in DOMAIN q : ~Flows(q[i], ts)
  BY DEF QueueOK, HandleFits, TaskKinds, Flows
<1> QED BY <1>1 DEF InOrder, Carried, Holds

LEMMA ResetsFlow ==
    ASSUME PipeInv, PipeInv', CallersFit, ResetAll, FlowInv, NEW c \in Callers,
           CallReset(c) \/ EndCancel(c)
    PROVE  FlowInv'
<1>1. CASE CallReset(c)
  <2>1. pc'[c] = "cancel"
    BY <1>1, PipeFacts, CancelQueueProperties DEF CallReset
  <2> QED BY <2>1 DEF FlowInv, Resetting
<1>2. CASE EndCancel(c)
  <2>1. /\ running = c /\ pc[c] = "cancel" /\ (UNCHANGED tasks \/ StartTasks(Len(tasks)))
    BY <1>2 DEF EndCancel
  <2>2. \A t \in TaskIds : tasks[t].state = "over"
    BY <2>1, NothingLeft DEF Unfinished, Over, ResetAll
  <2>3. \A t \in TaskIds' : tasks'[t].state \in {"over", "created"}
    <3>1. CASE UNCHANGED tasks
      BY <2>2, <3>1 DEF TaskIds
    <3>2. CASE StartTasks(Len(tasks))
      <4>1. /\ \A t \in TaskIds : tasks'[t] = tasks[t]
            /\ \A t \in TaskIds' \ TaskIds : tasks'[t] = Task(0, 0)
        BY <3>2, StartFacts
      <4> QED BY <2>2, <4>1, TaskType
    <3> QED BY <2>1, <3>1, <3>2
  <2>4. QueueOK(ready', tasks') /\ DOMAIN tasks' = TaskIds'
    <3>1. QueueOK(ready', tasks') /\ tasks' \in Seq(TaskRecords)
      BY DEF PipeInv, TransfersInv, TransfersType
    <3> QED BY <3>1, LenProperties DEF TaskIds
  <2>5. InOrder(ready', tasks') /\ Carried(ready', tasks', TaskIds')
    BY <2>3, <2>4, NoFlow
  <2>6. Behind'
    BY <2>3 DEF Behind, Holds
  <2> QED BY <2>5, <2>6 DEF FlowInv
<1> QED BY <1>1, <1>2

LEMMA ProceedFlow ==
    ASSUME PipeInv, FlowInv, NEW kind, NEW t, TaskRuns(kind, t),
           tasks[t].state \in {"created", "notified"}, Proceed(t), ready' \in Seq(Handles)
    PROVE  FlowInv'
<1>0. /\ TransfersInv /\ t \in TaskIds /\ Turn(kind) /\ t = Head(ready).task
      /\ UNCHANGED <<pc, taken>> /\ ready \in Seq(Handles) /\ QueueOK(ready, tasks)
  BY PipeFacts, TypeFacts DEF TaskRuns
<1>1. ready # <<>> /\ Head(ready) = ready[1]
  BY <1>0, TailParts DEF Turn
<1>2. PICK new \in TaskRecords :
          /\ SetTask(t, new) /\ UNCHANGED buffer /\ ready' = Tail(ready)
          /\ new.state \in {"waiting", "inflight"} /\ (new.state = "inflight" => new.urb = "submitted")
  BY ProceedFacts
<1>3. /\ TaskIds' = TaskIds /\ tasks'[t] = new /\ \A u \in TaskIds : u # t => tasks'[u] = tasks[u]
  BY <1>0, <1>2, TypeFacts, SetTaskProperties
<1>4. BufEnd' = BufEnd /\ (Resetting => Resetting')
  BY <1>0, <1>2 DEF BufEnd, Resetting
<1>5. Shifted(ready, ready', -1, tasks')
  BY <1>0, <1>1, <1>2, ShiftedTail
<1>6. Absent(ready, "usb", t)
  BY <1>0, AbsentHandles
<1>7. ~Holds(new)
  BY <1>2 DEF Holds
<1>8. \A u \in TaskIds : u # t => Alike(u)
  BY <1>3 DEF Alike
<1>9. \A u \in TaskIds : tasks'[u].state \in {"inflight", "completed"} =>
          Alike(u) \/ (tasks'[u].state = "inflight" /\ Absent(ready, "usb", u))
  BY <1>2, <1>3, <1>6, <1>8
<1>10. \A u \in TaskIds' : Holds(tasks'[u]) =>
           u \in TaskIds /\ Holds(tasks[u]) /\ Alike(u) /\ ready[1].task # u
  BY <1>0, <1>1, <1>3, <1>7, <1>8
<1> QED BY <1>2, <1>4, <1>5, <1>9, <1>10, FlowKept

LEMMA EndFlow ==
    ASSUME PipeInv, ResetAll, FlowInv, NEW kind, NEW t, TaskRuns(kind, t),
           \/ Outcome(t) \in {"error", "cancelled"} /\ End(t)
           \/ Retires(t),
           ready' \in Seq(Handles)
    PROVE  FlowInv'
<1>0. /\ TransfersInv /\ t \in TaskIds /\ Turn(kind) /\ t = Head(ready).task
      /\ UNCHANGED <<pc, taken>> /\ ready \in Seq(Handles) /\ tasks[t] \in TaskRecords
  BY PipeFacts, TypeFacts DEF TaskRuns
<1>1. ready # <<>> /\ Head(ready) = ready[1]
  BY <1>0, TailParts DEF Turn
<1>2. CASE Retires(t)
  <2>1. tasks[t].state = "cancelled"
    BY <1>2 DEF Retires, HasToCancel
  <2>2. Resetting
    BY <1>0, <2>1, DoomedResets DEF Doomed
  <2> QED BY <1>0, <2>2 DEF FlowInv, Resetting
<1>3. CASE Outcome(t) \in {"error", "cancelled"} /\ End(t)
  <2>1. PICK new \in TaskRecords : SetTask(t, new) /\ new.state = "over"
    BY <1>3, EndedType DEF End, Outcomes
  <2>2. /\ UNCHANGED buffer /\ ready' = Append(Tail(ready), CallbackHandle(t))
        /\ CallbackHandle(t) \in Handles /\ CallbackHandle(t).kind = "callback"
    <3>1. t \in Nat
      BY <1>0, TypeFacts
    <3> QED BY <1>3, <3>1 DEF End, CallbackHandle, Handle, Handles, Kinds
  <2>3. /\ TaskIds' = TaskIds /\ tasks'[t] = new /\ \A u \in TaskIds : u # t => tasks'[u] = tasks[u]
    BY <1>0, <2>1, TypeFacts, SetTaskProperties
  <2>4. BufEnd' = BufEnd /\ (Resetting => Resetting')
    BY <1>0, <2>2 DEF BufEnd, Resetting
  <2>5. Shifted(ready, ready', -1, tasks')
    <3> SUFFICES ASSUME NEW h \in Handles, h = CallbackHandle(t) PROVE Shifted(ready, ready', -1, tasks')
      BY <2>2
    <3>1. h.kind \notin {"usb", "wake"} /\ ready' = Append(Tail(ready), h)
      BY <2>2
    <3> QED BY <1>0, <1>1, <3>1, ShiftedTail
  <2>6. \A u \in TaskIds : u # t => Alike(u)
    BY <2>3 DEF Alike
  <2>7. \A u \in TaskIds : tasks'[u].state \in {"inflight", "completed"} => Alike(u)
    BY <2>1, <2>3, <2>6
  <2>8. \A u \in TaskIds' : Holds(tasks'[u]) =>
            u \in TaskIds /\ Holds(tasks[u]) /\ Alike(u) /\ ready[1].task # u
    BY <1>0, <1>1, <2>1, <2>3, <2>6 DEF Holds
  <2> QED BY <2>4, <2>5, <2>7, <2>8, FlowKept
<1> QED BY <1>2, <1>3

LEMMA RefusesFlow ==
    ASSUME PipeInv, FlowInv, NEW kind, NEW t, Refuses(kind, t)
    PROVE  FlowInv'
<1>0. /\ TransfersInv /\ t \in TaskIds /\ Turn(kind) /\ t = Head(ready).task
      /\ UNCHANGED <<pc, taken, buffer>> /\ ready \in Seq(Handles)
      /\ ready' = Append(Tail(ready), CallbackHandle(t)) /\ t \in Nat
  BY PipeFacts, TypeFacts DEF Refuses, pipeVars
<1>1. ready # <<>> /\ Head(ready) = ready[1]
  BY <1>0, TailParts DEF Turn
<1>2. PICK new \in TaskRecords : SetTask(t, new) /\ new.state = "over"
  BY RefusedTask
<1>3. /\ TaskIds' = TaskIds /\ tasks'[t] = new /\ \A u \in TaskIds : u # t => tasks'[u] = tasks[u]
  BY <1>0, <1>2, TypeFacts, SetTaskProperties
<1>4. BufEnd' = BufEnd /\ (Resetting => Resetting')
  BY <1>0 DEF BufEnd, Resetting
<1>5. Shifted(ready, ready', -1, tasks')
  <2>1. CallbackHandle(t) \in Handles /\ CallbackHandle(t).kind = "callback"
    BY <1>0 DEF CallbackHandle, Handle, Handles, Kinds
  <2> SUFFICES ASSUME NEW h \in Handles, h = CallbackHandle(t) PROVE Shifted(ready, ready', -1, tasks')
    BY <2>1
  <2>2. h.kind \notin {"usb", "wake"} /\ ready' = Append(Tail(ready), h)
    BY <1>0, <2>1
  <2> QED BY <1>0, <1>1, <2>2, ShiftedTail
<1>6. \A u \in TaskIds : u # t => Alike(u)
  BY <1>3 DEF Alike
<1>7. \A u \in TaskIds : tasks'[u].state \in {"inflight", "completed"} => Alike(u)
  BY <1>2, <1>3, <1>6
<1>8. \A u \in TaskIds' : Holds(tasks'[u]) =>
          u \in TaskIds /\ Holds(tasks[u]) /\ Alike(u) /\ ready[1].task # u
  BY <1>0, <1>1, <1>2, <1>3, <1>6 DEF Holds
<1>9. ready' \in Seq(Handles)
  <2>1. CallbackHandle(t) \in Handles
    BY <1>0 DEF CallbackHandle, Handle, Handles, Kinds
  <2>2. Tail(ready) \in Seq(Handles)
    BY <1>0, <1>1, TailParts
  <2> SUFFICES ASSUME NEW h \in Handles, h = CallbackHandle(t) PROVE ready' \in Seq(Handles)
    BY <2>1
  <2>3. ready' = Append(Tail(ready), h)
    BY <1>0
  <2> QED BY ONLY <2>2, <2>3, h \in Handles
<1> QED BY <1>4, <1>5, <1>7, <1>8, <1>9, FlowKept

(* The task that stores its data has the data that comes first. *)
LEMMA StoreAhead ==
    ASSUME PipeInv, ResetAll, FlowInv, NEW t, TaskRuns("wake", t), Outcome(t) = "ok"
    PROVE  /\ ~Resetting /\ Holds(tasks[t]) /\ BufEnd <= tasks[t].from
           /\ \A u \in TaskIds : u # t /\ Holds(tasks[u]) => tasks[t].to <= tasks[u].from
<1>0. /\ TransfersInv /\ t \in TaskIds /\ Turn("wake") /\ t = Head(ready).task
      /\ ready \in Seq(Handles)
  BY PipeFacts, TypeFacts DEF TaskRuns
<1>1. /\ ready # <<>> /\ Head(ready) = ready[1] /\ ready[1].kind = "wake" /\ 1 \in DOMAIN ready
      /\ DOMAIN ready = 1..Len(ready) /\ Len(ready) \in Nat
  BY <1>0, TailParts DEF Turn
<1>2. tasks[t].state = "completed" /\ ~tasks[t].mustCancel /\ tasks[t].urb = "ok"
  BY DEF Outcome
<1>3. ~Resetting
  <2>1. ~Doomed(t) /\ t \in Unfinished
    BY <1>0, <1>2 DEF Doomed, Unfinished, Over
  <2> QED BY <2>1 DEF ResetAll, ResetInv, Resetting
<1>4. InOrder(ready, tasks) /\ Carried(ready, tasks, TaskIds) /\ Behind
  BY <1>3 DEF FlowInv
<1>5. Holds(tasks[t]) /\ Flows(ready[1], tasks)
  BY <1>0, <1>1, <1>2 DEF Holds, Flows
<1>6. ASSUME NEW u \in TaskIds, u # t, Holds(tasks[u]) PROVE tasks[t].to <= tasks[u].from
  <2>1. PICK i \in DOMAIN ready : ready[i].task = u /\ Flows(ready[i], tasks)
    BY <1>4, <1>6 DEF Carried
  <2>2. i # 1 /\ 1 < i
    BY <1>0, <1>1, <1>6, <2>1
  <2>3. ready[i].kind \in {"wake", "usb"}
    BY <2>1 DEF Flows
  <2> QED BY <1>0, <1>1, <1>4, <1>5, <2>1, <2>2, <2>3 DEF InOrder
<1> QED BY <1>0, <1>3, <1>4, <1>5, <1>6 DEF Behind

LEMMA StoreEnd ==
    ASSUME PipeInv, NEW t, TaskRuns("wake", t), Outcome(t) = "ok", Store(t)
    PROVE  BufEnd' = IF Stored(t) = 0 THEN BufEnd ELSE tasks[t].to
<1>1. /\ t \in TaskIds /\ UNCHANGED taken
      /\ buffer' \in Seq(1..produced) /\ Len(buffer') = Len(buffer) + Stored(t)
      /\ DOMAIN buffer' = 1..(Len(buffer) + Stored(t))
      /\ \A i \in DOMAIN buffer : buffer'[i] = buffer[i]
      /\ \A i \in 1..Stored(t) : buffer'[Len(buffer) + i] = tasks[t].from + i
  BY StoreFacts, Zenon
<1>2. /\ Stored(t) \in Nat /\ Stored(t) = tasks[t].to - tasks[t].from
      /\ tasks[t].from \in Nat /\ tasks[t].to \in Nat
  BY <1>1, BytesParts
<1>3. Len(buffer) \in Nat /\ DOMAIN buffer = 1..Len(buffer)
  BY PipeFacts
<1>4. buffer' = <<>> <=> Len(buffer) + Stored(t) = 0
  BY <1>1, EmptySeq
<1>5. CASE Stored(t) = 0 /\ Len(buffer) = 0
  BY <1>1, <1>4, <1>5, BufEndFacts DEF BufEnd
<1>6. CASE Stored(t) = 0 /\ Len(buffer) # 0
  <2>1. /\ Len(buffer') = Len(buffer) /\ Len(buffer) \in DOMAIN buffer /\ buffer' # <<>>
        /\ BufEnd = buffer[Len(buffer)]
    BY <1>1, <1>3, <1>4, <1>6, BufEndFacts
  <2> QED BY <1>1, <1>6, <2>1 DEF BufEnd
<1>7. CASE Stored(t) # 0
  <2>1. buffer' # <<>> /\ Stored(t) \in 1..Stored(t) /\ tasks[t].from + Stored(t) = tasks[t].to
    BY <1>2, <1>3, <1>4, <1>7
  <2>2. buffer'[Len(buffer')] = tasks[t].to
    BY <1>1, <2>1
  <2> QED BY <1>7, <2>1, <2>2 DEF BufEnd
<1> QED BY <1>5, <1>6, <1>7

LEMMA StoreFlow ==
    ASSUME PipeInv, ResetAll, FlowInv, NEW t, TaskRuns("wake", t), Outcome(t) = "ok", Store(t),
           ready' \in Seq(Handles)
    PROVE  FlowInv'
<1> SUFFICES ASSUME NEW n, n = Len(tasks) + 1 PROVE FlowInv'
  OBVIOUS
<1>0. /\ TransfersInv /\ Turn("wake") /\ t = Head(ready).task /\ ready \in Seq(Handles)
      /\ TaskIds \subseteq Nat
  BY PipeFacts, TypeFacts DEF TaskRuns
<1>1. /\ t \in TaskIds /\ tasks[t].state = "completed" /\ n \in Nat /\ n \notin TaskIds /\ n # t
      /\ TaskIds' = TaskIds \cup {n} /\ tasks'[n] = Task(0, 0) /\ tasks'[t] = Ended("ok")
      /\ \A u \in TaskIds : u # t => tasks'[u] = tasks[u]
      /\ UNCHANGED pc
      /\ ready' = Tail(ready) \o <<StartHandle(n), CallbackHandle(t)>>
  BY StoreFacts, Zenon
<1>2. Task(0, 0).state = "created" /\ Ended("ok").state = "over"
  BY TaskType, EndedType DEF Outcomes
<1>3. ready # <<>> /\ Head(ready) = ready[1]
  BY <1>0, TailParts DEF Turn
<1>4. Shifted(ready, ready', -1, tasks')
  <2> SUFFICES ASSUME NEW w, w = <<StartHandle(n), CallbackHandle(t)>>
               PROVE  Shifted(ready, ready', -1, tasks')
    OBVIOUS
  <2>1. w \in Seq(Handles) /\ \A i \in DOMAIN w : w[i].kind \in {"start", "callback"}
    <3> SUFFICES ASSUME NEW g, g = StartHandle(n), NEW h, h = CallbackHandle(t)
                 PROVE  w \in Seq(Handles) /\ \A i \in DOMAIN w : w[i].kind \in {"start", "callback"}
      OBVIOUS
    <3>1. g \in Handles /\ h \in Handles /\ g.kind = "start" /\ h.kind = "callback"
      BY <1>0, <1>1 DEF StartHandle, CallbackHandle, Handle, Handles, Kinds
    <3>2. w = <<g, h>>
      OBVIOUS
    <3> QED BY ONLY <3>1, <3>2
  <2>2. \A i \in DOMAIN w : ~Flows(w[i], tasks')
    BY <2>1 DEF Flows
  <2>3. ready' = Tail(ready) \o w
    BY <1>1
  <2> QED BY <1>0, <1>3, <2>1, <2>2, <2>3, ShiftedTail
<1>5. \A u \in TaskIds : u # t => Alike(u)
  BY <1>1 DEF Alike
<1>6. \A u \in TaskIds : tasks'[u].state \in {"inflight", "completed"} => Alike(u)
  BY <1>1, <1>2, <1>5
<1>7. \A u \in TaskIds' : Holds(tasks'[u]) =>
          u \in TaskIds /\ u # t /\ Holds(tasks[u]) /\ Alike(u) /\ ready[1].task # u
  <2> SUFFICES ASSUME NEW u \in TaskIds', Holds(tasks'[u])
               PROVE  u \in TaskIds /\ u # t /\ Holds(tasks[u]) /\ Alike(u) /\ ready[1].task # u
    OBVIOUS
  <2>1. tasks'[u].state # "created" /\ tasks'[u].state # "over"
    BY DEF Holds
  <2>2. u # n /\ u # t
    BY <1>1, <1>2, <2>1
  <2>3. u \in TaskIds /\ tasks'[u] = tasks[u]
    BY <1>1, <2>2
  <2>4. ready[1].task = t
    BY <1>0, <1>3
  <2> QED BY <1>5, <2>2, <2>3, <2>4
<1>8. Behind'
  <2> SUFFICES ASSUME NEW u \in TaskIds', Holds(tasks'[u]) PROVE BufEnd' <= tasks'[u].from
    BY DEF Behind
  <2>1. u \in TaskIds /\ u # t /\ Holds(tasks[u]) /\ tasks'[u].from = tasks[u].from
    BY <1>7 DEF Alike
  <2>2. tasks[t].to <= tasks[u].from /\ BufEnd <= tasks[t].from
    BY <2>1, StoreAhead
  <2>3. BufEnd' <= tasks[t].to
    <3>1. /\ tasks[t].from \in Nat /\ tasks[t].to \in Nat /\ BufEnd \in Nat
          /\ Stored(t) \in Nat /\ Stored(t) = tasks[t].to - tasks[t].from
      BY <1>1, BytesParts, BufEndFacts
    <3> QED BY <2>2, <3>1, StoreEnd
  <2>4. /\ tasks[t].to \in Nat /\ tasks[u].from \in Nat /\ BufEnd' \in Nat
    <3>1. tasks[t].to \in Nat /\ tasks[u].from \in Nat /\ BufEnd \in Nat
      BY <1>1, <2>1, BytesParts, BufEndFacts
    <3> QED BY <3>1, StoreEnd
  <2> QED BY <2>1, <2>2, <2>3, <2>4
<1>9. Resetting => Resetting'
  BY <1>1 DEF Resetting
<1> QED BY <1>4, <1>6, <1>7, <1>8, <1>9, FlowKept

(* A task whose transfer has completed, or has been looked at, is the last *)
(* of its kind to be in the queue.                                         *)
LEMMA FlowComes ==
    ASSUME PipeInv, FlowInv, ~Resetting, NEW t \in TaskIds, NEW new \in TaskRecords,
           SetTask(t, new), NEW d \in {0, -1}, NEW q \in Seq(Handles), Shifted(ready, q, d, tasks'),
           d = -1 => ready[1].task = t,
           NEW h \in Handles, h.task = t, Flows(h, tasks'), ready' = Append(q, h),
           \A i \in DOMAIN ready : ready[i].task = t => ~Flows(ready[i], tasks'),
           \A i \in DOMAIN ready : Flows(ready[i], tasks) /\ ready[i].task # t =>
               IF h.kind = "wake" /\ ready[i].kind = "usb"
               THEN new.to <= tasks[ready[i].task].from
               ELSE tasks[ready[i].task].to <= new.from,
           Behind'
    PROVE  FlowInv'
<1>1. /\ TaskIds' = TaskIds /\ tasks'[t] = new /\ \A u \in TaskIds : u # t => tasks'[u] = tasks[u]
      /\ ready \in Seq(Handles)
      /\ \A i \in DOMAIN ready : ready[i].kind \in {"usb", "wake"} => ready[i].task \in TaskIds
  BY PipeFacts, TypeFacts, SetTaskProperties DEF QueueOK, HandleFits, TaskKinds
<1>2. InOrder(ready, tasks) /\ Carried(ready, tasks, TaskIds)
  BY DEF FlowInv
<1>3. \A i \in DOMAIN ready : Flows(ready[i], tasks') =>
          /\ ready[i].task # t /\ ready[i].task \in TaskIds
          /\ tasks'[ready[i].task] = tasks[ready[i].task] /\ Flows(ready[i], tasks)
  BY <1>1 DEF Flows
<1>4. InOrder(q, tasks')
  BY ZenonT(30), SMTT(30), <1>1, <1>2, <1>3, OrderShift
<1>5. Carried(q, tasks', TaskIds \ {t})
  <2> SUFFICES ASSUME NEW u \in TaskIds \ {t}, Holds(tasks'[u])
               PROVE  \E j \in DOMAIN q : q[j].task = u /\ Flows(q[j], tasks')
    BY DEF Carried
  <2>1. tasks'[u] = tasks[u] /\ Holds(tasks[u])
    BY <1>1
  <2>2. PICK i \in DOMAIN ready : ready[i].task = u /\ Flows(ready[i], tasks)
    BY <1>2, <2>1 DEF Carried
  <2>3. Flows(ready[i], tasks') /\ ~(d = -1 /\ i = 1) /\ ready[i].kind \in {"usb", "wake"}
    BY <2>1, <2>2 DEF Flows
  <2>4. i + d \in DOMAIN q /\ q[i + d] = ready[i]
    BY <2>3 DEF Shifted
  <2> QED BY <2>2, <2>3, <2>4
<1>6. ASSUME NEW j \in DOMAIN q, Flows(q[j], tasks')
      PROVE  IF h.kind = "wake" /\ q[j].kind = "usb"
             THEN tasks'[h.task].to <= tasks'[q[j].task].from
             ELSE tasks'[q[j].task].to <= tasks'[h.task].from
  <2>1. PICK i \in DOMAIN ready : ready[i] = q[j]
    BY <1>6 DEF Shifted
  <2>2. /\ ready[i].task # t /\ tasks'[ready[i].task] = tasks[ready[i].task]
        /\ Flows(ready[i], tasks)
    BY <1>3, <1>6, <2>1
  <2> QED BY <1>1, <2>1, <2>2
<1>7. InOrder(ready', tasks') /\ Carried(ready', tasks', TaskIds')
  <2> SUFFICES ASSUME NEW us, us = tasks', NEW r, r = Append(q, h)
               PROVE  InOrder(r, us) /\ Carried(r, us, TaskIds)
    BY <1>1
  <2>1. /\ InOrder(q, us) /\ Carried(q, us, TaskIds \ {h.task}) /\ Flows(h, us)
        /\ \A j \in DOMAIN q : Flows(q[j], us) =>
              IF h.kind = "wake" /\ q[j].kind = "usb"
              THEN us[h.task].to <= us[q[j].task].from
              ELSE us[q[j].task].to <= us[h.task].from
    BY <1>4, <1>5, <1>6
  <2>2. InOrder(Append(q, h), us) /\ Carried(Append(q, h), us, TaskIds)
    BY ONLY <2>1, q \in Seq(Handles), h \in Handles, FlowAppend
  <2> QED BY <2>2
<1> QED BY <1>7 DEF FlowInv

LEMMA CallbackFlow ==
    ASSUME PipeInv, PipeInv', CallersFit, ResetAll, FlowInv, UsbOrCallback
    PROVE  FlowInv'
<1>0. TransfersInv /\ ready' \in Seq(Handles) /\ UNCHANGED <<pc, buffer, taken>>
  BY PipeFacts, TypeFacts DEF UsbOrCallback, PipeInv, TransfersInv, QueueOK, pipeVars,
     TransferCallback, UsbCancelled
<1>1. BufEnd' = BufEnd /\ (Resetting => Resetting')
  BY <1>0 DEF BufEnd, Resetting
<1>2. CASE Resetting
  BY <1>1, <1>2 DEF FlowInv
<1>3. CASE ~Resetting /\ TransferCallback
  <2> SUFFICES ASSUME NEW t, t = Head(ready).task PROVE FlowInv'
    OBVIOUS
  <2>1. /\ t \in TaskIds /\ tasks[t] \in TaskRecords /\ Turn("usb") /\ t \in Nat
        /\ ready \in Seq(Handles) /\ QueueOK(ready, tasks) /\ KindFits("usb", tasks[t])
        /\ TaskFits(tasks[t])
    BY <1>0, <1>3, PipeFacts, TypeFacts, TurnProperties DEF TransferCallback, TaskKinds
  <2>2. /\ ready # <<>> /\ Head(ready) = ready[1] /\ ready[1].kind = "usb" /\ 1 \in DOMAIN ready
        /\ DOMAIN ready = 1..Len(ready) /\ Len(ready) \in Nat
    BY <2>1, TailParts DEF Turn
  <2>3. CASE tasks[t].state = "inflight"
    <3> DEFINE new == [tasks[t] EXCEPT !.state = "completed"]
    <3>1. /\ new \in TaskRecords /\ new.state = "completed" /\ new.from = tasks[t].from
          /\ new.to = tasks[t].to
      BY <2>1 DEF TaskRecords, TaskState
    <3>2. SetTask(t, new) /\ ready' = Append(Tail(ready), WakeHandle(t))
      BY <1>3, <2>3 DEF TransferCallback
    <3> HIDE DEF new
    <3>0. WakeHandle(t) \in Handles /\ WakeHandle(t).kind = "wake" /\ WakeHandle(t).task = t
      BY <2>1 DEF WakeHandle, Handle, Handles, Kinds
    <3>3. PICK h \in Handles : h = WakeHandle(t) /\ h.kind = "wake" /\ h.task = t
      BY <3>0
    <3>4. PICK q \in Seq(Handles) : q = Tail(ready)
      BY <2>1, <2>2, TailParts
    <3>5. Shifted(ready, q, -1, tasks')
      BY <2>1, <2>2, <3>4, ShiftedTail
    <3>6. tasks'[t] = new /\ Flows(h, tasks')
      BY <2>1, <1>0, <3>1, <3>2, <3>3, TypeFacts, SetTaskProperties DEF Flows
    <3>7. \A i \in DOMAIN ready : ready[i].task = t => ~Flows(ready[i], tasks')
      <4>1. Absent(ready, "wake", t)
        BY <2>1, <2>3, AbsentHandles
      <4> QED BY <3>1, <3>6, <4>1 DEF Absent, Flows
    <3>8. Flows(ready[1], tasks) /\ InOrder(ready, tasks)
      BY <1>3, <2>1, <2>2, <2>3 DEF Flows, FlowInv
    <3>9. ASSUME NEW i \in DOMAIN ready, Flows(ready[i], tasks), ready[i].task # t
          PROVE  IF h.kind = "wake" /\ ready[i].kind = "usb"
                 THEN new.to <= tasks[ready[i].task].from
                 ELSE tasks[ready[i].task].to <= new.from
      <4>1. i # 1 /\ 1 < i /\ ready[i].kind \in {"usb", "wake"}
        BY <2>1, <2>2, <3>9 DEF Flows
      <4>2. ready[i].kind = "usb" => tasks[t].to <= tasks[ready[i].task].from
        BY <2>1, <2>2, <3>8, <3>9, <4>1 DEF InOrder
      <4>3. ready[i].kind = "wake" => tasks[ready[i].task].to <= tasks[t].from
        BY <2>1, <2>2, <3>8, <3>9 DEF InOrder
      <4> QED BY <3>1, <3>3, <4>1, <4>2, <4>3
    <3>10. Behind'
      <4>1. Behind /\ TaskIds' = TaskIds /\ \A u \in TaskIds : u # t => tasks'[u] = tasks[u]
        BY <1>0, <1>3, <2>1, <3>1, <3>2, TypeFacts, SetTaskProperties DEF FlowInv
      <4>2. Holds(new) => Holds(tasks[t])
        BY <2>1, <2>3 DEF Holds, TaskFits, new, TaskRecords
      <4> QED BY <1>1, <3>1, <3>6, <4>1, <4>2 DEF Behind
    <3>11. /\ ready' = Append(q, h) /\ -1 \in {0, -1} /\ (-1 = -1 => ready[1].task = t)
           /\ \A i \in DOMAIN ready : Flows(ready[i], tasks) /\ ready[i].task # t =>
                 IF h.kind = "wake" /\ ready[i].kind = "usb"
                 THEN new.to <= tasks[ready[i].task].from
                 ELSE tasks[ready[i].task].to <= new.from
      BY <2>1, <2>2, <3>2, <3>3, <3>4, <3>9
    <3> PICK d \in {0, -1} : d = -1
      OBVIOUS
    <3>12. /\ PipeInv /\ FlowInv /\ ~Resetting /\ t \in TaskIds /\ new \in TaskRecords
           /\ SetTask(t, new) /\ Shifted(ready, q, d, tasks') /\ (d = -1 => ready[1].task = t)
           /\ h.task = t /\ Flows(h, tasks') /\ ready' = Append(q, h) /\ Behind'
           /\ \A i \in DOMAIN ready : ready[i].task = t => ~Flows(ready[i], tasks')
           /\ q \in Seq(Handles) /\ h \in Handles /\ d \in {0, -1}
      BY <1>3, <2>1, <3>1, <3>2, <3>3, <3>5, <3>6, <3>7, <3>10, <3>11
    <3> QED BY ONLY <3>11, <3>12, FlowComes
  <2>4. CASE tasks[t].state = "cancelling"
    BY <1>0, <1>3, <2>1, <2>4, DoomedResets DEF Doomed
  <2>5. CASE tasks[t].state \notin {"inflight", "cancelling"}
    <3>1. ready' = Tail(ready) /\ UNCHANGED tasks
      BY <1>3, <2>5 DEF TransferCallback
    <3>2. Shifted(ready, ready', -1, tasks')
      BY <2>1, <2>2, <3>1, ShiftedTail
    <3>3. ~Flows(ready[1], tasks)
      BY <2>1, <2>2, <2>5 DEF Flows
    <3>4. TaskIds' = TaskIds /\ \A u \in TaskIds : Alike(u) /\ tasks'[u] = tasks[u]
      BY <3>1 DEF Alike, TaskIds
    <3>5. \A u \in TaskIds' : Holds(tasks'[u]) =>
              /\ u \in TaskIds /\ Holds(tasks[u]) /\ Alike(u)
              /\ -1 = -1 => ready[1].task # u \/ ~Flows(ready[1], tasks)
      BY <3>3, <3>4
    <3> QED BY <1>0, <1>1, <3>2, <3>4, <3>5, FlowKept
  <2> QED BY <2>3, <2>4, <2>5
<1>4. CASE ~Resetting /\ UsbCancelled
  <2>1. PICK k \in DOMAIN urbs : tasks[urbs[k]].state = "cancelling"
    BY <1>4 DEF UsbCancelled
  <2>2. urbs[k] \in TaskIds
    BY <1>0, TypeFacts
  <2> QED BY <1>4, <2>1, <2>2, DoomedResets DEF Doomed
<1> QED BY <1>2, <1>3, <1>4 DEF UsbOrCallback

LEMMA CompleteFlow ==
    ASSUME PipeInv, ResetAll, FlowInv, UsbComplete
    PROVE  FlowInv'
<1>1. PICK t \in TaskIds, n \in 0..XferSize, status \in {"ok", "error"}, new \in TaskRecords :
          /\ tasks[t].urb = "submitted" /\ tasks[t].state \in {"inflight", "cancelled"}
          /\ produced' = produced + n /\ new.urb = status /\ new.from = produced
          /\ new.state = tasks[t].state /\ SetTask(t, new)
          /\ ready' = Append(ready, Handle("usb", t, {}))
          /\ UNCHANGED <<pc, pipeVars>>
  BY CompleteFacts
<1>2. /\ ready \in Seq(Handles) /\ QueueOK(ready, tasks) /\ t \in Nat
      /\ TaskIds' = TaskIds /\ tasks'[t] = new /\ \A u \in TaskIds : u # t => tasks'[u] = tasks[u]
      /\ \A i \in DOMAIN ready : ready[i].kind \in {"usb", "wake"} => ready[i].task \in TaskIds
  BY <1>1, PipeFacts, TypeFacts, SetTaskProperties DEF QueueOK, HandleFits, TaskKinds
<1>3. BufEnd' = BufEnd /\ (Resetting => Resetting') /\ BufEnd <= produced
  <2>1. UNCHANGED <<buffer, taken>>
    BY <1>1 DEF pipeVars
  <2> QED BY <1>1, <2>1, BufEndFacts DEF BufEnd, Resetting
<1>4. CASE Resetting
  BY <1>3, <1>4 DEF FlowInv
<1>5. CASE ~Resetting
  <2>1. tasks[t].state = "inflight"
    BY <1>1, <1>5, DoomedResets DEF Doomed
  <2>2. Handle("usb", t, {}) \in Handles /\ Handle("usb", t, {}).kind = "usb" /\ Handle("usb", t, {}).task = t
    BY <1>2 DEF Handle, Handles, Kinds
  <2>3. PICK h \in Handles : h = Handle("usb", t, {}) /\ h.kind = "usb" /\ h.task = t
    BY <2>2
  <2>4. \A i \in DOMAIN ready : ready[i].task = t => ~Flows(ready[i], tasks')
    <3>1. Absent(ready, "usb", t) /\ Absent(ready, "wake", t)
      BY <1>1, <1>2, <2>1, AbsentHandles
    <3> QED BY <3>1 DEF Absent, Flows
  <2>5. ASSUME NEW i \in DOMAIN ready, Flows(ready[i], tasks), ready[i].task # t
        PROVE  IF h.kind = "wake" /\ ready[i].kind = "usb"
               THEN new.to <= tasks[ready[i].task].from
               ELSE tasks[ready[i].task].to <= new.from
    <3>1. ready[i].task \in TaskIds
      BY <1>2, <2>5 DEF Flows
    <3> QED BY <1>1, <2>3, <3>1 DEF PipeInv, DataFits
  <2>6. Behind'
    <3>1. Behind
      BY <1>5 DEF FlowInv
    <3> QED BY <1>1, <1>2, <1>3, <3>1 DEF Behind
  <2> PICK d \in {0, -1} : d = 0
    OBVIOUS
  <2>7. /\ PipeInv /\ FlowInv /\ ~Resetting /\ t \in TaskIds /\ new \in TaskRecords
        /\ SetTask(t, new) /\ Shifted(ready, ready, d, tasks') /\ (d = -1 => ready[1].task = t)
        /\ h.task = t /\ Flows(h, tasks') /\ ready' = Append(ready, h) /\ Behind'
        /\ \A i \in DOMAIN ready : ready[i].task = t => ~Flows(ready[i], tasks')
        /\ ready \in Seq(Handles) /\ h \in Handles /\ d \in {0, -1}
    BY <1>1, <1>2, <1>5, <2>1, <2>3, <2>4, <2>6, ShiftedQueues DEF Flows
  <2>8. \A i \in DOMAIN ready : Flows(ready[i], tasks) /\ ready[i].task # t =>
            IF h.kind = "wake" /\ ready[i].kind = "usb"
            THEN new.to <= tasks[ready[i].task].from
            ELSE tasks[ready[i].task].to <= new.from
    BY <2>5
  <2> QED BY ONLY <2>7, <2>8, FlowComes
<1> QED BY <1>4, <1>5

LEMMA FlowNext == PipeInv /\ CallersFit /\ ResetAll /\ FlowInv /\ [Next]_vars => FlowInv'
<1> SUFFICES ASSUME PipeInv, CallersFit, ResetAll, FlowInv, [Next]_vars PROVE FlowInv'
  OBVIOUS
<1>1. PipeInv'
  BY PipeNext
<1>2. ready' \in Seq(Handles)
  BY <1>1 DEF PipeInv, TransfersInv, QueueOK
<1>3. ASSUME NEW kind, NEW t, TaskStep(kind, t) PROVE FlowInv'
  <2>1. TaskRuns(kind, t)
    BY <1>3 DEF TaskStep
  <2> QED BY <1>2, <1>3, <2>1, ProceedFlow, EndFlow, StoreFlow DEF TaskStep
<1> QED BY <1>1, <1>2, <1>3, QuietFlow, ReadsFlow, ResetsFlow, RefusesFlow, CallbackFlow,
           CompleteFlow, StepKinds

LEMMA FlowAlways == Spec => []FlowInv
<1>1. Init => FlowInv
  <2> SUFFICES ASSUME Init PROVE FlowInv
    OBVIOUS
  <2>1. PipeInv /\ \A t \in TaskIds : tasks[t] = Task(0, 0)
    BY InitialTasks, PipeInit
  <2>2. QueueOK(ready, tasks) /\ DOMAIN tasks = TaskIds
    BY <2>1, PipeFacts, TypeFacts
  <2>3. \A t \in TaskIds : tasks[t].state = "created"
    BY <2>1, TaskType
  <2>4. InOrder(ready, tasks) /\ Carried(ready, tasks, TaskIds)
    BY <2>2, <2>3, NoFlow
  <2>5. Behind
    BY <2>3 DEF Behind, Holds
  <2> QED BY <2>4, <2>5 DEF FlowInv
<1> QED BY <1>1, FlowNext, PipeAlways, CallersAlways, ResetAlways, PTL DEF Spec

--------------------------------------------------------------------------------
(* Until a transfer fails, none has *)

Fine == failures = 0 => \A t \in TaskIds : tasks[t].urb # "error" /\ tasks[t].outcome # "error"

LEMMA FineKept ==
    ASSUME Fine, failures' = 0 => failures = 0,
           \A t \in TaskIds' :
               /\ tasks'[t].urb = "error" => t \in TaskIds /\ tasks[t].urb = "error"
               /\ tasks'[t].outcome = "error" =>
                     t \in TaskIds /\ "error" \in {tasks[t].urb, tasks[t].outcome}
    PROVE  Fine'
  BY DEF Fine

LEMMA FineNext == PipeInv /\ Fine /\ [Next]_vars => Fine'
<1> SUFFICES ASSUME PipeInv, Fine, [Next]_vars PROVE Fine'
  OBVIOUS
<1>0. /\ TransfersInv /\ failures \in Nat
      /\ Task(0, 0).urb = "none" /\ Task(0, 0).outcome = "none"
  BY PipeFacts, TaskType DEF PipeType
<1>1. CASE Quiet
  <2>1. UNCHANGED <<tasks, failures>> /\ TaskIds' = TaskIds
    BY <1>1, QuietKeeps DEF TaskIds
  <2> QED BY <2>1, FineKept
<1>2. ASSUME NEW c \in Callers, RecvRead(c) \/ RecvUntilRead(c) PROVE Fine'
  <2>1. PICK n \in 1..Len(buffer) : Read(c, n)
    BY <1>2, ReadCase
  <2>2. tasks' = Notified /\ TaskIds' = TaskIds /\ UNCHANGED failures
    BY <1>2, <2>1, ReadFacts DEF RecvRead, RecvUntilRead, usbVars
  <2> QED BY <2>2, NotifiedProperties, FineKept
<1>3. ASSUME NEW c \in Callers, CallReset(c) PROVE Fine'
  <2>1. tasks' = Cancelled /\ UNCHANGED failures
    BY <1>0, <1>3, CancelQueueProperties DEF CallReset, usbVars
  <2>2. TaskIds' = TaskIds
    BY <1>0, <2>1, CancelledProperties DEF TaskIds
  <2> QED BY <1>0, <2>1, <2>2, CancelledProperties, FineKept
<1>4. ASSUME NEW c \in Callers, EndCancel(c) PROVE Fine'
  <2>1. UNCHANGED failures
    BY <1>4 DEF EndCancel, usbVars
  <2>2. CASE UNCHANGED tasks
    BY <2>1, <2>2, FineKept DEF TaskIds
  <2>3. CASE StartTasks(Len(tasks))
    <3>1. /\ \A t \in TaskIds : tasks'[t] = tasks[t]
          /\ \A t \in TaskIds' \ TaskIds : tasks'[t] = Task(0, 0)
      BY <2>3, StartFacts
    <3> QED BY <1>0, <2>1, <3>1, FineKept
  <2> QED BY <1>4, <2>2, <2>3 DEF EndCancel
<1>5. ASSUME NEW t \in TaskIds, NEW new \in TaskRecords, SetTask(t, new), UNCHANGED failures,
             new.urb = "error" => tasks[t].urb = "error",
             new.outcome = "error" => "error" \in {tasks[t].urb, tasks[t].outcome}
      PROVE  Fine'
  <2>1. /\ TaskIds' = TaskIds /\ tasks'[t] = new
        /\ \A u \in TaskIds : u # t => tasks'[u] = tasks[u]
    BY <1>0, <1>5, TypeFacts, SetTaskProperties
  <2>2. \A u \in TaskIds' :
               /\ tasks'[u].urb = "error" => u \in TaskIds /\ tasks[u].urb = "error"
               /\ tasks'[u].outcome = "error" =>
                     u \in TaskIds /\ "error" \in {tasks[u].urb, tasks[u].outcome}
    BY <1>5, <2>1
  <2> QED BY <1>5, <2>2, FineKept
<1>6. ASSUME NEW kind, NEW t, TaskStep(kind, t) PROVE Fine'
  <2>1. /\ TaskRuns(kind, t) /\ t \in TaskIds /\ tasks[t] \in TaskRecords /\ UNCHANGED failures
    BY <1>6 DEF TaskStep, TaskRuns, usbVars
  <2>2. CASE Proceed(t)
    <3>1. PICK new \in TaskRecords :
              /\ SetTask(t, new) /\ new.outcome = tasks[t].outcome
              /\ new.urb \in {tasks[t].urb, "submitted"}
      BY <2>1, <2>2, ProceedFacts
    <3> QED BY <1>5, <2>1, <3>1
  <2>3. CASE Outcome(t) \in {"error", "cancelled"} /\ End(t)
    <3>1. PICK new \in TaskRecords : SetTask(t, new) /\ new.urb = "none" /\ new.outcome = Outcome(t)
      BY <2>3, EndedType DEF End, Outcomes
    <3>2. Outcome(t) = "error" => tasks[t].urb = "error"
      BY DEF Outcome
    <3> QED BY <1>5, <2>1, <3>1, <3>2
  <2>4. CASE Retires(t)
    <3>1. PICK new \in TaskRecords : /\ SetTask(t, new) /\ new.outcome = tasks[t].outcome
                                     /\ new.urb = tasks[t].urb
      <4> DEFINE new == [tasks[t] EXCEPT !.state = "cancelling"]
      <4>1. /\ new \in TaskRecords /\ new.outcome = tasks[t].outcome /\ new.urb = tasks[t].urb
            /\ SetTask(t, new)
        BY <2>1, <2>4 DEF Retires, TaskRecords, TaskState
      <4> HIDE DEF new
      <4> QED BY <4>1
    <3> QED BY <1>5, <2>1, <3>1
  <2>5. CASE kind = "wake" /\ Outcome(t) = "ok" /\ Store(t)
    <3> SUFFICES ASSUME NEW n, n = Len(tasks) + 1 PROVE Fine'
      OBVIOUS
    <3>1. /\ TaskIds' = TaskIds \cup {n} /\ tasks'[n] = Task(0, 0) /\ tasks'[t] = Ended("ok")
          /\ \A u \in TaskIds : u # t => tasks'[u] = tasks[u]
      BY <2>1, <2>5, StoreFacts, Zenon
    <3>2. Ended("ok").urb = "none" /\ Ended("ok").outcome = "ok"
      BY EndedType DEF Outcomes
    <3>3. \A u \in TaskIds' :
               /\ tasks'[u].urb = "error" => u \in TaskIds /\ tasks[u].urb = "error"
               /\ tasks'[u].outcome = "error" =>
                     u \in TaskIds /\ "error" \in {tasks[u].urb, tasks[u].outcome}
      BY <1>0, <3>1, <3>2
    <3> QED BY <2>1, <3>3, FineKept
  <2> QED BY <1>6, <2>2, <2>3, <2>4, <2>5 DEF TaskStep
<1>7. CASE UsbOrCallback
  <2>1. UNCHANGED failures
    BY <1>7 DEF UsbOrCallback, usbVars
  <2>2. \/ UNCHANGED tasks
        \/ \E t \in TaskIds, new \in TaskRecords :
              /\ SetTask(t, new) /\ new.outcome = tasks[t].outcome
              /\ new.urb \in {tasks[t].urb, "cancelled"}
    BY <1>0, <1>7, TransferTasks DEF UsbOrCallback
  <2>3. CASE UNCHANGED tasks
    BY <2>1, <2>3, FineKept DEF TaskIds
  <2> QED BY <1>5, <2>1, <2>2, <2>3
<1>8. CASE UsbComplete
  <2>1. PICK t \in TaskIds, n \in 0..XferSize, status \in {"ok", "error"}, new \in TaskRecords :
            /\ SetTask(t, new) /\ new.urb = status /\ new.outcome = tasks[t].outcome
            /\ failures' = IF status = "error" THEN failures + 1 ELSE failures
    BY <1>8, CompleteFacts
  <2>2. CASE status = "error"
    BY <1>0, <2>1, <2>2 DEF Fine
  <2>3. CASE status = "ok"
    BY <1>5, <2>1, <2>3
  <2> QED BY <2>2, <2>3
<1>9. ASSUME NEW kind, NEW t, Refuses(kind, t) PROVE Fine'
  <2>1. failures' # 0
    BY <1>0, <1>9 DEF Refuses
  <2> QED BY <2>1 DEF Fine
<1> QED BY <1>1, <1>2, <1>3, <1>4, <1>6, <1>7, <1>8, <1>9, StepKinds

LEMMA FineAlways == Spec => []Fine
<1>1. Init => Fine
  <2> SUFFICES ASSUME Init, NEW t \in TaskIds
               PROVE  tasks[t].urb # "error" /\ tasks[t].outcome # "error"
    BY DEF Fine
  <2>1. tasks[t] = Task(0, 0)
    BY InitialTasks
  <2> QED BY <2>1 DEF Task
<1> QED BY <1>1, FineNext, PipeAlways, PTL DEF Spec

--------------------------------------------------------------------------------
(* The stream *)

(* While no transfer has failed, what the device has produced and is not    *)
(* in the buffer is held by some task.                                      *)
Cover ==
    ~Resetting /\ failures = 0 =>
        \A b \in (BufEnd + 1)..produced :
            \E t \in TaskIds : Holds(tasks[t]) /\ tasks[t].from < b /\ b <= tasks[t].to

StreamInv == StreamOrder /\ Cover

LEMMA CoverKept ==
    ASSUME Cover, BufEnd' = BufEnd, produced' = produced, failures' = failures,
           Resetting => Resetting',
           ~Resetting /\ failures = 0 =>
               \A t \in TaskIds : Holds(tasks[t]) =>
                   /\ t \in TaskIds' /\ Holds(tasks'[t])
                   /\ tasks'[t].from = tasks[t].from /\ tasks'[t].to = tasks[t].to
    PROVE  Cover'
<1> SUFFICES ASSUME ~Resetting', failures' = 0, NEW b \in (BufEnd + 1)..produced
             PROVE  \E t \in TaskIds' : Holds(tasks'[t]) /\ tasks'[t].from < b /\ b <= tasks'[t].to
  BY DEF Cover
<1>1. PICK t \in TaskIds : Holds(tasks[t]) /\ tasks[t].from < b /\ b <= tasks[t].to
  BY DEF Cover
<1> QED BY <1>1

LEMMA SameBuffer ==
    ASSUME UNCHANGED <<buffer, taken>>, failures' = 0 => failures = 0
    PROVE  /\ StreamOrder => StreamOrder'
           /\ BufEnd' = BufEnd
  BY DEF StreamOrder, BufEnd

LEMMA ReadOrder ==
    ASSUME PipeInv, StreamOrder, NEW c \in Callers, NEW n \in 1..Len(buffer), Read(c, n),
           UNCHANGED failures
    PROVE  StreamOrder'
<1>1. /\ Len(buffer') = Len(buffer) - n /\ taken' = buffer[n]
      /\ DOMAIN buffer' = 1..(Len(buffer) - n)
      /\ \A i \in DOMAIN buffer' : buffer'[i] = buffer[n + i]
  BY ReadFacts
<1>2. Len(buffer) \in Nat /\ DOMAIN buffer = 1..Len(buffer)
  BY PipeFacts
<1> SUFFICES ASSUME NEW i \in DOMAIN buffer', NEW before,
                    before = IF i = 1 THEN taken' ELSE buffer'[i - 1]
             PROVE  buffer'[i] > before /\ (failures = 0 => buffer'[i] = before + 1)
  BY DEF StreamOrder
<1>3. PICK j \in DOMAIN buffer : j = n + i /\ j # 1 /\ buffer'[i] = buffer[j]
  BY <1>1, <1>2
<1>4. before = buffer[j - 1]
  <2>1. CASE i = 1
    BY <1>1, <1>3, <2>1
  <2>2. CASE i # 1
    <3>1. i - 1 \in DOMAIN buffer' /\ n + (i - 1) = j - 1
      BY <1>1, <1>2, <1>3, <2>2
    <3> QED BY <1>1, <2>2, <3>1
  <2> QED BY <2>1, <2>2
<1> QED BY <1>3, <1>4 DEF StreamOrder

(* What comes next is stored next, if no transfer has failed. *)
LEMMA StoreNext ==
    ASSUME PipeInv, ResetAll, FlowInv, Cover, NEW t, TaskRuns("wake", t), Outcome(t) = "ok",
           Stored(t) # 0, failures = 0
    PROVE  tasks[t].from = BufEnd
<1>1. /\ ~Resetting /\ BufEnd <= tasks[t].from /\ t \in TaskIds
      /\ \A u \in TaskIds : u # t /\ Holds(tasks[u]) => tasks[t].to <= tasks[u].from
  BY StoreAhead DEF TaskRuns
<1>2. /\ tasks[t].from \in Nat /\ tasks[t].to \in Nat /\ tasks[t].from < tasks[t].to
      /\ tasks[t].to <= produced /\ BufEnd \in Nat /\ produced \in Nat
  BY <1>1, BytesParts, BufEndFacts DEF PipeInv, DataFits
<1> SUFFICES ASSUME BufEnd + 1 <= tasks[t].from PROVE FALSE
  BY <1>1, <1>2
<1>3. PICK b : b = BufEnd + 1 /\ b \in (BufEnd + 1)..produced
  BY <1>2
<1>4. PICK u \in TaskIds : Holds(tasks[u]) /\ tasks[u].from < b /\ b <= tasks[u].to
  BY <1>1, <1>3 DEF Cover
<1>5. tasks[u].from \in Nat
  BY BytesParts
<1> QED BY <1>1, <1>2, <1>3, <1>4, <1>5

LEMMA StoreStream ==
    ASSUME PipeInv, ResetAll, FlowInv, StreamInv, NEW t, TaskRuns("wake", t), Outcome(t) = "ok",
           Store(t)
    PROVE  StreamInv'
<1> SUFFICES ASSUME NEW n, n = Len(tasks) + 1 PROVE StreamInv'
  OBVIOUS
<1>1. /\ t \in TaskIds /\ n \notin TaskIds /\ n # t
      /\ TaskIds' = TaskIds \cup {n} /\ \A u \in TaskIds : u # t => tasks'[u] = tasks[u]
      /\ UNCHANGED <<pc, taken, usbVars>>
      /\ Len(buffer') = Len(buffer) + Stored(t)
      /\ DOMAIN buffer' = 1..(Len(buffer) + Stored(t))
      /\ \A i \in DOMAIN buffer : buffer'[i] = buffer[i]
      /\ \A i \in 1..Stored(t) : buffer'[Len(buffer) + i] = tasks[t].from + i
  BY StoreFacts, Zenon
<1>2. /\ Stored(t) \in Nat /\ Stored(t) = tasks[t].to - tasks[t].from
      /\ tasks[t].from \in Nat /\ tasks[t].to \in Nat /\ BufEnd \in Nat
      /\ Len(buffer) \in Nat /\ DOMAIN buffer = 1..Len(buffer)
      /\ BufEnd <= tasks[t].from /\ ~Resetting
      /\ Stored(t) # 0 /\ failures = 0 => tasks[t].from = BufEnd
      /\ UNCHANGED <<produced, failures>> /\ StreamOrder /\ Cover
  BY <1>1, BytesParts, BufEndFacts, PipeFacts, StoreAhead, StoreNext DEF usbVars, StreamInv
<1>3. StreamOrder'
  <2> SUFFICES ASSUME NEW i \in DOMAIN buffer', NEW before,
                      before = IF i = 1 THEN taken ELSE buffer'[i - 1]
               PROVE  buffer'[i] > before /\ (failures = 0 => buffer'[i] = before + 1)
    BY <1>1, <1>2 DEF StreamOrder
  <2>1. CASE i \in DOMAIN buffer
    <3>1. before = IF i = 1 THEN taken ELSE buffer[i - 1]
      <4>1. i # 1 => i - 1 \in DOMAIN buffer
        BY <1>2, <2>1
      <4> QED BY <1>1, <4>1
    <3> QED BY <1>1, <1>2, <2>1, <3>1 DEF StreamOrder
  <2>2. CASE i = Len(buffer) + 1
    <3>1. buffer'[i] = tasks[t].from + 1 /\ Stored(t) # 0
      BY <1>1, <1>2, <2>2
    <3>2. before = BufEnd
      <4>1. CASE Len(buffer) = 0
        BY <2>2, <4>1, BufEndFacts
      <4>2. CASE Len(buffer) # 0
        <5>1. i # 1 /\ i - 1 = Len(buffer) /\ Len(buffer) \in DOMAIN buffer
          BY <1>2, <2>2, <4>2
        <5> QED BY <1>1, <4>2, <5>1, BufEndFacts
      <4> QED BY <4>1, <4>2
    <3> QED BY <1>2, <3>1, <3>2
  <2>3. CASE i \notin DOMAIN buffer /\ i # Len(buffer) + 1
    <3>1. PICK k \in 1..Stored(t) : i = Len(buffer) + k /\ k # 1
      <4>1. i - Len(buffer) \in 1..Stored(t) /\ i = Len(buffer) + (i - Len(buffer)) /\ i - Len(buffer) # 1
        BY <1>1, <1>2, <2>3
      <4> QED BY <4>1
    <3>2. k - 1 \in 1..Stored(t) /\ i - 1 = Len(buffer) + (k - 1) /\ i # 1
      BY <1>2, <3>1
    <3>3. buffer'[i] = tasks[t].from + k /\ before = tasks[t].from + (k - 1)
      BY <1>1, <3>1, <3>2
    <3>4. k \in Nat /\ tasks[t].from \in Nat
      BY <1>2, <3>1
    <3> QED BY ONLY <3>3, <3>4
  <2> QED BY <2>1, <2>2, <2>3
<1>4. Cover'
  <2> SUFFICES ASSUME failures = 0, NEW b \in (BufEnd' + 1)..produced
               PROVE  \E u \in TaskIds' : Holds(tasks'[u]) /\ tasks'[u].from < b /\ b <= tasks'[u].to
    BY <1>2 DEF Cover
  <2>0. BufEnd' = IF Stored(t) = 0 THEN BufEnd ELSE tasks[t].to
    BY StoreEnd
  <2>1. b \in (BufEnd + 1)..produced /\ ~(tasks[t].from < b /\ b <= tasks[t].to)
    BY <1>2, <2>0
  <2>2. PICK u \in TaskIds : Holds(tasks[u]) /\ tasks[u].from < b /\ b <= tasks[u].to
    BY <1>2, <2>1 DEF Cover
  <2>3. u # t
    BY <2>1, <2>2
  <2> QED BY <1>1, <2>2, <2>3
<1> QED BY <1>3, <1>4 DEF StreamInv

LEMMA ResetsStream ==
    ASSUME PipeInv, Fine, StreamInv, NEW c \in Callers, CallReset(c) \/ EndCancel(c)
    PROVE  StreamInv'
<1>1. CASE CallReset(c)
  <2>1. UNCHANGED <<buffer, taken, failures>> /\ pc'[c] = "cancel"
    BY <1>1, PipeFacts, CancelQueueProperties DEF CallReset, usbVars
  <2> QED BY <2>1, SameBuffer DEF StreamInv, Cover, Resetting
<1>2. CASE EndCancel(c)
  <2>1. UNCHANGED <<failures, produced>>
    BY <1>2 DEF EndCancel, usbVars
  <2>2. CASE \E i \in DOMAIN done : done[i] \in Failed
    <3>1. UNCHANGED <<buffer, taken>>
      BY <1>2, <2>2 DEF EndCancel
    <3>2. failures # 0
      BY <2>2 DEF Fine, Failed
    <3> QED BY <2>1, <3>1, <3>2, SameBuffer DEF StreamInv, Cover
  <2>3. CASE ~\E i \in DOMAIN done : done[i] \in Failed
    <3>1. buffer' = <<>> /\ taken' = produced
      BY <1>2, <2>3 DEF EndCancel, Clear
    <3>2. StreamOrder'
      BY <3>1 DEF StreamOrder
    <3>3. BufEnd' = produced /\ produced' = produced /\ produced \in Nat
      BY <2>1, <3>1, PipeFacts DEF BufEnd
    <3>4. (BufEnd' + 1)..produced' = {}
      BY <3>3
    <3> QED BY <3>2, <3>4 DEF StreamInv, Cover
  <2> QED BY <2>2, <2>3
<1> QED BY <1>1, <1>2

(* A task ends without storing its data only if it is cancelled, or failed. *)
LEMMA EndsOnly ==
    ASSUME PipeInv, ResetAll, Fine, NEW kind, NEW t, TaskRuns(kind, t),
           Outcome(t) \in {"error", "cancelled"},
           tasks[t].state \in {"created", "notified"} => tasks[t].mustCancel
    PROVE  Resetting \/ failures # 0
<1>1. t \in TaskIds /\ KindFits(kind, tasks[t]) /\ kind \in {"start", "wake"} /\ TaskFits(tasks[t])
  BY DEF TaskRuns
<1>2. tasks[t].state \in {"created", "notified", "completed", "cancelled", "retired"}
  BY <1>1 DEF KindFits
<1>3. CASE Doomed(t)
  BY <1>1, <1>2, <1>3, DoomedResets
<1>4. CASE ~Doomed(t)
  <2>1. tasks[t].state = "completed" /\ ~tasks[t].mustCancel
    BY <1>2, <1>4 DEF Doomed
  <2>2. tasks[t].urb = "error"
    BY <1>1, <2>1 DEF Outcome, TaskFits
  <2> QED BY <1>1, <2>2 DEF Fine
<1> QED BY <1>3, <1>4

LEMMA StreamNext ==
    PipeInv /\ CallersFit /\ ResetAll /\ FlowInv /\ Fine /\ StreamInv /\ [Next]_vars => StreamInv'
<1> SUFFICES ASSUME PipeInv, CallersFit, ResetAll, FlowInv, Fine, StreamInv, [Next]_vars
             PROVE  StreamInv'
  OBVIOUS
<1>0. TransfersInv /\ StreamOrder /\ Cover /\ failures \in Nat
  BY PipeFacts DEF StreamInv, PipeType
<1>1. CASE Quiet
  <2>1. UNCHANGED <<tasks, buffer, taken, produced, failures>> /\ TaskIds' = TaskIds
    BY <1>1, QuietKeeps DEF TaskIds
  <2>2. Resetting => Resetting'
    BY <1>1, QuietResetting
  <2> QED BY <1>0, <2>1, <2>2, SameBuffer, CoverKept DEF StreamInv
<1>2. ASSUME NEW c \in Callers, RecvRead(c) \/ RecvUntilRead(c) PROVE StreamInv'
  <2>1. PICK n \in 1..Len(buffer) : Read(c, n)
    BY <1>2, ReadCase
  <2>2. /\ tasks' = Notified /\ TaskIds' = TaskIds /\ UNCHANGED usbVars
        /\ pc' = pc \/ (pc[c] # "cancel" /\ pc' = [pc EXCEPT ![c] = "run"])
    BY <1>2, <2>1, ReadFacts DEF RecvRead, RecvUntilRead
  <2>3. UNCHANGED <<produced, failures>> /\ (Resetting => Resetting') /\ BufEnd' = BufEnd
    BY <2>1, <2>2, PipeFacts, ReadEnd DEF Resetting, usbVars
  <2>4. \A t \in TaskIds : Holds(tasks[t]) =>
                   /\ t \in TaskIds' /\ Holds(tasks'[t])
                   /\ tasks'[t].from = tasks[t].from /\ tasks'[t].to = tasks[t].to
    BY <2>2, NotifiedProperties DEF Holds
  <2>5. Cover'
    BY <1>0, <2>3, <2>4, CoverKept
  <2> QED BY <1>0, <2>1, <2>3, <2>5, ReadOrder DEF StreamInv
<1>3. ASSUME NEW t \in TaskIds, NEW new \in TaskRecords, SetTask(t, new),
             UNCHANGED <<pc, buffer, taken, produced, failures>>,
             Resetting \/ failures # 0 \/ ~Holds(tasks[t])
             \/ (Holds(new) /\ new.from = tasks[t].from /\ new.to = tasks[t].to)
      PROVE  StreamInv'
  <2>1. /\ TaskIds' = TaskIds /\ tasks'[t] = new
        /\ \A u \in TaskIds : u # t => tasks'[u] = tasks[u]
    BY <1>0, <1>3, TypeFacts, SetTaskProperties
  <2>2. (Resetting => Resetting') /\ BufEnd' = BufEnd /\ StreamOrder'
    BY <1>0, <1>3, SameBuffer DEF Resetting
  <2>3. ~Resetting /\ failures = 0 =>
            \A u \in TaskIds : Holds(tasks[u]) =>
                   /\ u \in TaskIds' /\ Holds(tasks'[u])
                   /\ tasks'[u].from = tasks[u].from /\ tasks'[u].to = tasks[u].to
    BY <1>3, <2>1
  <2> QED BY <1>0, <1>3, <2>2, <2>3, CoverKept DEF StreamInv
<1>4. ASSUME NEW kind, NEW t, TaskStep(kind, t) PROVE StreamInv'
  <2>1. /\ TaskRuns(kind, t) /\ t \in TaskIds /\ tasks[t] \in TaskRecords
        /\ UNCHANGED <<pc, taken, produced, failures>>
    BY <1>4 DEF TaskStep, TaskRuns, usbVars
  <2>2. CASE tasks[t].state \in {"created", "notified"} /\ Proceed(t)
    <3>1. PICK new \in TaskRecords : SetTask(t, new) /\ UNCHANGED buffer
      BY <2>1, <2>2, ProceedFacts
    <3>2. ~Holds(tasks[t])
      BY <2>2 DEF Holds
    <3> QED BY <1>3, <2>1, <3>1, <3>2
  <2>3. CASE /\ tasks[t].state \in {"created", "notified"} => tasks[t].mustCancel
             /\ Outcome(t) \in {"error", "cancelled"} /\ End(t)
    <3>1. PICK new \in TaskRecords : SetTask(t, new) /\ UNCHANGED buffer
      BY <2>3, EndedType DEF End, Outcomes
    <3> QED BY <1>3, <2>1, <2>3, <3>1, EndsOnly
  <2>4. CASE Retires(t)
    <3>1. PICK new \in TaskRecords : SetTask(t, new) /\ UNCHANGED buffer
      BY <2>1, <2>4 DEF Retires, TaskRecords, TaskState
    <3>2. ~Holds(tasks[t])
      BY <2>4 DEF Retires, HasToCancel, Holds
    <3> QED BY <1>3, <2>1, <3>1, <3>2
  <2>5. CASE kind = "wake" /\ Outcome(t) = "ok" /\ Store(t)
    BY <2>1, <2>5, StoreStream
  <2> QED BY <1>4, <2>2, <2>3, <2>4, <2>5 DEF TaskStep
<1>5. CASE UsbOrCallback
  <2>1. UNCHANGED <<pc, buffer, taken, produced, failures>>
    BY <1>5 DEF UsbOrCallback, usbVars, pipeVars, TransferCallback, UsbCancelled
  <2>2. \/ UNCHANGED tasks
        \/ \E t \in TaskIds, new \in TaskRecords :
              /\ SetTask(t, new) /\ new.from = tasks[t].from /\ new.to = tasks[t].to
              /\ \/ new.state = "completed" /\ new.urb = tasks[t].urb
                 \/ tasks[t].state = "cancelling"
    BY <1>0, <1>5, TransferTasks DEF UsbOrCallback
  <2>3. CASE UNCHANGED tasks
    <3>1. TaskIds' = TaskIds /\ (Resetting => Resetting')
      BY <2>1, <2>3 DEF TaskIds, Resetting
    <3> QED BY <1>0, <2>1, <2>3, <3>1, SameBuffer, CoverKept DEF StreamInv
  <2>4. ASSUME NEW t \in TaskIds, NEW new \in TaskRecords, SetTask(t, new),
               new.from = tasks[t].from, new.to = tasks[t].to,
               \/ new.state = "completed" /\ new.urb = tasks[t].urb
               \/ tasks[t].state = "cancelling"
        PROVE  StreamInv'
    <3>1. Holds(tasks[t]) => Holds(new)
      BY <2>4 DEF Holds
    <3> QED BY <1>3, <2>1, <2>4, <3>1
  <2> QED BY <2>2, <2>3, <2>4
<1>6. CASE UsbComplete
  <2>1. PICK t \in TaskIds, n \in 0..XferSize, status \in {"ok", "error"}, new \in TaskRecords :
            /\ tasks[t].urb = "submitted" /\ tasks[t].state \in {"inflight", "cancelled"}
            /\ produced' = produced + n /\ new.urb = status /\ new.from = produced
            /\ new.to = IF status = "ok" THEN produced + n ELSE produced
            /\ failures' = IF status = "error" THEN failures + 1 ELSE failures
            /\ new.state = tasks[t].state /\ SetTask(t, new) /\ UNCHANGED <<pc, pipeVars>>
    BY <1>6, CompleteFacts
  <2>2. UNCHANGED <<buffer, taken, pc>> /\ (failures' = 0 => failures = 0 /\ status = "ok")
    BY <1>0, <2>1 DEF pipeVars
  <2>3. StreamOrder' /\ BufEnd' = BufEnd
    BY <1>0, <2>2, SameBuffer
  <2>4. Cover'
    <3> SUFFICES ASSUME ~Resetting', failures' = 0, NEW b \in (BufEnd + 1)..(produced + n)
                 PROVE  \E u \in TaskIds' : Holds(tasks'[u]) /\ tasks'[u].from < b /\ b <= tasks'[u].to
      BY <2>1, <2>3 DEF Cover
    <3>1. /\ TaskIds' = TaskIds /\ tasks'[t] = new
          /\ \A u \in TaskIds : u # t => tasks'[u] = tasks[u]
      BY <1>0, <2>1, TypeFacts, SetTaskProperties
    <3>2. /\ ~Resetting /\ produced \in Nat /\ n \in Nat /\ BufEnd \in Nat
          /\ failures = 0 /\ status = "ok"
      BY <2>1, <2>2, PipeFacts, BufEndFacts DEF Resetting
    <3>3. tasks[t].state = "inflight"
      BY <2>1, <3>2, DoomedResets DEF Doomed
    <3>4. CASE b <= produced
      <4>1. PICK u \in TaskIds : Holds(tasks[u]) /\ tasks[u].from < b /\ b <= tasks[u].to
        BY <1>0, <3>2, <3>4 DEF Cover
      <4>2. u # t
        BY <2>1, <4>1 DEF Holds
      <4> QED BY <3>1, <4>1, <4>2
    <3>5. CASE b > produced
      <4>1. Holds(tasks'[t]) /\ tasks'[t].from < b /\ b <= tasks'[t].to
        BY <2>1, <3>1, <3>2, <3>3, <3>5 DEF Holds
      <4> QED BY <3>1, <4>1
    <3> QED BY <3>2, <3>4, <3>5
  <2> QED BY <2>3, <2>4 DEF StreamInv
<1>7. ASSUME NEW kind, NEW t, Refuses(kind, t) PROVE StreamInv'
  <2>1. UNCHANGED <<buffer, taken>> /\ failures' # 0
    BY <1>0, <1>7 DEF Refuses, pipeVars
  <2> QED BY <1>0, <2>1, SameBuffer DEF StreamInv, Cover
<1> QED BY <1>1, <1>2, <1>4, <1>5, <1>6, <1>7, ResetsStream, StepKinds

LEMMA StreamAlways == Spec => []StreamInv
<1>1. Init => StreamInv
  BY DEF Init, StreamInv, StreamOrder, Cover, BufEnd
<1> QED BY <1>1, StreamNext, PipeAlways, CallersAlways, ResetAlways, FlowAlways, FineAlways, PTL DEF Spec

(* Although many transfers run at once, and tasks are held back and let go  *)
(* in turns, the buffer gets the device's bytes in order: never one again,  *)
(* never one from before a reset(), and none missing unless a transfer      *)
(* failed.                                                                  *)
THEOREM KeepsOrder == Spec => []StreamOrder
<1>1. StreamInv => StreamOrder
  BY DEF StreamInv
<1> QED BY <1>1, StreamAlways, PTL

--------------------------------------------------------------------------------
(* Every byte is accounted for *)

(* What the device has produced is read, or in the buffer, or in transfers. *)
LossInv ==
    ~Resetting /\ failures = 0 => taken + Len(buffer) + Total(tasks, Unfinished) = produced

(* Until a transfer fails, the bytes of the buffer follow what was taken. *)
LEMMA BufferBytes ==
    ASSUME PipeInv, StreamOrder, failures = 0
    PROVE  \A i \in DOMAIN buffer : buffer[i] = taken + i
<1>1. DOMAIN buffer = 1..Len(buffer) /\ Len(buffer) \in Nat /\ taken \in Nat
  BY PipeFacts
<1> DEFINE Good == {n \in Nat : n \in DOMAIN buffer => buffer[n] = taken + n}
<1>2. 0 \in Good
  BY <1>1
<1>3. ASSUME NEW n \in Nat, n \in Good PROVE n + 1 \in Good
  <2> SUFFICES ASSUME n + 1 \in DOMAIN buffer PROVE buffer[n + 1] = taken + (n + 1)
    OBVIOUS
  <2>1. CASE n = 0
    BY <1>1, <2>1 DEF StreamOrder
  <2>2. CASE n # 0
    <3>1. n \in DOMAIN buffer /\ n + 1 # 1 /\ (n + 1) - 1 = n
      BY <1>1, <2>2
    <3>2. buffer[n + 1] = buffer[n] + 1
      BY <3>1 DEF StreamOrder
    <3>3. buffer[n] = taken + n
      BY <1>3, <3>1
    <3> QED BY <1>1, <3>2, <3>3
  <2> QED BY <2>1, <2>2
<1>4. Nat \subseteq Good
  <2> HIDE DEF Good
  <2> QED BY <1>2, <1>3, NaturalInduction
<1> QED BY <1>1, <1>4

LEMMA UnfinishedCounts ==
    ASSUME PipeInv
    PROVE  Counts(tasks, Unfinished) /\ IsFiniteSet(Unfinished) /\ Unfinished \subseteq TaskIds
<1>1. \A t \in TaskIds : Amount(tasks, t) = Stored(t) /\ Stored(t) \in Nat
  BY BytesParts DEF Amount, Stored
<1> QED BY <1>1, FiniteSets DEF Counts, Unfinished

LEMMA LossKept ==
    ASSUME PipeInv, LossInv, UNCHANGED <<buffer, taken, produced>>, failures' = 0 => failures = 0,
           Resetting => Resetting', Unfinished' = Unfinished,
           \A t \in Unfinished : tasks'[t].from = tasks[t].from /\ tasks'[t].to = tasks[t].to
    PROVE  LossInv'
<1>1. SameAmounts(tasks, tasks', Unfinished)
  BY DEF SameAmounts, Amount
<1>2. Counts(tasks, Unfinished)
  BY UnfinishedCounts
<1>3. Total(tasks', Unfinished) = Total(tasks, Unfinished)
  <2> SUFFICES ASSUME NEW ts, ts = tasks, NEW us, us = tasks', NEW S, S = Unfinished
               PROVE  Total(us, S) = Total(ts, S)
    OBVIOUS
  <2> QED BY <1>1, <1>2, TotalSame
<1>4. Total(tasks, Unfinished)' = Total(tasks', Unfinished')
  OBVIOUS
<1> QED BY <1>3, <1>4 DEF LossInv

LEMMA OneTaskLoss ==
    ASSUME PipeInv, LossInv, UNCHANGED <<pc, buffer, taken, produced, failures>>,
           NEW t \in TaskIds, NEW new \in TaskRecords, SetTask(t, new),
           new.state = "over" <=> tasks[t].state = "over",
           new.from = tasks[t].from, new.to = tasks[t].to
    PROVE  LossInv'
<1>1. TaskIds' = TaskIds /\ tasks'[t] = new /\ \A u \in TaskIds : u # t => tasks'[u] = tasks[u]
  BY PipeFacts, TypeFacts, SetTaskProperties
<1>2. Unfinished' = Unfinished /\ Unfinished \subseteq TaskIds
  BY <1>1 DEF Unfinished, Over
<1>3. \A u \in Unfinished : tasks'[u].from = tasks[u].from /\ tasks'[u].to = tasks[u].to
  BY <1>1, <1>2
<1> QED BY <1>2, <1>3, LossKept DEF Resetting

LEMMA ReadsLoss ==
    ASSUME PipeInv, LossInv, StreamOrder, NEW c \in Callers, RecvRead(c) \/ RecvUntilRead(c)
    PROVE  LossInv'
<1>1. PICK n \in 1..Len(buffer) : Read(c, n)
  BY ReadCase
<1>2. /\ tasks' = Notified /\ TaskIds' = TaskIds /\ UNCHANGED <<produced, failures>>
      /\ Len(buffer') = Len(buffer) - n /\ taken' = buffer[n]
      /\ pc' = pc \/ (pc[c] # "cancel" /\ pc' = [pc EXCEPT ![c] = "run"])
  BY <1>1, ReadFacts DEF RecvRead, RecvUntilRead, usbVars
<1>3. /\ Resetting => Resetting'
      /\ Len(buffer) \in Nat /\ n \in DOMAIN buffer /\ taken \in Nat
  BY <1>2, PipeFacts DEF Resetting
<1>4. Unfinished' = Unfinished /\ Counts(tasks, Unfinished)
  BY <1>2, NotifiedUnfinished, UnfinishedCounts
<1>5. SameAmounts(tasks, tasks', Unfinished)
  BY <1>2, UnfinishedCounts, NotifiedProperties DEF SameAmounts, Amount
<1>6. Total(tasks', Unfinished') = Total(tasks, Unfinished) /\ Total(tasks, Unfinished) \in Nat
  <2> SUFFICES ASSUME NEW ts, ts = tasks, NEW us, us = tasks', NEW S, S = Unfinished
               PROVE  Total(us, S) = Total(ts, S) /\ Total(ts, S) \in Nat
    BY <1>4
  <2> QED BY <1>4, <1>5, TotalSame, TotalFacts
<1>7. failures = 0 => buffer[n] = taken + n
  BY <1>3, BufferBytes
<1> SUFFICES ASSUME NEW m \in Nat, m = Total(tasks, Unfinished), Total(tasks', Unfinished') = m,
                    ~Resetting', failures' = 0
             PROVE  taken' + Len(buffer') + m = produced'
  BY <1>6 DEF LossInv
<1>8. taken + Len(buffer) + m = produced
  BY <1>2, <1>3 DEF LossInv
<1>9. taken' = taken + n /\ Len(buffer') = Len(buffer) - n /\ produced' = produced /\ n \in Nat
  BY <1>2, <1>7
<1> QED BY ONLY <1>3, <1>8, <1>9, m \in Nat

LEMMA ResetsLoss ==
    ASSUME PipeInv, CallersFit, ResetAll, Fine, LossInv, NEW c \in Callers, CallReset(c) \/ EndCancel(c)
    PROVE  LossInv'
<1>1. CASE CallReset(c)
  <2>1. pc'[c] = "cancel"
    BY <1>1, PipeFacts, CancelQueueProperties DEF CallReset
  <2> QED BY <2>1 DEF LossInv, Resetting
<1>2. CASE EndCancel(c)
  <2>1. UNCHANGED <<failures, produced>> /\ running = c /\ pc[c] = "cancel"
    BY <1>2 DEF EndCancel, usbVars
  <2>2. CASE \E i \in DOMAIN done : done[i] \in Failed
    <3>1. failures # 0
      BY <2>2 DEF Fine, Failed
    <3> QED BY <2>1, <3>1 DEF LossInv
  <2>3. CASE ~\E i \in DOMAIN done : done[i] \in Failed
    <3>1. buffer' = <<>> /\ taken' = produced /\ StartTasks(Len(tasks))
      BY <1>2, <2>3 DEF EndCancel, Clear
    <3>2. Unfinished = {}
      BY <2>1, NothingLeft DEF ResetAll
    <3>3. \A t \in TaskIds : tasks[t].state = "over"
      BY <3>2 DEF Unfinished, Over
    <3>4. /\ \A t \in TaskIds : tasks'[t] = tasks[t]
          /\ \A t \in TaskIds' \ TaskIds : tasks'[t] = Task(0, 0)
          /\ IsFiniteSet(TaskIds')
      <4>1. /\ \A t \in TaskIds : tasks'[t] = tasks[t]
            /\ \A t \in TaskIds' \ TaskIds : tasks'[t] = Task(0, 0)
            /\ TaskIds' = 1..(Len(tasks) + XfersPerQueue)
            /\ Len(tasks) \in Nat /\ XfersPerQueue \in Nat
        BY <3>1, StartFacts
      <4>2. IsFiniteSet(1..(Len(tasks) + XfersPerQueue))
        <5>1. 1 \in Int /\ Len(tasks) + XfersPerQueue \in Int
          BY <4>1
        <5> QED BY <5>1, FS_Interval
      <4> QED BY <4>1, <4>2
    <3>5. \A t \in Unfinished' : t \in TaskIds' \ TaskIds
      BY <3>3, <3>4 DEF Unfinished, Over
    <3>6. \A t \in Unfinished' : Amount(tasks', t) = 0
      <4>1. Task(0, 0).from = 0 /\ Task(0, 0).to = 0
        BY TaskType
      <4>2. \A t \in Unfinished' : tasks'[t] = Task(0, 0)
        BY <3>4, <3>5
      <4> QED BY <4>1, <4>2 DEF Amount
    <3>7. IsFiniteSet(Unfinished')
      BY <3>4, <3>5, FS_Subset
    <3>8. Total(tasks', Unfinished') = 0
      <4> SUFFICES ASSUME NEW us, us = tasks', NEW S, S = Unfinished' PROVE Total(us, S) = 0
        OBVIOUS
      <4> QED BY <3>6, <3>7, TotalNothing
    <3>9. produced \in Nat /\ Len(<<>>) = 0
      BY PipeFacts
    <3> QED BY <2>1, <3>1, <3>8, <3>9 DEF LossInv
  <2> QED BY <2>2, <2>3
<1> QED BY <1>1, <1>2

LEMMA StoreLoss ==
    ASSUME PipeInv, LossInv, NEW t, TaskRuns("wake", t), Outcome(t) = "ok", Store(t)
    PROVE  LossInv'
<1> SUFFICES ASSUME NEW n, n = Len(tasks) + 1 PROVE LossInv'
  OBVIOUS
<1>1. /\ t \in TaskIds /\ tasks[t].state = "completed" /\ n \notin TaskIds /\ n # t
      /\ TaskIds' = TaskIds \cup {n} /\ tasks'[n] = Task(0, 0) /\ tasks'[t] = Ended("ok")
      /\ \A u \in TaskIds : u # t => tasks'[u] = tasks[u]
      /\ Len(buffer') = Len(buffer) + Stored(t)
      /\ UNCHANGED <<pc, taken, usbVars>>
  BY StoreFacts, Zenon
<1>2. UNCHANGED <<pc, taken, produced, failures>> /\ (Resetting' <=> Resetting)
  BY <1>1 DEF usbVars, Resetting
<1>3. /\ Task(0, 0).state = "created" /\ Task(0, 0).from = 0 /\ Task(0, 0).to = 0
      /\ Ended("ok").state = "over"
  BY TaskType, EndedType DEF Outcomes
<1>4. /\ Unfinished' = (Unfinished \ {t}) \cup {n} /\ t \in Unfinished /\ n \notin Unfinished
      /\ Unfinished \subseteq TaskIds
  BY <1>1, <1>3 DEF Unfinished, Over
<1>5. Counts(tasks, Unfinished)
  BY UnfinishedCounts
<1>6. Amount(tasks, t) = Stored(t) /\ Amount(tasks', n) = 0
  BY <1>1, <1>3 DEF Amount, Stored
<1> SUFFICES ASSUME NEW ts, ts = tasks, NEW us, us = tasks', NEW S, S = Unfinished,
                    NEW R, R = S \ {t}
             PROVE  LossInv'
  OBVIOUS
<1>7. Counts(ts, S) /\ SameAmounts(ts, us, S \ {t}) /\ t \in S
  BY <1>1, <1>4, <1>5 DEF SameAmounts, Amount
<1>8. Total(us, R) = Total(ts, S) - Amount(ts, t) /\ Total(ts, S) \in Nat
  BY <1>7, TotalLeaves
<1>9. Counts(us, R) /\ SameAmounts(us, us, R) /\ n \notin R
  BY <1>4, <1>7, FS_Subset DEF Counts, SameAmounts
<1>10. Total(us, R \cup {n}) = Total(us, R) + Amount(us, n)
  BY <1>6, <1>9, TotalJoins
<1>11. /\ Total(tasks', Unfinished') = Total(tasks, Unfinished) - Stored(t) + 0
       /\ Total(tasks, Unfinished) \in Nat
  BY <1>4, <1>6, <1>8, <1>10
<1> SUFFICES ASSUME NEW m \in Nat, m = Total(tasks, Unfinished), Total(tasks', Unfinished') = m - Stored(t) + 0,
                    ~Resetting', failures' = 0
             PROVE  taken + Len(buffer') + (m - Stored(t) + 0) = produced
  BY <1>2, <1>11 DEF LossInv
<1>12. taken + Len(buffer) + m = produced
  BY <1>2 DEF LossInv
<1>13. taken \in Nat /\ Len(buffer) \in Nat /\ Stored(t) \in Nat /\ Len(buffer') = Len(buffer) + Stored(t)
  BY <1>1, BytesParts, PipeFacts
<1> QED BY ONLY <1>12, <1>13, m \in Nat

LEMMA CompleteLoss ==
    ASSUME PipeInv, LossInv, UsbComplete
    PROVE  LossInv'
<1>1. PICK t \in TaskIds, n \in 0..XferSize, status \in {"ok", "error"}, new \in TaskRecords :
            /\ tasks[t].urb = "submitted" /\ tasks[t].state \in {"inflight", "cancelled"}
            /\ produced' = produced + n /\ new.from = produced
            /\ new.to = IF status = "ok" THEN produced + n ELSE produced
            /\ failures' = IF status = "error" THEN failures + 1 ELSE failures
            /\ new.state = tasks[t].state /\ SetTask(t, new) /\ UNCHANGED <<pc, pipeVars>>
  BY CompleteFacts
<1>2. /\ produced \in Nat /\ failures \in Nat /\ XferSize \in Nat /\ taken \in Nat
      /\ Len(buffer) \in Nat /\ tasks[t].from = 0 /\ tasks[t].to = 0
  BY <1>1, PipeFacts DEF PipeInv, DataFits, PipeType
<1>3. UNCHANGED <<buffer, taken>> /\ (Resetting => Resetting')
  BY <1>1 DEF pipeVars, Resetting
<1>4. /\ TaskIds' = TaskIds /\ tasks'[t] = new
      /\ \A u \in TaskIds : u # t => tasks'[u] = tasks[u]
  BY <1>1, PipeFacts, TypeFacts, SetTaskProperties
<1>5. Unfinished' = Unfinished /\ t \in Unfinished /\ Unfinished \subseteq TaskIds
  BY <1>1, <1>4 DEF Unfinished, Over
<1> SUFFICES ASSUME ~Resetting', failures' = 0
             PROVE  taken' + Len(buffer') + Total(tasks', Unfinished') = produced'
  BY DEF LossInv
<1>6. ~Resetting /\ failures = 0 /\ status = "ok"
  BY <1>1, <1>2, <1>3
<1>7. Amount(tasks, t) = 0 /\ Amount(tasks', t) = n /\ n \in Nat
  BY <1>1, <1>2, <1>4, <1>6 DEF Amount
<1>8. Total(tasks', Unfinished) = Total(tasks, Unfinished) + n /\ Total(tasks, Unfinished) \in Nat
  <2> SUFFICES ASSUME NEW ts, ts = tasks, NEW us, us = tasks', NEW S, S = Unfinished
               PROVE  Total(us, S) = Total(ts, S) + n /\ Total(ts, S) \in Nat
    OBVIOUS
  <2>1. Counts(ts, S) /\ SameAmounts(ts, us, S \ {t}) /\ t \in S /\ Amount(us, t) \in Nat
    BY <1>4, <1>5, <1>7, UnfinishedCounts DEF SameAmounts, Amount
  <2>2. Total(us, S) = Total(ts, S) - Amount(ts, t) + Amount(us, t)
    BY ONLY <2>1, TotalChanges
  <2>3. Total(ts, S) \in Nat
    BY ONLY <2>1, TotalFacts
  <2> QED BY <1>7, <2>2, <2>3
<1> SUFFICES ASSUME NEW m \in Nat, m = Total(tasks, Unfinished), Total(tasks', Unfinished') = m + n
             PROVE  taken' + Len(buffer') + (m + n) = produced'
  BY <1>5, <1>8
<1>9. taken + Len(buffer) + m = produced
  BY <1>6 DEF LossInv
<1>10. taken' = taken /\ Len(buffer') = Len(buffer) /\ produced' = produced + n
  BY <1>1, <1>3
<1> QED BY ONLY <1>2, <1>7, <1>9, <1>10, m \in Nat

LEMMA LossNext ==
    PipeInv /\ CallersFit /\ ResetAll /\ Fine /\ StreamInv /\ LossInv /\ [Next]_vars => LossInv'
<1> SUFFICES ASSUME PipeInv, CallersFit, ResetAll, Fine, StreamInv, LossInv, [Next]_vars
             PROVE  LossInv'
  OBVIOUS
<1>0. TransfersInv /\ StreamOrder /\ failures \in Nat
  BY PipeFacts DEF StreamInv, PipeType
<1>1. CASE Quiet
  <2>1. UNCHANGED <<tasks, buffer, taken, produced, failures>>
    BY <1>1, QuietKeeps
  <2>2. (Resetting => Resetting') /\ Unfinished' = Unfinished
    BY <1>1, <2>1, QuietResetting, TasksUnchanged
  <2> QED BY <2>1, <2>2, LossKept
<1>2. ASSUME NEW kind, NEW t, TaskStep(kind, t) PROVE LossInv'
  <2>1. /\ TaskRuns(kind, t) /\ t \in TaskIds /\ tasks[t] \in TaskRecords
        /\ UNCHANGED <<pc, taken, produced, failures>>
    BY <1>2 DEF TaskStep, TaskRuns, usbVars
  <2>2. CASE tasks[t].state \in {"created", "notified"} /\ Proceed(t)
    <3>1. PICK new \in TaskRecords :
              /\ SetTask(t, new) /\ UNCHANGED buffer /\ new.state # "over"
              /\ new.from = tasks[t].from /\ new.to = tasks[t].to
      BY <2>1, <2>2, ProceedFacts
    <3> QED BY <2>1, <2>2, <3>1, OneTaskLoss
  <2>3. CASE /\ tasks[t].state \in {"created", "notified"} => tasks[t].mustCancel
             /\ Outcome(t) \in {"error", "cancelled"} /\ End(t)
    BY <2>1, <2>3, EndsOnly DEF LossInv, Resetting
  <2>4. CASE Retires(t)
    <3> DEFINE new == [tasks[t] EXCEPT !.state = "cancelling"]
    <3>1. /\ new \in TaskRecords /\ new.state = "cancelling" /\ SetTask(t, new) /\ UNCHANGED buffer
          /\ new.from = tasks[t].from /\ new.to = tasks[t].to /\ tasks[t].state # "over"
      BY <2>1, <2>4 DEF Retires, HasToCancel, TaskRecords, TaskState
    <3> HIDE DEF new
    <3> QED BY <2>1, <3>1, OneTaskLoss
  <2>5. CASE kind = "wake" /\ Outcome(t) = "ok" /\ Store(t)
    BY <2>1, <2>5, StoreLoss
  <2> QED BY <1>2, <2>2, <2>3, <2>4, <2>5 DEF TaskStep
<1>3. CASE UsbOrCallback
  <2>1. UNCHANGED <<pc, buffer, taken, produced, failures>>
    BY <1>3 DEF UsbOrCallback, usbVars, pipeVars, TransferCallback, UsbCancelled
  <2>2. \/ UNCHANGED tasks
        \/ \E t \in TaskIds, new \in TaskRecords :
              /\ SetTask(t, new) /\ new.from = tasks[t].from /\ new.to = tasks[t].to
              /\ tasks[t].state # "over" /\ new.state # "over"
    BY <1>0, <1>3, TransferTasks DEF UsbOrCallback
  <2>3. CASE UNCHANGED tasks
    <3>1. Unfinished' = Unfinished /\ (Resetting => Resetting')
      BY <2>1, <2>3, TasksUnchanged DEF Resetting
    <3> QED BY <2>1, <2>3, <3>1, LossKept
  <2> QED BY <2>1, <2>2, <2>3, OneTaskLoss
<1>4. ASSUME NEW kind, NEW t, Refuses(kind, t) PROVE LossInv'
  <2>1. failures' = failures + 1
    BY <1>4 DEF Refuses
  <2>2. failures' # 0
    BY <1>0, <2>1
  <2> QED BY <2>2 DEF LossInv
<1> QED BY <1>0, <1>1, <1>2, <1>3, <1>4, CompleteLoss, ReadsLoss, ResetsLoss, StepKinds

LEMMA LossAlways == Spec => []LossInv
<1>1. Init => LossInv
  <2> SUFFICES ASSUME Init PROVE LossInv
    OBVIOUS
  <2>1. PipeInv /\ \A t \in TaskIds : tasks[t] = Task(0, 0)
    BY InitialTasks, PipeInit
  <2>2. Unfinished \subseteq TaskIds /\ IsFiniteSet(Unfinished)
    BY <2>1, UnfinishedCounts
  <2>3. \A t \in Unfinished : Amount(tasks, t) = 0
    <3>1. Task(0, 0).from = 0 /\ Task(0, 0).to = 0
      BY TaskType
    <3> QED BY <2>1, <2>2, <3>1 DEF Amount
  <2>4. Total(tasks, Unfinished) = 0
    BY <2>2, <2>3, TotalNothing
  <2>5. taken = 0 /\ Len(buffer) = 0 /\ produced = 0
    BY DEF Init
  <2> QED BY <2>4, <2>5 DEF LossInv
<1> QED BY <1>1, LossNext, PipeAlways, CallersAlways, ResetAlways, FineAlways, StreamAlways, PTL DEF Spec

(* Every byte the device has produced was read, is in the buffer or is in a *)
(* transfer that the event loop has yet to look at, until one fails.        *)
THEOREM NothingLost == Spec => []NoByteLost
<1>1. LossInv => NoByteLost
  BY DEF LossInv, NoByteLost, Resetting, Total, Stored, MapThenSumSet, MapThenFoldSet
<1> QED BY <1>1, LossAlways, PTL

--------------------------------------------------------------------------------
(* The stream that is the abstract specification of the pipe *)

(* Unfinished tasks whose transfers have completed with data. *)
Loaded == {t \in Unfinished : tasks[t].urb = "ok" /\ Stored(t) > 0}

(* What holds of their data also while reset() cancels the tasks: no byte  *)
(* is in two places, and none is behind one that is yet to be stored.      *)
Apart ==
    /\ \A t, u \in Loaded : t # u => tasks[t].to <= tasks[u].from \/ tasks[u].to <= tasks[t].from
    /\ \A t \in Loaded : \A i \in DOMAIN buffer : buffer[i] <= tasks[t].from

SameData(S) == \A t \in S : tasks'[t].from = tasks[t].from /\ tasks'[t].to = tasks[t].to

(* The ways in which a step can change the data that the pipe has: ... *)
Keeps == Loaded' = Loaded /\ SameData(Loaded)

Stays == Keeps /\ UNCHANGED <<buffer, produced>>

(* ... bytes are read, ... *)
Shrinks ==
    /\ Keeps /\ UNCHANGED produced
    /\ \E n \in 1..Len(buffer) : buffer' = SubSeq(buffer, n + 1, Len(buffer))

(* ... a transfer brings some, or fails, ... *)
Arrives(t) ==
    /\ t \notin Loaded /\ Loaded' = Loaded \cup {t} /\ SameData(Loaded)
    /\ tasks'[t].from = produced /\ tasks'[t].to = produced'
    /\ produced' \in Nat /\ produced < produced' /\ UNCHANGED buffer

Fails == Keeps /\ produced' \in Nat /\ produced <= produced' /\ UNCHANGED buffer

(* ... the first of them are stored, or a reset takes them away. *)
Stores(t) ==
    /\ t \in Loaded /\ Loaded' = Loaded \ {t} /\ SameData(Loaded \ {t})
    /\ buffer' = buffer \o Bytes(t) /\ UNCHANGED produced
    /\ \A u \in Loaded : u # t => tasks[t].to <= tasks[u].from

Drops ==
    /\ Loaded' \subseteq Loaded /\ SameData(Loaded')
    /\ buffer' \in {buffer, <<>>} /\ UNCHANGED produced

LEMMA LoadedFacts ==
    ASSUME PipeInv
    PROVE  /\ Loaded \subseteq Unfinished /\ IsFiniteSet(Loaded)
           /\ \A t \in Loaded : /\ t \in TaskIds /\ tasks[t].urb = "ok" /\ tasks[t].state # "over"
                                /\ tasks[t].from \in Nat /\ tasks[t].to \in Nat
                                /\ tasks[t].from < tasks[t].to /\ tasks[t].to <= produced
<1>1. Loaded \subseteq Unfinished /\ Unfinished \subseteq TaskIds /\ IsFiniteSet(Unfinished)
  BY FiniteSets DEF Loaded, Unfinished
<1>2. IsFiniteSet(Loaded)
  BY <1>1, FS_Subset
<1>3. ASSUME NEW t \in Loaded
      PROVE  /\ t \in TaskIds /\ tasks[t].urb = "ok" /\ tasks[t].state # "over"
             /\ tasks[t].from \in Nat /\ tasks[t].to \in Nat
             /\ tasks[t].from < tasks[t].to /\ tasks[t].to <= produced
  <2>1. t \in TaskIds /\ tasks[t].urb = "ok" /\ tasks[t].state # "over" /\ Stored(t) > 0
    BY <1>1 DEF Loaded, Unfinished, Over
  <2>2. /\ tasks[t].from \in Nat /\ tasks[t].to \in Nat /\ Stored(t) = tasks[t].to - tasks[t].from
        /\ tasks[t].to <= produced
    BY <2>1, BytesParts DEF PipeInv, DataFits
  <2> QED BY <2>1, <2>2
<1> QED BY <1>1, <1>2, <1>3

LEMMA ApartMoves ==
    ASSUME PipeInv, Apart, Stays \/ Shrinks \/ (\E t : Arrives(t)) \/ Fails \/ (\E t : Stores(t)) \/ Drops
    PROVE  Apart'
<1>1. /\ \A t, u \in Loaded : t # u => tasks[t].to <= tasks[u].from \/ tasks[u].to <= tasks[t].from
      /\ \A t \in Loaded : \A i \in DOMAIN buffer : buffer[i] <= tasks[t].from
      /\ \A t \in Loaded : /\ tasks[t].from \in Nat /\ tasks[t].to \in Nat
                           /\ tasks[t].from < tasks[t].to /\ tasks[t].to <= produced
  BY LoadedFacts DEF Apart
<1>2. /\ produced \in Nat /\ DOMAIN buffer = 1..Len(buffer) /\ Len(buffer) \in Nat
      /\ buffer \in Seq(1..produced) /\ \A i \in DOMAIN buffer : buffer[i] \in 1..produced
  BY PipeFacts
<1>3. ASSUME Loaded' \subseteq Loaded, SameData(Loaded'),
             \A i \in DOMAIN buffer' : \E j \in DOMAIN buffer : buffer'[i] = buffer[j]
      PROVE  Apart'
  BY <1>1, <1>3 DEF Apart, SameData
<1>4. CASE Stays \/ Fails
  BY <1>3, <1>4 DEF Stays, Fails, Keeps
<1>5. CASE Shrinks
  <2>1. PICK n \in 1..Len(buffer) : buffer' = SubSeq(buffer, n + 1, Len(buffer))
    BY <1>5 DEF Shrinks
  <2>2. n \in 0..Len(buffer)
    BY <1>2
  <2>3. /\ DOMAIN buffer' = 1..(Len(buffer) - n)
        /\ \A i \in 1..(Len(buffer) - n) : buffer'[i] = buffer[n + i]
    BY <1>2, <2>1, <2>2, SplitParts
  <2>4. \A i \in DOMAIN buffer' : n + i \in DOMAIN buffer
    BY <1>2, <2>2, <2>3
  <2> QED BY <1>3, <1>5, <2>3, <2>4 DEF Shrinks, Keeps
<1>6. CASE Drops
  <2>1. \A i \in DOMAIN buffer' : \E j \in DOMAIN buffer : buffer'[i] = buffer[j]
    BY <1>6 DEF Drops
  <2> QED BY <1>3, <1>6, <2>1 DEF Drops
<1>7. ASSUME NEW n, Arrives(n) PROVE Apart'
  <2>1. /\ n \notin Loaded /\ Loaded' = Loaded \cup {n} /\ buffer' = buffer
        /\ \A t \in Loaded : tasks'[t].from = tasks[t].from /\ tasks'[t].to = tasks[t].to
        /\ tasks'[n].from = produced
    BY <1>7 DEF Arrives, SameData
  <2>2. \A i \in DOMAIN buffer : buffer[i] <= produced
    BY <1>2
  <2> QED BY <1>1, <1>2, <2>1, <2>2 DEF Apart
<1>8. ASSUME NEW n, Stores(n) PROVE Apart'
  <2>1. /\ n \in Loaded /\ Loaded' = Loaded \ {n} /\ buffer' = buffer \o Bytes(n)
        /\ \A t \in Loaded : t # n => /\ tasks'[t].from = tasks[t].from /\ tasks'[t].to = tasks[t].to
                                      /\ tasks[n].to <= tasks[t].from
    BY <1>8 DEF Stores, SameData
  <2>2. n \in TaskIds
    BY <2>1, LoadedFacts
  <2>3. /\ DOMAIN buffer' = 1..(Len(buffer) + Stored(n)) /\ DOMAIN Bytes(n) = 1..Stored(n)
        /\ \A i \in DOMAIN buffer : buffer'[i] = buffer[i]
        /\ \A i \in 1..Stored(n) : buffer'[Len(buffer) + i] = tasks[n].from + i
        /\ Stored(n) = tasks[n].to - tasks[n].from /\ Stored(n) \in Nat
    <3>1. Len(Bytes(n)) = Stored(n)
      BY <2>2, BytesParts
    <3>2. /\ DOMAIN Bytes(n) = 1..Stored(n) /\ \A i \in 1..Stored(n) : Bytes(n)[i] = tasks[n].from + i
          /\ Stored(n) = tasks[n].to - tasks[n].from /\ Stored(n) \in Nat
      BY <2>2, BytesParts
    <3>3. /\ DOMAIN buffer' = 1..(Len(buffer) + Stored(n))
          /\ \A i \in DOMAIN buffer : buffer'[i] = buffer[i]
          /\ \A i \in DOMAIN Bytes(n) : buffer'[Len(buffer) + i] = Bytes(n)[i]
      BY <2>1, <2>2, <3>1, StoredParts
    <3> QED BY <3>2, <3>3
  <2>4. ASSUME NEW i \in DOMAIN buffer', NEW t \in Loaded', i \notin DOMAIN buffer
        PROVE  buffer'[i] <= tasks[t].from
    <3>1. PICK j \in 1..Stored(n) : i = Len(buffer) + j
      <4>1. i - Len(buffer) \in 1..Stored(n) /\ i = Len(buffer) + (i - Len(buffer))
        BY <1>2, <2>3, <2>4
      <4> QED BY <4>1
    <3>2. tasks[n].to <= tasks[t].from /\ tasks[t].from \in Nat
      BY <1>1, <2>1
    <3>3. tasks[n].from \in Nat /\ tasks[n].to \in Nat
      BY <1>1, <2>1
    <3>4. buffer'[i] = tasks[n].from + j /\ j <= tasks[n].to - tasks[n].from
      BY <2>3, <3>1, <3>3
    <3> QED BY <3>1, <3>2, <3>3, <3>4
  <2>5. \A i \in DOMAIN buffer', t \in Loaded' : buffer'[i] <= tasks[t].from
    BY <1>1, <2>1, <2>3, <2>4
  <2> QED BY <1>1, <2>1, <2>5 DEF Apart
<1> QED BY <1>4, <1>5, <1>6, <1>7, <1>8

(* A task that moves on, with the data it has. *)
LEMMA KeepsOneTask ==
    ASSUME PipeInv, NEW t \in TaskIds, NEW new \in TaskRecords, SetTask(t, new),
           tasks[t].state # "over", new.state # "over",
           new.from = tasks[t].from, new.to = tasks[t].to,
           new.urb = "ok" <=> tasks[t].urb = "ok"
    PROVE  Keeps
<1>1. TaskIds' = TaskIds /\ tasks'[t] = new /\ \A u \in TaskIds : u # t => tasks'[u] = tasks[u]
  BY PipeFacts, TypeFacts, SetTaskProperties
<1>2. Unfinished' = Unfinished /\ Unfinished \subseteq TaskIds
  BY <1>1 DEF Unfinished, Over
<1>3. \A u \in Unfinished : /\ tasks'[u].from = tasks[u].from /\ tasks'[u].to = tasks[u].to
                            /\ tasks'[u].urb = "ok" <=> tasks[u].urb = "ok"
  BY <1>1, <1>2
<1> QED BY <1>2, <1>3 DEF Keeps, SameData, Loaded, Stored

LEMMA KeepsSame ==
    ASSUME UNCHANGED tasks
    PROVE  Keeps
<1>1. Unfinished' = Unfinished
  BY TasksUnchanged
<1> QED BY <1>1 DEF Keeps, SameData, Loaded, Stored

LEMMA StreamReads ==
    ASSUME PipeInv, NEW c \in Callers, RecvRead(c) \/ RecvUntilRead(c)
    PROVE  Shrinks /\ UNCHANGED failures /\ (Resetting' <=> Resetting)
<1>1. PICK n \in 1..Len(buffer) : Read(c, n)
  BY ReadCase
<1>2. /\ tasks' = Notified /\ UNCHANGED <<produced, failures>>
      /\ pc' = pc \/ (pc[c] # "cancel" /\ pc' = [pc EXCEPT ![c] = "run"])
      /\ buffer' = SubSeq(buffer, n + 1, Len(buffer))
  BY <1>1, ReadFacts DEF RecvRead, RecvUntilRead, usbVars, Read
<1>3. Resetting' <=> Resetting
  BY <1>2, PipeFacts DEF Resetting
<1>4. Unfinished' = Unfinished /\ Unfinished \subseteq TaskIds
  BY <1>2, NotifiedUnfinished DEF Unfinished
<1>5. \A u \in Unfinished : /\ tasks'[u].from = tasks[u].from /\ tasks'[u].to = tasks[u].to
                            /\ tasks'[u].urb = tasks[u].urb
  BY <1>2, <1>4, NotifiedProperties
<1>6. Keeps
  BY <1>4, <1>5 DEF Keeps, SameData, Loaded, Stored
<1> QED BY <1>2, <1>3, <1>6 DEF Shrinks

LEMMA StreamCallReset ==
    ASSUME PipeInv, NEW c \in Callers, CallReset(c)
    PROVE  Stays /\ UNCHANGED failures /\ ~Resetting /\ Resetting'
<1>1. /\ pc' = [pc EXCEPT ![c] = "cancel"] /\ \A d \in Callers : pc[d] # "cancel"
      /\ tasks' = Cancelled /\ UNCHANGED <<buffer, produced, failures>>
  BY PipeFacts, CancelQueueProperties DEF CallReset, usbVars
<1>2. ~Resetting /\ Resetting'
  <2>1. pc'[c] = "cancel"
    BY <1>1, PipeFacts
  <2> QED BY <1>1, <2>1 DEF Resetting
<1>3. /\ TaskIds' = TaskIds
      /\ \A t \in TaskIds : /\ tasks'[t].from = tasks[t].from /\ tasks'[t].to = tasks[t].to
                            /\ tasks'[t].urb = tasks[t].urb
                            /\ tasks'[t].state = "over" <=> tasks[t].state = "over"
  BY <1>1, PipeFacts, CancelledProperties DEF TaskIds
<1>4. Unfinished' = Unfinished /\ Unfinished \subseteq TaskIds
  BY <1>3 DEF Unfinished, Over
<1>5. Keeps
  BY <1>3, <1>4 DEF Keeps, SameData, Loaded, Stored
<1> QED BY <1>1, <1>2, <1>5 DEF Stays

LEMMA StreamEndCancel ==
    ASSUME PipeInv, CallersFit, ResetAll, NEW c \in Callers, EndCancel(c)
    PROVE  Drops /\ Resetting /\ UNCHANGED failures
<1>1. /\ UNCHANGED <<failures, produced>> /\ running = c /\ pc[c] = "cancel"
      /\ UNCHANGED <<tasks, buffer>> \/ (StartTasks(Len(tasks)) /\ buffer' = <<>>)
  BY DEF EndCancel, Clear, usbVars
<1>2. Unfinished = {}
  BY <1>1, NothingLeft DEF ResetAll
<1>3. Loaded' = {}
  <2>1. CASE UNCHANGED tasks
    BY <1>2, <2>1, KeepsSame DEF Keeps, Loaded
  <2>2. CASE StartTasks(Len(tasks))
    <3>1. /\ \A t \in TaskIds : tasks'[t] = tasks[t]
          /\ \A t \in TaskIds' \ TaskIds : tasks'[t] = Task(0, 0)
      BY <2>2, StartFacts
    <3>2. \A t \in Unfinished' : t \in TaskIds' \ TaskIds
      BY <1>2, <3>1 DEF Unfinished, Over
    <3>3. Task(0, 0).urb # "ok"
      BY DEF Task
    <3> QED BY <3>1, <3>2, <3>3 DEF Loaded
  <2> QED BY <1>1, <2>1, <2>2
<1> QED BY <1>1, <1>3 DEF Drops, SameData, Resetting

(* A task that is over takes its data with it. *)
LEMMA LoadedEnds ==
    ASSUME PipeInv, NEW t \in TaskIds, NEW new \in TaskRecords, SetTask(t, new), new.state = "over"
    PROVE  Loaded' = Loaded \ {t} /\ SameData(Loaded \ {t})
<1>1. TaskIds' = TaskIds /\ tasks'[t] = new /\ \A u \in TaskIds : u # t => tasks'[u] = tasks[u]
  BY PipeFacts, TypeFacts, SetTaskProperties
<1>2. Unfinished' = Unfinished \ {t} /\ Unfinished \subseteq TaskIds
  BY <1>1 DEF Unfinished, Over
<1>3. \A u \in Unfinished \ {t} : tasks'[u] = tasks[u]
  BY <1>1, <1>2
<1> QED BY <1>2, <1>3 DEF SameData, Loaded, Stored

LEMMA StreamStores ==
    ASSUME PipeInv, ResetAll, FlowInv, NEW t, TaskRuns("wake", t), Outcome(t) = "ok", Store(t)
    PROVE  Stays \/ Stores(t)
<1> SUFFICES ASSUME NEW n, n = Len(tasks) + 1 PROVE Stays \/ Stores(t)
  OBVIOUS
<1>1. /\ t \in TaskIds /\ tasks[t].state = "completed" /\ n \notin TaskIds /\ n # t
      /\ TaskIds' = TaskIds \cup {n} /\ tasks'[n] = Task(0, 0) /\ tasks'[t] = Ended("ok")
      /\ \A u \in TaskIds : u # t => tasks'[u] = tasks[u]
      /\ buffer' = buffer \o Bytes(t) /\ tasks[t].urb = "ok"
      /\ UNCHANGED usbVars
  BY StoreFacts, ZenonT(30), SMTT(30)
<1>2. Task(0, 0).urb = "none" /\ Ended("ok").state = "over"
  BY EndedType DEF Outcomes, Task
<1>3. /\ \A u \in Unfinished' : (u = n /\ tasks'[u].urb = "none") \/ (u \in Unfinished \ {t} /\ tasks'[u] = tasks[u])
      /\ \A u \in Unfinished \ {t} : u \in Unfinished' /\ tasks'[u] = tasks[u]
  BY <1>1, <1>2 DEF Unfinished, Over
<1>4. Loaded' = Loaded \ {t} /\ SameData(Loaded \ {t})
  <2>1. \A u \in Loaded' : u \in Loaded \ {t}
    BY <1>3 DEF Loaded, Stored
  <2>2. \A u \in Loaded \ {t} : u \in Loaded' /\ tasks'[u] = tasks[u]
    BY <1>3 DEF Loaded, Stored
  <2> QED BY <2>1, <2>2 DEF SameData
<1>5. CASE Stored(t) > 0
  <2>1. t \in Loaded
    BY <1>1, <1>5 DEF Loaded, Unfinished, Over
  <2>2. ASSUME NEW u \in Loaded, u # t PROVE tasks[t].to <= tasks[u].from
    <3>1. /\ ~Resetting
          /\ \A v \in TaskIds : v # t /\ Holds(tasks[v]) => tasks[t].to <= tasks[v].from
      BY StoreAhead
    <3>2. u \in TaskIds /\ tasks[u].urb = "ok" /\ tasks[u].state # "over"
      BY LoadedFacts
    <3>3. ~Doomed(u)
      BY <3>1, <3>2, DoomedResets
    <3>4. TaskFits(tasks[u]) /\ tasks[u] \in TaskRecords
      BY <3>2, PipeFacts, TypeFacts DEF TransfersInv
    <3>5. tasks[u].state \in {"inflight", "completed"}
      BY <3>2, <3>3, <3>4 DEF Doomed, TaskFits, TaskRecords, TaskState
    <3> QED BY <2>2, <3>1, <3>2, <3>5 DEF Holds
  <2> QED BY <1>1, <1>4, <2>1, <2>2 DEF Stores, usbVars
<1>6. CASE ~(Stored(t) > 0)
  <2>1. t \notin Loaded
    BY <1>6 DEF Loaded
  <2>2. buffer' = buffer
    <3>1. /\ buffer \in Seq(1..produced) /\ Bytes(t) \in Seq(1..produced) /\ Len(Bytes(t)) = 0
      BY <1>1, <1>6, BytesParts, PipeFacts
    <3>2. Bytes(t) = <<>>
      BY <3>1, EmptySeq
    <3> QED BY <1>1, <3>1, <3>2, ConcatEmptySeq
  <2> QED BY <1>1, <1>4, <2>1, <2>2 DEF Stays, Keeps, SameData, usbVars
<1> QED BY <1>5, <1>6

LEMMA StreamTasks ==
    ASSUME PipeInv, ResetAll, FlowInv, NEW kind, NEW t, TaskStep(kind, t)
    PROVE  /\ UNCHANGED <<pc, failures>>
           /\ Stays \/ Stores(t) \/ (Drops /\ Resetting)
<1>1. /\ TaskRuns(kind, t) /\ t \in TaskIds /\ tasks[t] \in TaskRecords /\ TaskFits(tasks[t])
      /\ UNCHANGED <<pc, taken, produced, failures>>
  BY DEF TaskStep, TaskRuns, usbVars
<1>2. CASE tasks[t].state \in {"created", "notified"} /\ Proceed(t)
  <2>1. PICK new \in TaskRecords :
            /\ SetTask(t, new) /\ UNCHANGED buffer /\ new.state # "over"
            /\ new.from = tasks[t].from /\ new.to = tasks[t].to
            /\ new.urb \in {tasks[t].urb, "submitted"}
    BY <1>1, <1>2, ProceedFacts
  <2>2. tasks[t].urb = "none" /\ tasks[t].state # "over"
    BY <1>1, <1>2 DEF TaskFits
  <2>3. Keeps
    BY <1>1, <2>1, <2>2, KeepsOneTask
  <2> QED BY <1>1, <2>1, <2>3 DEF Stays
<1>3. CASE /\ tasks[t].state \in {"created", "notified"} => tasks[t].mustCancel
           /\ Outcome(t) \in {"error", "cancelled"} /\ End(t)
  <2>1. PICK new \in TaskRecords : SetTask(t, new) /\ UNCHANGED buffer /\ new.state = "over"
    BY <1>3, EndedType DEF End, Outcomes
  <2>2. Loaded' = Loaded \ {t} /\ SameData(Loaded \ {t})
    BY <1>1, <2>1, LoadedEnds
  <2>3. CASE t \in Loaded
    <3>1. Doomed(t)
      <4>1. kind \in {"start", "wake"} /\ KindFits(kind, tasks[t]) /\ tasks[t].urb = "ok"
        BY <1>1, <2>3, LoadedFacts DEF TaskRuns
      <4>2. tasks[t].state \in {"created", "notified", "completed", "cancelled", "retired"}
        BY <4>1 DEF KindFits
      <4> QED BY <1>3, <4>1, <4>2 DEF Doomed, Outcome
    <3>2. Resetting
      BY <1>1, <2>3, <3>1, LoadedFacts, DoomedResets
    <3> QED BY <1>1, <2>1, <2>2, <3>2 DEF Drops
  <2>4. CASE t \notin Loaded
    <3>1. Loaded \ {t} = Loaded
      BY <2>4
    <3> QED BY <1>1, <2>1, <2>2, <3>1 DEF Stays, Keeps
  <2> QED BY <2>3, <2>4
<1>4. CASE Retires(t)
  <2> DEFINE new == [tasks[t] EXCEPT !.state = "cancelling"]
  <2>1. /\ new \in TaskRecords /\ new.state = "cancelling" /\ SetTask(t, new) /\ UNCHANGED buffer
        /\ new.from = tasks[t].from /\ new.to = tasks[t].to /\ tasks[t].state # "over"
        /\ new.urb = tasks[t].urb
    BY <1>1, <1>4 DEF Retires, HasToCancel, TaskRecords, TaskState
  <2> HIDE DEF new
  <2>2. Keeps
    BY <1>1, <2>1, KeepsOneTask
  <2> QED BY <1>1, <2>1, <2>2 DEF Stays
<1>5. CASE kind = "wake" /\ Outcome(t) = "ok" /\ Store(t)
  BY <1>1, <1>5, StreamStores
<1> QED BY <1>1, <1>2, <1>3, <1>4, <1>5 DEF TaskStep

(* A task whose transfer cannot be submitted takes no data with it. *)
LEMMA StreamRefuses ==
    ASSUME PipeInv, NEW kind, NEW t, Refuses(kind, t)
    PROVE  Stays /\ UNCHANGED pc /\ failures' = failures + 1
<1>1. UNCHANGED <<pc, buffer, produced>> /\ failures' = failures + 1
  BY DEF Refuses, pipeVars
<1>2. t \in TaskIds /\ tasks[t].urb = "none"
  BY RefusedTask
<1>3. PICK new \in TaskRecords : SetTask(t, new) /\ new.state = "over"
  BY RefusedTask
<1>4. Loaded' = Loaded \ {t} /\ SameData(Loaded \ {t})
  BY <1>2, <1>3, LoadedEnds
<1>5. t \notin Loaded
  BY <1>2 DEF Loaded
<1>6. Loaded \ {t} = Loaded
  BY <1>5
<1> QED BY <1>1, <1>4, <1>6 DEF Stays, Keeps

LEMMA StreamTransfers ==
    ASSUME PipeInv, UsbOrCallback
    PROVE  Stays /\ UNCHANGED <<pc, failures>>
<1>1. UNCHANGED <<pc, buffer, taken, produced, failures>>
  BY DEF UsbOrCallback, usbVars, pipeVars, TransferCallback, UsbCancelled
<1>2. \/ UNCHANGED tasks
      \/ \E t \in TaskIds, new \in TaskRecords :
            /\ SetTask(t, new) /\ new.from = tasks[t].from /\ new.to = tasks[t].to
            /\ \/ tasks[t].state = "inflight" /\ new.state = "completed" /\ new.urb = tasks[t].urb
               \/ /\ tasks[t].state = "cancelling" /\ new.state \in {"retired", "cancelling"}
                  /\ new.urb \in {tasks[t].urb, "cancelled"}
  BY PipeFacts, TransferTasks DEF UsbOrCallback
<1>3. ASSUME NEW t \in TaskIds, NEW new \in TaskRecords,
             SetTask(t, new), new.from = tasks[t].from, new.to = tasks[t].to,
             \/ tasks[t].state = "inflight" /\ new.state = "completed" /\ new.urb = tasks[t].urb
             \/ /\ tasks[t].state = "cancelling" /\ new.state \in {"retired", "cancelling"}
                /\ new.urb \in {tasks[t].urb, "cancelled"}
      PROVE  Keeps
  <2>1. TaskFits(tasks[t])
    BY PipeFacts DEF TransfersInv
  <2>2. new.urb = "ok" <=> tasks[t].urb = "ok"
    BY <1>3, <2>1 DEF TaskFits
  <2> QED BY <1>3, <2>2, KeepsOneTask
<1> QED BY <1>1, <1>2, <1>3, KeepsSame DEF Stays

(* A transfer completes: with data, without, or with an error. *)
LEMMA StreamCompletes ==
    ASSUME PipeInv, UsbComplete
    PROVE  /\ UNCHANGED pc
           /\ \/ UNCHANGED failures /\ (Stays \/ \E t : Arrives(t))
              \/ failures' = failures + 1 /\ Fails
<1>1. PICK t \in TaskIds, n \in 0..XferSize, status \in {"ok", "error"}, new \in TaskRecords :
            /\ tasks[t].urb = "submitted" /\ tasks[t].state \in {"inflight", "cancelled"}
            /\ produced' = produced + n /\ new.urb = status /\ new.from = produced
            /\ new.to = IF status = "ok" THEN produced + n ELSE produced
            /\ failures' = IF status = "error" THEN failures + 1 ELSE failures
            /\ new.state = tasks[t].state /\ SetTask(t, new) /\ UNCHANGED <<pc, pipeVars>>
  BY CompleteFacts
<1>2. /\ produced \in Nat /\ n \in Nat /\ produced' \in Nat /\ produced <= produced'
      /\ UNCHANGED <<pc, buffer>>
  BY <1>1, PipeFacts DEF pipeVars
<1>3. /\ TaskIds' = TaskIds /\ tasks'[t] = new
      /\ \A u \in TaskIds : u # t => tasks'[u] = tasks[u]
  BY <1>1, PipeFacts, TypeFacts, SetTaskProperties
<1>4. Unfinished' = Unfinished /\ Unfinished \subseteq TaskIds /\ t \in Unfinished
  BY <1>1, <1>3 DEF Unfinished, Over
<1>5. t \notin Loaded /\ \A u \in Loaded : u \in TaskIds
  BY <1>1, LoadedFacts DEF Loaded
<1>6. SameData(Loaded)
  BY <1>3, <1>5 DEF SameData
<1>7. \A u \in Unfinished : u # t => tasks'[u] = tasks[u]
  BY <1>3, <1>4
<1>8. t \in Loaded' <=> status = "ok" /\ n > 0
  <2>1. t \in Loaded' <=> new.urb = "ok" /\ new.to - new.from > 0
    BY <1>3, <1>4 DEF Loaded, Stored
  <2> QED BY <1>1, <1>2, <2>1
<1>9. \A u : u # t => (u \in Loaded' <=> u \in Loaded)
  BY <1>4, <1>7 DEF Loaded, Stored
<1>10. CASE status = "ok" /\ n > 0
  <2>1. Loaded' = Loaded \cup {t}
    BY <1>8, <1>9, <1>10
  <2>2. /\ tasks'[t].from = produced /\ tasks'[t].to = produced' /\ produced < produced'
        /\ failures' = failures
    BY <1>1, <1>2, <1>3, <1>10
  <2> QED BY <1>2, <1>5, <1>6, <2>1, <2>2 DEF Arrives
<1>11. CASE ~(status = "ok" /\ n > 0)
  <2>1. Loaded' = Loaded
    BY <1>5, <1>8, <1>9, <1>11
  <2>2. status = "ok" => produced' = produced
    BY <1>1, <1>2, <1>11
  <2> QED BY <1>1, <1>2, <1>6, <2>1, <2>2 DEF Stays, Keeps, Fails
<1> QED BY <1>10, <1>11

LEMMA ApartNext ==
    PipeInv /\ CallersFit /\ ResetAll /\ FlowInv /\ Apart /\ [Next]_vars => Apart'
<1> SUFFICES ASSUME PipeInv, CallersFit, ResetAll, FlowInv, Apart, [Next]_vars PROVE Apart'
  OBVIOUS
<1>1. CASE Quiet
  <2>1. UNCHANGED <<tasks, buffer, produced>>
    BY <1>1, QuietKeeps
  <2> QED BY <2>1, KeepsSame, ApartMoves DEF Stays
<1>2. ASSUME NEW c \in Callers, RecvRead(c) \/ RecvUntilRead(c) PROVE Apart'
  BY <1>2, StreamReads, ApartMoves
<1>3. ASSUME NEW c \in Callers, CallReset(c) \/ EndCancel(c) PROVE Apart'
  BY <1>3, StreamCallReset, StreamEndCancel, ApartMoves
<1>4. ASSUME NEW kind, NEW t, TaskStep(kind, t) PROVE Apart'
  <2>1. Stays \/ Stores(t) \/ Drops
    BY <1>4, StreamTasks
  <2> QED BY <2>1, ApartMoves
<1>5. CASE UsbOrCallback
  BY <1>5, StreamTransfers, ApartMoves
<1>6. CASE UsbComplete
  BY <1>6, StreamCompletes, ApartMoves
<1>7. ASSUME NEW kind, NEW t, Refuses(kind, t) PROVE Apart'
  BY <1>7, StreamRefuses, ApartMoves
<1> QED BY <1>1, <1>2, <1>3, <1>4, <1>5, <1>6, <1>7, StepKinds

LEMMA NothingLoaded ==
    ASSUME Init
    PROVE  Loaded = {}
<1>1. Task(0, 0).urb # "ok"
  BY DEF Task
<1> QED BY <1>1, InitialTasks DEF Loaded

LEMMA ApartAlways == Spec => []Apart
<1>1. Init => Apart
  BY NothingLoaded DEF Apart
<1> QED BY <1>1, ApartNext, PipeAlways, CallersAlways, ResetAlways, FlowAlways, PTL DEF Spec

(* The queue of the abstract specification lists the bytes that have been  *)
(* sent and not read.                                                      *)
Queue == buffer \o Arrived

Buffered == {x \in Nat : \E i \in DOMAIN buffer : buffer[i] = x}

Outstanding ==
    Buffered \cup {x \in Nat : \E t \in Loaded : tasks[t].from < x /\ x <= tasks[t].to}

Listed == Lists(Queue, Outstanding)

LEMMA BufferLists ==
    ASSUME PipeInv, StreamOrder
    PROVE  Lists(buffer, Buffered)
<1>1. /\ buffer \in Seq(1..produced) /\ Len(buffer) \in Nat /\ DOMAIN buffer = 1..Len(buffer)
      /\ \A i \in DOMAIN buffer : buffer[i] \in 1..produced
      /\ produced \in Nat
  BY PipeFacts
<1>2. PICK n \in Nat : n = Len(buffer)
  BY <1>1
<1> SUFFICES ASSUME NEW q, q = buffer PROVE Lists(q, Buffered)
  OBVIOUS
<1>3. /\ q \in Seq(1..produced) /\ Len(q) = n /\ DOMAIN q = 1..n
      /\ \A i \in 1..n : q[i] \in Nat
  BY <1>1, <1>2
<1>4. \A i \in 1..n : i # 1 => q[i] > q[i - 1]
  BY <1>2, <1>3 DEF StreamOrder
<1> DEFINE K == {k \in Nat : \A j \in 1..n : j <= k => \A i \in 1..n : i < j => q[i] < q[j]}
<1>5. Nat \subseteq K
  <2>1. 0 \in K
    OBVIOUS
  <2>2. ASSUME NEW k \in Nat, k \in K PROVE k + 1 \in K
    <3> SUFFICES ASSUME NEW j \in 1..n, j = k + 1, NEW i \in 1..n, i < j PROVE q[i] < q[j]
      BY <2>2
    <3>1. j - 1 \in 1..n /\ j - 1 = k /\ j # 1 /\ i <= k
      OBVIOUS
    <3>2. q[j - 1] < q[j]
      BY <1>4, <3>1
    <3>3. i = j - 1 \/ q[i] < q[j - 1]
      BY <2>2, <3>1
    <3> QED BY <1>3, <3>1, <3>2, <3>3
  <2> HIDE DEF K
  <2> QED BY <2>1, <2>2, NaturalInduction
<1>6. Ascends(q)
  BY <1>3, <1>5 DEF Ascends
<1>7. q \in Seq(Nat)
  <2>1. 1..produced \subseteq Nat
    BY <1>1
  <2> QED BY <1>3, <2>1, SeqMonotonic
<1>8. Buffered = {x \in Nat : \E i \in 1..n : q[i] = x}
  BY <1>2, <1>3 DEF Buffered
<1> QED BY <1>2, <1>3, <1>6, <1>7, <1>8 DEF Lists

LEMMA CompleteSorted ==
    ASSUME PipeInv, Apart
    PROVE  /\ Complete \in Seq(Loaded)
           /\ \A t \in Loaded : \E i \in 1..Len(Complete) : Complete[i] = t
           /\ \A i, j \in 1..Len(Complete) : i < j => tasks[Complete[i]].from < tasks[Complete[j]].from
<1>0. PICK full : full = Loaded
  OBVIOUS
<1>1. PICK f : f = [t \in full |-> tasks[t].from]
  OBVIOUS
<1>2. Numbers(f, full)
  <2>1. IsFiniteSet(full) /\ \A t \in full : /\ f[t] = tasks[t].from /\ f[t] \in Nat
                                             /\ tasks[t].to \in Nat /\ f[t] < tasks[t].to
    BY <1>0, <1>1, LoadedFacts
  <2>2. \A t, u \in full : t # u => tasks[t].to <= f[u] \/ tasks[u].to <= f[t]
    BY <1>0, <1>1 DEF Apart
  <2>3. \A t, u \in full : f[t] = f[u] => t = u
    BY <2>1, <2>2
  <2> QED BY <2>1, <2>3 DEF Numbers
<1>3. PICK s : Sorted(s, f, full)
  BY <1>2, SortedExists
<1>4. ASSUME NEW q
      PROVE  Sorted(q, f, full) <=> /\ q \in [1..Cardinality(full) -> full]
                                    /\ \A i, j \in DOMAIN q : i < j => tasks[q[i]].from < tasks[q[j]].from
  BY <1>1 DEF Sorted
<1>5. Complete = CHOOSE q \in [1..Cardinality(full) -> full] :
                    \A i, j \in DOMAIN q : i < j => tasks[q[i]].from < tasks[q[j]].from
  BY <1>0 DEF Complete, Loaded
<1>6. Sorted(Complete, f, full)
  BY <1>3, <1>4, <1>5
<1>7. PICK q : q = Complete
  OBVIOUS
<1>8. /\ q \in Seq(full) /\ \A x \in full : \E i \in 1..Len(q) : q[i] = x
      /\ \A i, j \in 1..Len(q) : i < j => f[q[i]] < f[q[j]]
  <2>1. Sorted(q, f, full)
    BY <1>6, <1>7
  <2> QED BY ONLY <1>2, <2>1, SortedAll
<1>9. \A i \in 1..Len(q) : q[i] \in full
  BY <1>8, ElementOfSeq
<1>10. \A i, j \in 1..Len(q) : i < j => tasks[q[i]].from < tasks[q[j]].from
  BY <1>1, <1>8, <1>9
<1> QED BY <1>0, <1>7, <1>8, <1>10

LEMMA StreamListed ==
    ASSUME PipeInv, StreamOrder, Apart
    PROVE  Listed
<1>1. PICK h, n : h = Complete /\ n = Len(Complete)
  OBVIOUS
<1>2. /\ h \in Seq(Loaded) /\ \A t \in Loaded : \E i \in 1..Len(h) : h[i] = t
      /\ \A i, j \in 1..Len(h) : i < j => tasks[h[i]].from < tasks[h[j]].from
  BY <1>1, CompleteSorted
<1>3. n \in Nat /\ Len(h) = n /\ DOMAIN h = 1..n /\ \A i \in 1..n : h[i] \in Loaded
  BY <1>1, <1>2, LenProperties, ElementOfSeq
<1>4. PICK lo, hi : /\ lo = [i \in 1..n |-> tasks[h[i]].from]
                    /\ hi = [i \in 1..n |-> tasks[h[i]].to]
  OBVIOUS
<1>5. \A i \in 1..n : /\ lo[i] = tasks[h[i]].from /\ hi[i] = tasks[h[i]].to
                      /\ lo[i] \in Nat /\ hi[i] \in Nat /\ lo[i] < hi[i]
  BY <1>3, <1>4, LoadedFacts
<1>6. /\ lo \in [1..n -> Nat] /\ hi \in [1..n -> Nat]
      /\ \A i \in 1..n : lo[i] <= hi[i]
      /\ \A i, j \in 1..n : i < j => hi[i] <= lo[j]
  <2>1. ASSUME NEW i \in 1..n, NEW j \in 1..n, i < j PROVE hi[i] <= lo[j]
    <3>1. lo[i] < lo[j]
      BY <1>2, <1>3, <1>5, <2>1
    <3>2. h[i] # h[j]
      BY <1>5, <3>1
    <3>3. hi[i] <= lo[j] \/ hi[j] <= lo[i]
      BY <1>3, <1>5, <3>2 DEF Apart
    <3>4. /\ lo[i] \in Nat /\ hi[i] \in Nat /\ lo[j] \in Nat /\ hi[j] \in Nat /\ lo[j] < hi[j]
      BY <1>5
    <3> QED BY <3>1, <3>3, <3>4
  <2>2. \A i \in 1..n : lo[i] <= hi[i]
    BY <1>5
  <2>3. lo \in [1..n -> Nat] /\ hi \in [1..n -> Nat]
    BY <1>4, <1>5
  <2> QED BY <2>1, <2>2, <2>3
<1>7. PICK ss : ss = [i \in 1..n |-> [k \in 1..(hi[i] - lo[i]) |-> lo[i] + k]]
  OBVIOUS
<1>8. FlattenSeq(ss) = Arrived
  <2>1. DOMAIN Complete = 1..n /\ Complete = h
    BY <1>1, <1>3
  <2>2. \A i \in 1..n : [k \in 1..Stored(h[i]) |-> tasks[h[i]].from + k]
                           = [k \in 1..(hi[i] - lo[i]) |-> lo[i] + k]
    BY <1>5 DEF Stored
  <2> QED BY ZenonT(30), SMTT(30), <1>7, <2>1, <2>2 DEF Arrived
<1> DEFINE F == {x \in Nat : \E i \in 1..n : lo[i] < x /\ x <= hi[i]}
<1>9. Lists(FlattenSeq(ss), F)
  BY <1>3, <1>6, <1>7, RunsLists
<1>10. \A x \in Buffered, y \in F : x < y
  <2> SUFFICES ASSUME NEW x \in Buffered, NEW y \in F PROVE x < y
    OBVIOUS
  <2>1. PICK i \in DOMAIN buffer : x = buffer[i] /\ x \in Nat
    BY DEF Buffered
  <2>2. PICK k \in 1..n : lo[k] < y /\ y \in Nat
    OBVIOUS
  <2>3. x <= lo[k] /\ lo[k] \in Nat
    BY <1>3, <1>5, <2>1 DEF Apart
  <2> QED BY <2>1, <2>2, <2>3
<1>11. Lists(buffer \o FlattenSeq(ss), Buffered \cup F)
  <2> HIDE DEF F
  <2>1. PICK s, t, B : s = buffer /\ t = FlattenSeq(ss) /\ B = Buffered
    OBVIOUS
  <2>2. Lists(s, B) /\ Lists(t, F) /\ \A x \in B, y \in F : x < y
    BY <1>9, <1>10, <2>1, BufferLists
  <2>3. Lists(s \o t, B \cup F)
    BY ONLY <2>2, ListsConcat
  <2> QED BY <2>1, <2>3
<1>12. Buffered \cup F = Outstanding
  <2>1. ASSUME NEW x \in Nat
        PROVE  (\E i \in 1..n : lo[i] < x /\ x <= hi[i])
                  <=> (\E t \in Loaded : tasks[t].from < x /\ x <= tasks[t].to)
    <3>1. ASSUME NEW i \in 1..n, lo[i] < x, x <= hi[i]
          PROVE  \E t \in Loaded : tasks[t].from < x /\ x <= tasks[t].to
      BY <1>3, <1>5, <3>1
    <3>2. ASSUME NEW t \in Loaded, tasks[t].from < x, x <= tasks[t].to
          PROVE  \E i \in 1..n : lo[i] < x /\ x <= hi[i]
      <4>1. PICK i \in 1..n : h[i] = t
        BY <1>2, <1>3
      <4> QED BY <1>5, <3>2, <4>1
    <3> QED BY <3>1, <3>2
  <2> QED BY <2>1 DEF Outstanding
<1> QED BY <1>8, <1>11, <1>12 DEF Listed, Queue

LEMMA SameQueue ==
    ASSUME Listed, Listed', Outstanding' = Outstanding
    PROVE  Queue' = Queue
<1>1. PICK q, r, B : q = Queue /\ r = Queue' /\ B = Outstanding
  OBVIOUS
<1>2. Lists(q, B) /\ Lists(r, B)
  BY <1>1 DEF Listed
<1>3. q = r
  BY ONLY <1>2, ListsUnique
<1> QED BY <1>1, <1>3

LEMMA QueueKept ==
    ASSUME Listed, Listed', Keeps, UNCHANGED buffer
    PROVE  Queue' = Queue
<1>1. Outstanding' = Outstanding
  BY DEF Keeps, SameData, Outstanding, Buffered
<1> QED BY <1>1, SameQueue

(* The bytes of a transfer move to the buffer. *)
LEMMA QueueStored ==
    ASSUME PipeInv, Listed, Listed', NEW t, Stores(t)
    PROVE  Queue' = Queue
<1>1. /\ t \in Loaded /\ Loaded' = Loaded \ {t} /\ buffer' = buffer \o Bytes(t)
      /\ \A u \in Loaded \ {t} : tasks'[u].from = tasks[u].from /\ tasks'[u].to = tasks[u].to
  BY DEF Stores, SameData
<1>2. t \in TaskIds /\ DOMAIN buffer = 1..Len(buffer) /\ Len(buffer) \in Nat
  BY <1>1, LoadedFacts, PipeFacts
<1>3. PICK m \in Nat, a \in Nat, b \in Nat :
         m = Len(buffer) /\ a = tasks[t].from /\ b = tasks[t].to /\ Stored(t) = b - a /\ a < b
  BY <1>1, <1>2, LoadedFacts, BytesParts
<1>4. /\ DOMAIN buffer' = 1..(m + (b - a)) /\ DOMAIN buffer = 1..m
      /\ \A i \in 1..m : buffer'[i] = buffer[i]
      /\ \A i \in 1..(b - a) : buffer'[m + i] = a + i
  <2>1. /\ DOMAIN Bytes(t) = 1..Stored(t) /\ Len(Bytes(t)) = Stored(t)
        /\ \A i \in 1..Stored(t) : Bytes(t)[i] = tasks[t].from + i
    BY <1>2, BytesParts
  <2>2. /\ DOMAIN buffer' = 1..(Len(buffer) + Len(Bytes(t)))
        /\ \A i \in DOMAIN buffer : buffer'[i] = buffer[i]
        /\ \A i \in DOMAIN Bytes(t) : buffer'[Len(buffer) + i] = Bytes(t)[i]
    BY <1>1, <1>2, StoredParts
  <2> QED BY <1>2, <1>3, <2>1, <2>2
<1>5. ASSUME NEW x \in Nat
      PROVE  (\E i \in DOMAIN buffer' : buffer'[i] = x)
                <=> (\E i \in DOMAIN buffer : buffer[i] = x) \/ (a < x /\ x <= b)
  <2>1. ASSUME NEW i \in DOMAIN buffer', buffer'[i] = x
        PROVE  (\E j \in DOMAIN buffer : buffer[j] = x) \/ (a < x /\ x <= b)
    <3>1. CASE i \in 1..m
      BY <1>4, <2>1, <3>1
    <3>2. CASE i \notin 1..m
      <4>1. i - m \in 1..(b - a) /\ m + (i - m) = i
        BY <1>4, <3>2
      <4>2. buffer'[m + (i - m)] = a + (i - m)
        BY <1>4, <4>1
      <4> QED BY <2>1, <4>1, <4>2
    <3> QED BY <3>1, <3>2
  <2>2. ASSUME NEW i \in DOMAIN buffer, buffer[i] = x
        PROVE  \E j \in DOMAIN buffer' : buffer'[j] = x
    <3>1. i \in 1..m /\ i \in DOMAIN buffer'
      BY <1>3, <1>4
    <3> QED BY <1>4, <2>2, <3>1
  <2>3. ASSUME a < x, x <= b
        PROVE  \E j \in DOMAIN buffer' : buffer'[j] = x
    <3>1. x - a \in 1..(b - a) /\ m + (x - a) \in DOMAIN buffer' /\ a + (x - a) = x
      BY <1>4, <2>3
    <3> QED BY <1>4, <3>1
  <2> QED BY <2>1, <2>2, <2>3
<1>6. ASSUME NEW x \in Nat
      PROVE  (\E u \in Loaded : tasks[u].from < x /\ x <= tasks[u].to)
                <=> \/ a < x /\ x <= b
                    \/ \E u \in Loaded \ {t} : tasks[u].from < x /\ x <= tasks[u].to
  BY <1>1, <1>3
<1>7. Outstanding' = Buffered' \cup {x \in Nat : \E u \in Loaded \ {t} : tasks[u].from < x /\ x <= tasks[u].to}
  BY <1>1 DEF Outstanding
<1>8. Outstanding' = Outstanding
  BY <1>5, <1>6, <1>7 DEF Outstanding, Buffered
<1> QED BY <1>8, SameQueue

LEMMA OutstandingFacts ==
    ASSUME PipeInv
    PROVE  Outstanding \subseteq Nat /\ \A x \in Outstanding : x <= produced
<1>1. ASSUME NEW x \in Outstanding PROVE x \in Nat /\ x <= produced
  <2>1. CASE x \in Buffered
    <3>1. x \in Nat /\ \E i \in DOMAIN buffer : buffer[i] = x
      BY <2>1 DEF Buffered
    <3> QED BY <3>1, PipeFacts
  <2>2. CASE x \notin Buffered
    <3>1. PICK t \in Loaded : x \in Nat /\ x <= tasks[t].to
      BY <2>2 DEF Outstanding
    <3>2. tasks[t].to \in Nat /\ tasks[t].to <= produced /\ produced \in Nat
      BY LoadedFacts, PipeFacts
    <3> QED BY <3>1, <3>2
  <2> QED BY <2>1, <2>2
<1> QED BY <1>1

(* A transfer puts its bytes behind the others. *)
LEMMA QueueArrived ==
    ASSUME PipeInv, Listed, Listed', NEW t, Arrives(t)
    PROVE  Queue' = Queue \o [i \in 1..(produced' - produced) |-> produced + i]
<1>1. /\ Loaded' = Loaded \cup {t} /\ UNCHANGED buffer /\ t \notin Loaded
      /\ \A u \in Loaded : tasks'[u].from = tasks[u].from /\ tasks'[u].to = tasks[u].to
  BY DEF Arrives, SameData
<1>2. PICK w \in Nat, v \in Nat :
         /\ w = produced /\ v = produced' /\ w < v
         /\ tasks'[t].from = w /\ tasks'[t].to = v
  BY PipeFacts DEF Arrives
<1>3. PICK q, r, B, C : q = Queue /\ r = Queue' /\ B = Outstanding /\ C = (w + 1)..v
  OBVIOUS
<1>4. Outstanding' = B \cup C
  <2>1. ASSUME NEW x \in Nat
        PROVE  (\E u \in Loaded' : tasks'[u].from < x /\ x <= tasks'[u].to)
                  <=> (\E u \in Loaded : tasks[u].from < x /\ x <= tasks[u].to) \/ x \in C
    <3>1. x \in C <=> w < x /\ x <= v
      BY <1>3
    <3> QED BY <1>1, <1>2, <3>1
  <2>2. C \subseteq Nat
    BY <1>3
  <2>3. Buffered' = Buffered
    BY <1>1 DEF Buffered
  <2> QED BY <1>3, <2>1, <2>2, <2>3 DEF Outstanding
<1>5. \A x \in B, y \in C : x < y
  <2>1. \A x \in B : x \in Nat /\ x <= w
    BY <1>2, <1>3, OutstandingFacts
  <2>2. \A y \in C : y \in Nat /\ w < y
    BY <1>3
  <2> QED BY <2>1, <2>2
<1>6. PICK s : s = [i \in 1..(v - w) |-> w + i]
  OBVIOUS
<1>7. Lists(s, C)
  <2>1. w <= v
    BY <1>2
  <2>2. Lists([i \in 1..(v - w) |-> w + i], (w + 1)..v)
    BY <2>1, ListsRun
  <2> QED BY <1>3, <1>6, <2>2
<1>8. Lists(q, B) /\ Lists(r, B \cup C)
  BY <1>3, <1>4 DEF Listed
<1>9. Lists(q \o s, B \cup C)
  BY ONLY <1>5, <1>7, <1>8, ListsConcat
<1>10. r = q \o s
  BY ONLY <1>8, <1>9, ListsUnique
<1> QED BY <1>2, <1>3, <1>6, <1>10

(* Reading takes the first bytes, ... *)
LEMMA QueueRead ==
    ASSUME PipeInv, StreamOrder, Apart, Listed, Listed', Shrinks
    PROVE  \E n \in 0..Len(Queue) : Queue' = SubSeq(Queue, n + 1, Len(Queue))
<1>1. /\ buffer \in Seq(1..produced) /\ Len(buffer) \in Nat /\ DOMAIN buffer = 1..Len(buffer)
      /\ \A i \in DOMAIN buffer : buffer[i] \in 1..produced
      /\ produced \in Nat
  BY PipeFacts
<1>2. PICK m \in Nat : m = Len(buffer)
  BY <1>1
<1>3. PICK n \in 1..m : buffer' = SubSeq(buffer, n + 1, m)
  BY <1>2 DEF Shrinks
<1>4. /\ DOMAIN buffer' = 1..(m - n) /\ DOMAIN buffer = 1..m
      /\ \A i \in 1..(m - n) : buffer'[i] = buffer[n + i]
  <2>1. n \in 0..Len(buffer)
    BY <1>2
  <2> QED BY <1>1, <1>2, <1>3, <2>1, SplitParts
<1>5. PICK k \in Nat : k = buffer[n]
  BY <1>1, <1>4
<1>6. \A i, j \in 1..m : i < j => buffer[i] < buffer[j]
  <2>1. PICK s, B : s = buffer /\ B = Buffered
    OBVIOUS
  <2>2. Lists(s, B)
    BY <2>1, BufferLists
  <2>3. \A i, j \in 1..Len(s) : i < j => s[i] < s[j]
    BY <2>2, ListsAscend
  <2> QED BY <1>2, <2>1, <2>3
<1>7. \A i \in 1..m : buffer[i] \in Nat /\ (buffer[i] > k <=> i > n)
  <2> SUFFICES ASSUME NEW i \in 1..m PROVE buffer[i] \in Nat /\ (buffer[i] > k <=> i > n)
    OBVIOUS
  <2>1. buffer[i] \in Nat
    BY <1>1, <1>4
  <2>2. CASE i < n
    BY <1>5, <1>6, <2>1, <2>2
  <2>3. CASE i = n
    BY <1>5, <2>1, <2>3
  <2>4. CASE i > n
    BY <1>5, <1>6, <2>1, <2>4
  <2> QED BY <2>2, <2>3, <2>4
<1>8. ASSUME NEW x \in Nat
      PROVE  (\E i \in DOMAIN buffer' : buffer'[i] = x)
                <=> x > k /\ \E i \in DOMAIN buffer : buffer[i] = x
  <2>1. ASSUME NEW i \in DOMAIN buffer', buffer'[i] = x
        PROVE  x > k /\ \E j \in DOMAIN buffer : buffer[j] = x
    <3>1. n + i \in 1..m /\ n + i > n /\ buffer[n + i] = x
      BY <1>4, <2>1
    <3> QED BY <1>4, <1>7, <3>1
  <2>2. ASSUME NEW i \in DOMAIN buffer, buffer[i] = x, x > k
        PROVE  \E j \in DOMAIN buffer' : buffer'[j] = x
    <3>1. i \in 1..m /\ i > n
      BY <1>4, <1>7, <2>2
    <3>2. i - n \in 1..(m - n) /\ n + (i - n) = i
      BY <3>1
    <3> QED BY <1>4, <2>2, <3>2
  <2> QED BY <2>1, <2>2
<1>9. ASSUME NEW x \in Nat, NEW t \in Loaded, tasks[t].from < x PROVE x > k
  <2>1. n \in DOMAIN buffer
    BY <1>4
  <2>2. k <= tasks[t].from /\ tasks[t].from \in Nat
    BY <1>5, <2>1, LoadedFacts DEF Apart
  <2> QED BY <1>9, <2>2
<1>10. PICK q, r, B : q = Queue /\ r = Queue' /\ B = Outstanding
  OBVIOUS
<1>11. Outstanding' = {x \in B : x > k}
  <2>1. Outstanding' = Buffered' \cup {x \in Nat : \E t \in Loaded : tasks[t].from < x /\ x <= tasks[t].to}
    BY DEF Outstanding, Shrinks, Keeps, SameData
  <2>2. Buffered' = {x \in Buffered : x > k}
    BY <1>8 DEF Buffered
  <2> QED BY <1>9, <1>10, <2>1, <2>2 DEF Outstanding
<1>12. Lists(q, B) /\ Lists(r, {x \in B : x > k})
  BY <1>10, <1>11 DEF Listed
<1>13. \E i \in 0..Len(q) : r = SubSeq(q, i + 1, Len(q))
  BY <1>12, ListsAbove
<1> QED BY <1>10, <1>13

(* ... and what a reset takes away leaves the rest in order. *)
LEMMA QueueDrops ==
    ASSUME Listed, Listed', Drops
    PROVE  /\ \A i, j \in DOMAIN Queue' : i < j => Queue'[i] < Queue'[j]
           /\ {Queue'[i] : i \in DOMAIN Queue'} \subseteq {Queue[i] : i \in DOMAIN Queue}
<1>1. PICK q, r, B, C : q = Queue /\ r = Queue' /\ B = Outstanding /\ C = Outstanding'
  OBVIOUS
<1>2. C \subseteq B
  <2>1. Buffered' \subseteq Buffered
    <3>1. DOMAIN <<>> = {}
      OBVIOUS
    <3> QED BY <3>1 DEF Drops, Buffered
  <2> QED BY <1>1, <2>1 DEF Drops, SameData, Outstanding
<1>3. Lists(q, B) /\ Lists(r, C)
  BY <1>1 DEF Listed
<1>4. DOMAIN q = 1..Len(q) /\ DOMAIN r = 1..Len(r)
  BY <1>3, ListsFacts
<1>5. \A i, j \in DOMAIN r : i < j => r[i] < r[j]
  BY <1>3, <1>4 DEF Lists, Ascends
<1>6. {r[i] : i \in DOMAIN r} \subseteq {q[i] : i \in DOMAIN q}
  BY <1>2, <1>3, <1>4 DEF Lists
<1> QED BY <1>1, <1>5, <1>6

(* The steps of the abstract specification, with its variables as the pipe *)
(* gives them.                                                             *)
LEMMA StreamActions ==
    /\ Stream!Init <=> Queue = <<>> /\ produced = 0 /\ failures = 0 /\ Resetting = FALSE
    /\ UNCHANGED Stream!vars <=> UNCHANGED <<Queue, produced, failures, Resetting>>
    /\ Stream!Send <=> /\ produced' > produced
                       /\ Queue' = Queue \o [i \in 1..(produced' - produced) |-> produced + i]
                       /\ UNCHANGED <<failures, Resetting>>
    /\ Stream!Receive <=> /\ \E n \in 0..Len(Queue) : Queue' = SubSeq(Queue, n + 1, Len(Queue))
                          /\ UNCHANGED <<produced, failures, Resetting>>
    /\ Stream!Fail <=> /\ failures' = failures + 1 /\ produced' >= produced /\ UNCHANGED Resetting
                       /\ \E i, j \in 0..Len(Queue) :
                             i <= j /\ Queue' = SubSeq(Queue, 1, i) \o SubSeq(Queue, j + 1, Len(Queue))
    /\ Stream!StartReset <=> ~Resetting /\ Resetting' = TRUE /\ UNCHANGED <<Queue, produced, failures>>
    /\ Stream!Drop <=> /\ Resetting /\ Resetting' \in BOOLEAN /\ UNCHANGED <<produced, failures>>
                       /\ \A i, j \in DOMAIN Queue' : i < j => Queue'[i] < Queue'[j]
                       /\ {Queue'[i] : i \in DOMAIN Queue'} \subseteq {Queue[i] : i \in DOMAIN Queue}
<1>1. Stream!Init <=> Queue = <<>> /\ produced = 0 /\ failures = 0 /\ Resetting = FALSE
  BY DEF Stream!Init, Queue
<1>2. UNCHANGED Stream!vars <=> UNCHANGED <<Queue, produced, failures, Resetting>>
  BY DEF Stream!vars, Queue
<1>3. Stream!Send <=> /\ produced' > produced
                      /\ Queue' = Queue \o [i \in 1..(produced' - produced) |-> produced + i]
                      /\ UNCHANGED <<failures, Resetting>>
  BY DEF Stream!Send, Stream!Run, Queue
<1>4. Stream!Receive <=> /\ \E n \in 0..Len(Queue) : Queue' = SubSeq(Queue, n + 1, Len(Queue))
                         /\ UNCHANGED <<produced, failures, Resetting>>
  BY DEF Stream!Receive, Stream!Suffix, Queue
<1>5. Stream!Fail <=> /\ failures' = failures + 1 /\ produced' >= produced /\ UNCHANGED Resetting
                      /\ \E i, j \in 0..Len(Queue) :
                            i <= j /\ Queue' = SubSeq(Queue, 1, i) \o SubSeq(Queue, j + 1, Len(Queue))
  BY DEF Stream!Fail, Stream!Gap, Queue
<1>6. Stream!StartReset <=> ~Resetting /\ Resetting' = TRUE /\ UNCHANGED <<Queue, produced, failures>>
  BY DEF Stream!StartReset, Queue
<1>7. Stream!Drop <=> /\ Resetting /\ Resetting' \in BOOLEAN /\ UNCHANGED <<produced, failures>>
                      /\ \A i, j \in DOMAIN Queue' : i < j => Queue'[i] < Queue'[j]
                      /\ {Queue'[i] : i \in DOMAIN Queue'} \subseteq {Queue[i] : i \in DOMAIN Queue}
  BY DEF Stream!Drop, Stream!Ascending, Stream!Range, Queue
<1> QED BY <1>1, <1>2, <1>3, <1>4, <1>5, <1>6, <1>7

(* Nothing happens to the abstract specification. *)
LEMMA StreamStutters ==
    ASSUME PipeInv, Listed, Listed', Stays \/ (\E t : Stores(t)),
           UNCHANGED failures, Resetting' <=> Resetting
    PROVE  UNCHANGED Stream!vars
<1>1. Queue' = Queue /\ produced' = produced
  BY QueueKept, QueueStored DEF Stays, Stores
<1>2. Resetting' = Resetting
  BY DEF Resetting
<1> QED BY <1>1, <1>2, StreamActions

LEMMA StreamDrops ==
    ASSUME Listed, Listed', Drops, Resetting, UNCHANGED failures
    PROVE  Stream!Next
<1>1. Resetting' \in BOOLEAN /\ UNCHANGED produced
  BY DEF Resetting, Drops
<1>2. Stream!Drop
  BY <1>1, QueueDrops, StreamActions
<1> QED BY <1>2 DEF Stream!Next

(* The failure of a transfer, which takes no byte that was in the queue. *)
LEMMA StreamFails ==
    ASSUME PipeInv, Listed, Listed', Fails, failures' = failures + 1, Resetting' <=> Resetting
    PROVE  Stream!Next
<1>1. Queue' = Queue /\ produced' >= produced
  BY QueueKept, PipeFacts DEF Fails
<1>2. \E i, j \in 0..Len(Queue) :
         i <= j /\ Queue' = SubSeq(Queue, 1, i) \o SubSeq(Queue, j + 1, Len(Queue))
  <2>1. PICK q, B : q = Queue /\ B = Outstanding
    OBVIOUS
  <2>2. Lists(q, B)
    BY <2>1 DEF Listed
  <2>3. q \in Seq(Nat) /\ Len(q) \in Nat
    BY <2>2, ListsFacts
  <2>4. SubSeq(q, 1, 0) = <<>> /\ SubSeq(q, 0 + 1, Len(q)) = q
    BY <2>3
  <2>5. q = SubSeq(q, 1, 0) \o SubSeq(q, 0 + 1, Len(q)) /\ 0 \in 0..Len(q) /\ 0 <= 0
    BY <2>3, <2>4
  <2> QED BY <1>1, <2>1, <2>5
<1>3. Resetting' = Resetting
  BY DEF Resetting
<1>4. Stream!Fail
  BY <1>1, <1>2, <1>3, StreamActions
<1> QED BY <1>4 DEF Stream!Next

LEMMA StreamStep ==
    PipeInv /\ CallersFit /\ ResetAll /\ FlowInv /\ StreamOrder /\ Apart /\ Listed /\ Listed' /\ [Next]_vars
        => [Stream!Next]_(Stream!vars)
<1> SUFFICES ASSUME PipeInv, CallersFit, ResetAll, FlowInv, StreamOrder, Apart, Listed, Listed',
                    [Next]_vars
             PROVE  Stream!Next \/ UNCHANGED Stream!vars
  OBVIOUS
<1>1. CASE Quiet
  <2>1. UNCHANGED <<tasks, buffer, produced, failures>> /\ (Resetting' <=> Resetting)
    BY <1>1, QuietKeeps, QuietResetting
  <2> QED BY <2>1, KeepsSame, StreamStutters DEF Stays
<1>2. ASSUME NEW c \in Callers, RecvRead(c) \/ RecvUntilRead(c) PROVE Stream!Next
  <2>1. Shrinks /\ UNCHANGED <<produced, failures>> /\ (Resetting' <=> Resetting)
    BY <1>2, StreamReads DEF Shrinks
  <2>2. Resetting' = Resetting
    BY <2>1 DEF Resetting
  <2>3. Stream!Receive
    BY <2>1, <2>2, QueueRead, StreamActions
  <2> QED BY <2>3 DEF Stream!Next
<1>3. ASSUME NEW c \in Callers, CallReset(c) PROVE Stream!Next
  <2>1. Stays /\ UNCHANGED failures /\ ~Resetting /\ Resetting'
    BY <1>3, StreamCallReset
  <2>2. Queue' = Queue /\ UNCHANGED produced
    BY <2>1, QueueKept DEF Stays
  <2>3. Resetting' = TRUE
    BY <2>1 DEF Resetting
  <2>4. Stream!StartReset
    BY <2>1, <2>2, <2>3, StreamActions
  <2> QED BY <2>4 DEF Stream!Next
<1>4. ASSUME NEW c \in Callers, EndCancel(c) PROVE Stream!Next
  BY <1>4, StreamEndCancel, StreamDrops
<1>5. ASSUME NEW kind, NEW t, TaskStep(kind, t) PROVE Stream!Next \/ UNCHANGED Stream!vars
  <2>1. UNCHANGED <<pc, failures>> /\ (Stays \/ Stores(t) \/ (Drops /\ Resetting))
    BY <1>5, StreamTasks
  <2>2. Resetting' <=> Resetting
    BY <2>1 DEF Resetting
  <2> QED BY <2>1, <2>2, StreamStutters, StreamDrops
<1>6. CASE UsbOrCallback
  <2>1. UNCHANGED <<pc, failures>> /\ Stays
    BY <1>6, StreamTransfers
  <2>2. Resetting' <=> Resetting
    BY <2>1 DEF Resetting
  <2> QED BY <2>1, <2>2, StreamStutters
<1>7. CASE UsbComplete
  <2>1. UNCHANGED pc
    BY <1>7, StreamCompletes
  <2>2. (Resetting' <=> Resetting) /\ Resetting' = Resetting
    BY <2>1 DEF Resetting
  <2>3. CASE UNCHANGED failures /\ Stays
    BY <2>2, <2>3, StreamStutters
  <2>4. ASSUME UNCHANGED failures, NEW t, Arrives(t) PROVE Stream!Next
    <3>1. produced' > produced
      BY <2>4, PipeFacts DEF Arrives
    <3>2. Stream!Send
      BY <2>2, <2>4, <3>1, QueueArrived, StreamActions
    <3> QED BY <3>2 DEF Stream!Next
  <2>5. CASE failures' = failures + 1 /\ Fails
    BY <2>2, <2>5, StreamFails
  <2> QED BY <1>7, <2>3, <2>4, <2>5, StreamCompletes
<1>8. ASSUME NEW kind, NEW t, Refuses(kind, t) PROVE Stream!Next
  <2>1. Stays /\ UNCHANGED pc /\ failures' = failures + 1
    BY <1>8, StreamRefuses
  <2>2. Resetting' <=> Resetting
    BY <2>1 DEF Resetting
  <2>3. Fails
    BY <2>1, PipeFacts DEF Stays, Fails
  <2> QED BY <2>1, <2>2, <2>3, StreamFails
<1> QED BY <1>1, <1>2, <1>3, <1>4, <1>5, <1>6, <1>7, <1>8, StepKinds

(* The refinement: however many transfers complete at once and tasks are    *)
(* held back, the application reads the device's bytes in order and once,   *)
(* and only a reset or a failed transfer loses any.                         *)
THEOREM InPipeIsStream == Spec => IsByteStream
<1>1. ASSUME Init PROVE Stream!Init
  <2>1. /\ PipeInv /\ buffer = <<>> /\ produced = 0 /\ failures = 0 /\ \A c \in Callers : pc[c] # "cancel"
    BY <1>1, PipeInit DEF Init
  <2>2. DOMAIN buffer = {} /\ Loaded = {}
    BY <1>1, <2>1, NothingLoaded
  <2>3. StreamOrder /\ Apart
    BY <2>2 DEF StreamOrder, Apart
  <2>4. Outstanding = {}
    BY <2>2 DEF Outstanding, Buffered
  <2>5. Queue = <<>>
    <3>1. Listed
      BY <2>1, <2>3, StreamListed
    <3> QED BY <2>4, <3>1, ListsNothing DEF Listed
  <2>6. Resetting = FALSE
    BY <2>1 DEF Resetting
  <2> QED BY <2>1, <2>5, <2>6, StreamActions
<1>2. Init => Stream!Init
  BY <1>1
<1>3. PipeInv /\ StreamOrder /\ Apart => Listed
  BY StreamListed
<1> QED BY <1>2, <1>3, StreamStep, PipeAlways, CallersAlways, ResetAlways, FlowAlways, KeepsOrder,
           ApartAlways, PTL DEF Spec, IsByteStream, Stream!Spec

--------------------------------------------------------------------------------
(* Which bytes recv() and recv_until() return *)

(* What a recv_until() has collected comes before what is in the buffer,   *)
(* and right before it unless somebody else read in between.               *)
Collects(s, alone) ==
    /\ Ascending(s)
    /\ \A i \in DOMAIN s : s[i] <= taken
    /\ failures = 0 /\ alone /\ s # <<>> => Consecutive(s) /\ s[Len(s)] = taken

CollectedInv == \A c \in Callers : pc[c] = "until" => Collects(result[c], c \notin shared)

LEMMA EmptyCollects == Collects(<<>>, TRUE) /\ Collects(<<>>, FALSE)
<1>1. DOMAIN <<>> = {}
  OBVIOUS
<1> QED BY <1>1 DEF Collects, Ascending

LEMMA CollectedKept ==
    ASSUME CollectedInv, UNCHANGED taken, failures' = 0 => failures = 0,
           \A c \in Callers : pc'[c] = "until" =>
               \/ pc[c] = "until" /\ result'[c] = result[c] /\ (c \in shared => c \in shared')
               \/ result'[c] = <<>>
    PROVE  CollectedInv'
<1> SUFFICES ASSUME NEW c \in Callers, pc'[c] = "until" PROVE Collects(result[c], c \notin shared)'
  BY DEF CollectedInv
<1>1. CASE pc[c] = "until" /\ result'[c] = result[c] /\ (c \in shared => c \in shared')
  <2> SUFFICES ASSUME NEW s, s = result[c], s = result'[c]
               PROVE  Collects(result[c], c \notin shared)'
    BY <1>1
  <2>1. Collects(s, c \notin shared)
    BY <1>1 DEF CollectedInv
  <2>2. /\ Ascending(s) /\ \A i \in DOMAIN s : s[i] <= taken'
        /\ failures' = 0 /\ c \notin shared' /\ s # <<>> => Consecutive(s) /\ s[Len(s)] = taken'
    BY <1>1, <2>1 DEF Collects
  <2> QED BY <2>2 DEF Collects
<1>2. CASE result'[c] = <<>>
  <2>1. DOMAIN <<>> = {}
    OBVIOUS
  <2> QED BY <1>2, <2>1 DEF Collects, Ascending
<1> QED BY <1>1, <1>2

LEMMA BufferAscends ==
    ASSUME PipeInv, StreamOrder
    PROVE  /\ \A i, j \in DOMAIN buffer : i < j => buffer[i] < buffer[j]
           /\ \A i \in DOMAIN buffer : taken < buffer[i]
<1>1. /\ DOMAIN buffer = 1..Len(buffer) /\ Len(buffer) \in Nat /\ taken \in Nat
      /\ \A i \in DOMAIN buffer : buffer[i] \in Nat
  BY PipeFacts
<1>2. \A i, j \in DOMAIN buffer : i < j => buffer[i] < buffer[j]
  <2>1. PICK B : B = Buffered
    OBVIOUS
  <2>2. Lists(buffer, B)
    BY <2>1, BufferLists
  <2> QED BY <1>1, <2>2 DEF Lists, Ascends
<1>3. ASSUME NEW i \in DOMAIN buffer PROVE taken < buffer[i]
  <2>1. 1 \in DOMAIN buffer /\ (i = 1 \/ 1 < i)
    BY <1>1, <1>3
  <2>2. taken < buffer[1]
    BY <2>1 DEF StreamOrder
  <2>3. i = 1 \/ buffer[1] < buffer[i]
    BY <1>2, <2>1
  <2> QED BY <1>1, <2>1, <2>2, <2>3
<1> QED BY <1>2, <1>3

(* The first n bytes of the buffer, behind m that are before them. *)
Joins(q, r, m, b, n, k) ==
    /\ m \in Nat /\ n \in Nat /\ n > 0 /\ k \in Nat
    /\ DOMAIN r = 1..m /\ DOMAIN q = 1..(m + n)
    /\ \A i \in 1..m : q[i] = r[i] /\ r[i] \in Nat /\ r[i] <= k
    /\ \A i \in 1..n : q[m + i] = b[i] /\ b[i] \in Nat /\ k < b[i]
    /\ Ascending(r) /\ \A i, j \in 1..n : i < j => b[i] < b[j]

LEMMA JoinedRuns ==
    ASSUME NEW q, NEW r, NEW m, NEW b, NEW n, NEW k, Joins(q, r, m, b, n, k)
    PROVE  /\ Ascending(q) /\ \A i \in DOMAIN q : q[i] <= b[n]
           /\ /\ \A i \in 1..n : b[i] = k + i
              /\ m # 0 => Consecutive(r) /\ r[m] = k
              => Consecutive(q)
<1>0. /\ m \in Nat /\ n \in Nat /\ n > 0 /\ k \in Nat
      /\ DOMAIN r = 1..m /\ DOMAIN q = 1..(m + n)
      /\ \A i \in 1..m : q[i] = r[i] /\ r[i] \in Nat /\ r[i] <= k
      /\ \A i \in 1..n : q[m + i] = b[i] /\ b[i] \in Nat /\ k < b[i]
      /\ Ascending(r) /\ \A i, j \in 1..n : i < j => b[i] < b[j]
  BY DEF Joins
<1> USE <1>0
<1>1. \A i \in 1..(m + n) : \/ i \in 1..m /\ q[i] = r[i]
                            \/ \E l \in 1..n : i = m + l /\ q[i] = b[l]
  <2> TAKE i \in 1..(m + n)
  <2>1. CASE i <= m
    BY <2>1
  <2>2. CASE ~(i <= m)
    <3>1. i - m \in 1..n /\ i = m + (i - m)
      BY <2>2
    <3> QED BY <3>1
  <2> QED BY <2>1, <2>2
<1>2. ASSUME NEW i \in 1..(m + n), NEW j \in 1..(m + n), i < j PROVE q[i] < q[j]
  <2>1. CASE i \in 1..m /\ q[i] = r[i]
    <3>1. CASE j \in 1..m /\ q[j] = r[j]
      BY <1>2, <2>1, <3>1 DEF Ascending
    <3>2. ASSUME NEW l \in 1..n, j = m + l, q[j] = b[l] PROVE q[i] < q[j]
      BY <2>1, <3>2
    <3> QED BY <1>1, <3>1, <3>2
  <2>2. ASSUME NEW h \in 1..n, i = m + h, q[i] = b[h] PROVE q[i] < q[j]
    <3>1. j \notin 1..m
      BY <1>2, <2>2
    <3>2. PICK l \in 1..n : j = m + l /\ q[j] = b[l]
      BY <1>1, <3>1
    <3>3. h < l
      BY <1>2, <2>2, <3>2
    <3> QED BY <2>2, <3>2, <3>3
  <2> QED BY <1>1, <2>1, <2>2
<1>3. ASSUME NEW i \in 1..(m + n) PROVE q[i] <= b[n]
  <2>1. n \in 1..n
    OBVIOUS
  <2>2. CASE i \in 1..m /\ q[i] = r[i]
    BY <2>1, <2>2
  <2>3. ASSUME NEW l \in 1..n, q[i] = b[l] PROVE q[i] <= b[n]
    <3>1. l = n \/ l < n
      OBVIOUS
    <3> QED BY <2>1, <2>3, <3>1
  <2> QED BY <1>1, <2>2, <2>3
<1>4. ASSUME \A i \in 1..n : b[i] = k + i, m # 0 => Consecutive(r) /\ r[m] = k
      PROVE  Consecutive(q)
  <2>1. ASSUME m # 0
        PROVE  r[1] \in Nat /\ k = r[1] + m - 1 /\ \A i \in 1..m : r[i] = r[1] + i - 1
    <3>1. Consecutive(r) /\ r[m] = k /\ 1 \in 1..m /\ m \in 1..m
      BY <1>4, <2>1
    <3>2. \A i \in 1..m : r[i] = r[1] + i - 1
      BY <3>1 DEF Consecutive
    <3>3. r[m] = r[1] + m - 1
      BY ONLY <3>1, <3>2
    <3>4. r[1] \in Nat
      BY <3>1
    <3> QED BY <3>1, <3>2, <3>3, <3>4
  <2>2. q[1] = (k - m) + 1
    <3>1. CASE m = 0
      <4>1. 1 \in 1..n /\ q[1] = b[1] /\ b[1] = k + 1
        BY <1>4, <3>1
      <4> QED BY <3>1, <4>1
    <3>2. CASE m # 0
      BY <2>1, <3>2
    <3> QED BY <3>1, <3>2
  <2>3. ASSUME NEW i \in 1..(m + n) PROVE q[i] = (k - m) + i
    <3>1. CASE i \in 1..m /\ q[i] = r[i]
      <4>1. m # 0
        BY <3>1
      <4>2. r[1] \in Nat /\ k = r[1] + m - 1 /\ r[i] = r[1] + i - 1
        BY <2>1, <3>1, <4>1
      <4> QED BY <3>1, <4>2
    <3>2. ASSUME NEW l \in 1..n, i = m + l, q[i] = b[l] PROVE q[i] = (k - m) + i
      <4>1. b[l] = k + l
        BY <1>4
      <4> QED BY <3>2, <4>1
    <3> QED BY <1>1, <3>1, <3>2
  <2> QED BY <2>2, <2>3 DEF Consecutive
<1> QED BY <1>2, <1>3, <1>4 DEF Ascending

(* What recv() takes. *)
LEMMA RecvReadOrder ==
    ASSUME PipeInv, StreamOrder, NEW c \in Callers, RecvRead(c)
    PROVE  Ascending(result'[c]) /\ (failures = 0 => Consecutive(result'[c]))
<1>1. result'[c] = SubSeq(buffer, 1, arg[c]) /\ arg[c] <= Len(buffer)
  BY DEF RecvRead, PipeInv, PipeType
<1>2. arg[c] \in Nat /\ Len(buffer) \in Nat /\ DOMAIN buffer = 1..Len(buffer) /\ taken \in Nat
  BY PipeFacts DEF PipeInv, PipeType
<1> SUFFICES ASSUME NEW n, n = arg[c], NEW m, m = Len(buffer), NEW s, s = SubSeq(buffer, 1, n)
             PROVE  Ascending(s) /\ (failures = 0 => Consecutive(s))
  BY <1>1
<1>3. n \in 0..m
  BY <1>1, <1>2
<1>4. DOMAIN s = 1..n /\ \A i \in 1..n : s[i] = buffer[i] /\ i \in DOMAIN buffer
  <2>1. DOMAIN s = 1..n /\ \A i \in 1..n : s[i] = buffer[i]
    BY <1>3, TakenParts, Zenon
  <2> QED BY <1>2, <1>3, <2>1
<1>5. ASSUME NEW i \in DOMAIN s, NEW j \in DOMAIN s, i < j PROVE s[i] < s[j]
  <2>1. i \in DOMAIN buffer /\ j \in DOMAIN buffer /\ s[i] = buffer[i] /\ s[j] = buffer[j]
    BY <1>4
  <2>2. buffer[i] < buffer[j]
    BY <1>5, <2>1, BufferAscends
  <2> QED BY <2>1, <2>2
<1>6. ASSUME failures = 0, NEW i \in DOMAIN s PROVE s[i] = s[1] + i - 1
  <2>1. i \in 1..n /\ 1 \in 1..n /\ i \in Nat
    BY <1>3, <1>4
  <2>2. s[i] = buffer[i] /\ s[1] = buffer[1] /\ i \in DOMAIN buffer /\ 1 \in DOMAIN buffer
    BY <1>4, <2>1
  <2>3. buffer[i] = taken + i /\ buffer[1] = taken + 1
    BY <1>6, <2>2, BufferBytes
  <2> QED BY <1>2, <2>1, <2>2, <2>3
<1>7. Ascending(s)
  BY <1>5 DEF Ascending
<1>8. failures = 0 => Consecutive(s)
  BY <1>6 DEF Consecutive
<1> QED BY <1>7, <1>8

(* What recv_until() has after it took more. *)
LEMMA UntilReadOrder ==
    ASSUME PipeInv, StreamOrder, CollectedInv, NEW c \in Callers, RecvUntilRead(c)
    PROVE  /\ Ascending(result'[c])
           /\ \A i \in DOMAIN result'[c] : result'[c][i] <= taken'
           /\ failures = 0 /\ c \notin shared
                => Consecutive(result'[c]) /\ result'[c][Len(result'[c])] = taken'
<1>1. pc[c] = "until" /\ taken' = buffer[UntilFirst]
  BY DEF RecvUntilRead, Read
<1> SUFFICES ASSUME NEW q, q = result'[c], NEW r, r = result[c], NEW n, n = UntilFirst,
                    NEW m, m = Len(result[c])
             PROVE  /\ Ascending(q) /\ \A i \in DOMAIN q : q[i] <= taken'
                    /\ failures = 0 /\ c \notin shared => Consecutive(q) /\ q[Len(q)] = taken'
  OBVIOUS
<1>2. /\ n \in 1..Len(buffer) /\ Len(q) = m + n /\ m \in Nat /\ DOMAIN q = 1..(m + n)
      /\ \A i \in DOMAIN q : \/ i \in DOMAIN r /\ q[i] = r[i]
                             \/ i - m \in 1..n /\ q[i] = buffer[i - m]
  BY UntilReadResult, ZenonT(30), SMTT(30)
<1>3. r \in Seq(1..produced) /\ DOMAIN r = 1..m
  <2>1. r \in Seq(1..produced)
    BY DEF PipeInv, PipeType
  <2> QED BY <2>1, LenProperties
<1>4. /\ Collects(r, c \notin shared) /\ Len(buffer) \in Nat /\ taken \in Nat
      /\ DOMAIN buffer = 1..Len(buffer) /\ \A i \in DOMAIN buffer : buffer[i] \in Nat
  BY <1>1, PipeFacts DEF CollectedInv
<1>5. n \in Nat /\ n > 0
  BY <1>2, <1>4
<1>6. ASSUME NEW i \in 1..m PROVE r[i] \in Nat /\ r[i] <= taken
  <2>1. r[i] <= taken
    BY <1>3, <1>4 DEF Collects
  <2>2. r[i] \in 1..produced
    <3>1. i \in 1..Len(r)
      BY <1>2, <1>3, LenProperties
    <3> QED BY <1>3, <3>1, ElementOfSeq
  <2> QED BY <2>1, <2>2, PipeFacts
<1>7. /\ \A i \in 1..n : buffer[i] \in Nat /\ taken < buffer[i] /\ i \in DOMAIN buffer
      /\ \A i, j \in 1..n : i < j => buffer[i] < buffer[j]
  <2>1. \A i \in 1..n : i \in DOMAIN buffer
    BY <1>2, <1>4
  <2> QED BY <1>4, <2>1, BufferAscends, ZenonT(30)
<1>8. \A i \in 1..m : q[i] = r[i]
  <2> SUFFICES ASSUME NEW i \in 1..m PROVE q[i] = r[i]
    OBVIOUS
  <2>1. i \in DOMAIN q /\ i - m \notin 1..n
    BY <1>2, <1>5
  <2> QED BY <1>2, <2>1
<1>9. \A i \in 1..n : q[m + i] = buffer[i]
  <2> SUFFICES ASSUME NEW i \in 1..n PROVE q[m + i] = buffer[i]
    OBVIOUS
  <2>1. m + i \in DOMAIN q /\ m + i \notin DOMAIN r /\ (m + i) - m = i
    BY <1>2, <1>3, <1>5
  <2> QED BY <1>2, <2>1
<1>10. Ascending(r)
  BY <1>4 DEF Collects
<1>11. /\ Ascending(q) /\ \A i \in DOMAIN q : q[i] <= buffer[n]
       /\ /\ \A i \in 1..n : buffer[i] = taken + i
          /\ m # 0 => Consecutive(r) /\ r[m] = taken
          => Consecutive(q)
  <2>1. Joins(q, r, m, buffer, n, taken)
    BY ONLY <1>2, <1>3, <1>4, <1>5, <1>6, <1>7, <1>8, <1>9, <1>10 DEF Joins
  <2> QED BY ONLY <2>1, JoinedRuns
<1>12. ASSUME failures = 0, c \notin shared PROVE Consecutive(q) /\ q[Len(q)] = taken'
  <2>1. \A i \in 1..n : buffer[i] = taken + i
    BY <1>7, <1>12, BufferBytes
  <2>2. m # 0 => r # <<>>
    BY <1>3, EmptySeq
  <2>3. m # 0 => Consecutive(r) /\ r[m] = taken
    BY <1>4, <1>12, <2>2 DEF Collects
  <2>4. q[m + n] = buffer[n]
    BY <1>5, <1>9
  <2> QED BY <1>1, <1>2, <1>11, <2>1, <2>3, <2>4
<1> QED BY <1>1, <1>11, <1>12

LEMMA ReadsCollect ==
    ASSUME PipeInv, StreamOrder, CollectedInv, NEW d \in Callers, RecvRead(d) \/ RecvUntilRead(d)
    PROVE  CollectedInv'
<1>1. /\ pc \in [Callers -> {"idle", "called", "run", "recv", "until", "cancel"}]
      /\ result \in [Callers -> Seq(1..produced)] /\ UNCHANGED failures
  BY PipeFacts DEF PipeType, RecvRead, RecvUntilRead, usbVars
<1>2. PICK n \in 1..Len(buffer) : Read(d, n)
  <2>1. CASE RecvRead(d)
    <3>1. pc[d] = "recv" /\ Read(d, arg[d]) /\ arg[d] <= Len(buffer)
      BY <2>1, PipeFacts DEF RecvRead, PipeType
    <3>2. arg[d] \in RecvSizes
      BY <3>1 DEF PipeInv, ArgFits
    <3>3. arg[d] \in Nat \ {0} /\ Len(buffer) \in Nat
      BY <3>2, InPipeAssumption, PipeFacts
    <3>4. arg[d] \in 1..Len(buffer)
      <4> SUFFICES ASSUME NEW a, a = arg[d] PROVE a \in 1..Len(buffer)
        OBVIOUS
      <4> QED BY <3>1, <3>3
    <3> QED BY <3>1, <3>4
  <2>2. CASE RecvUntilRead(d)
    BY <2>2, UntilFirstFits DEF RecvUntilRead
  <2> QED BY <2>1, <2>2
<1>3. taken' \in Nat /\ taken \in Nat /\ taken < taken'
  <2>1. n \in DOMAIN buffer /\ taken' = buffer[n]
    BY <1>2, PipeFacts DEF Read
  <2> QED BY <2>1, PipeFacts, BufferAscends
<1> SUFFICES ASSUME NEW c \in Callers, pc'[c] = "until" PROVE Collects(result[c], c \notin shared)'
  BY DEF CollectedInv
<1>4. CASE c = d
  <2>1. RecvUntilRead(c)
    BY <1>1, <1>4 DEF RecvRead
  <2>2. c \in shared => c \in shared'
    BY <1>2 DEF Read
  <2>3. c \notin shared' => c \notin shared
    BY <2>2
  <2>4. /\ Ascending(result'[c]) /\ \A i \in DOMAIN result'[c] : result'[c][i] <= taken'
        /\ failures = 0 /\ c \notin shared
             => Consecutive(result'[c]) /\ result'[c][Len(result'[c])] = taken'
    BY <2>1, UntilReadOrder
  <2> QED BY <1>1, <2>3, <2>4 DEF Collects
<1>5. CASE c # d
  <2>1. pc[c] = "until" /\ result'[c] = result[c]
    BY <1>1, <1>5 DEF RecvRead, RecvUntilRead
  <2>2. result[c] = <<>> \/ c \in shared'
    BY <1>2, <1>5, <2>1 DEF Read
  <2> SUFFICES ASSUME NEW s, s = result[c], s = result'[c]
               PROVE  Collects(result[c], c \notin shared)'
    BY <2>1
  <2>3. Ascending(s) /\ \A i \in DOMAIN s : s[i] <= taken
    BY <2>1 DEF CollectedInv, Collects
  <2>4. \A i \in DOMAIN s : s[i] <= taken'
    <3>1. s \in Seq(1..produced) /\ DOMAIN s = 1..Len(s)
      <4>1. s \in Seq(1..produced)
        BY <1>1
      <4> QED BY <4>1, LenProperties
    <3>2. \A i \in DOMAIN s : s[i] \in 1..produced
      BY <3>1, ElementOfSeq
    <3>3. \A i \in DOMAIN s : s[i] \in Nat
      BY <3>2, PipeFacts
    <3> QED BY <1>3, <2>3, <3>3
  <2> QED BY <2>2, <2>3, <2>4 DEF Collects
<1> QED BY <1>4, <1>5

LEMMA QuietCollects ==
    ASSUME PipeInv, CollectedInv, NEW d \in Callers, QuietCaller(d)
    PROVE  CollectedInv'
<1>1. /\ pc \in [Callers -> {"idle", "called", "run", "recv", "until", "cancel"}]
      /\ result \in [Callers -> Seq(1..produced)]
  BY PipeFacts DEF PipeType
<1>2. UNCHANGED <<taken, failures>>
  BY QuietKeeps DEF Quiet
<1>3. CASE Yields(d)
  <2>1. /\ pc' = [pc EXCEPT ![d] = "idle"] /\ result' = [result EXCEPT ![d] = <<>>]
        /\ shared' = shared \ {d}
    BY <1>3 DEF Yields, Yield
  <2> QED BY <1>1, <1>2, <2>1, CollectedKept
<1>4. CASE CallRecvUntil(d)
  <2>1. /\ pc' = [pc EXCEPT ![d] = "until"] /\ result' = [result EXCEPT ![d] = <<>>]
        /\ shared' = shared \ {d}
    BY <1>4 DEF CallRecvUntil, Calls
  <2> QED BY <1>1, <1>2, <2>1, CollectedKept
<1>5. CASE CallRecv(d)
  <2>1. pc' = [pc EXCEPT ![d] = "recv"] /\ UNCHANGED <<result, shared>>
    BY <1>5 DEF CallRecv, Calls
  <2> QED BY <1>1, <1>2, <2>1, CollectedKept
<1>6. CASE CallerWakes(d) /\ Untouched
  <2>1. pc' = [pc EXCEPT ![d] = "called"] /\ UNCHANGED <<result, shared>>
    BY <1>6 DEF CallerWakes, Untouched, callVars
  <2> QED BY <1>1, <1>2, <2>1, CollectedKept
<1>7. CASE Resume(d) /\ UNCHANGED <<pipeVars, usbVars, callVars>>
  <2>1. (pc' = pc \/ pc' = [pc EXCEPT ![d] = "run"]) /\ UNCHANGED <<result, shared>>
    BY <1>7 DEF Resume, Poll, callVars
  <2> QED BY <1>1, <1>2, <2>1, CollectedKept
<1>8. CASE RecvWait(d)
  <2>1. /\ UNCHANGED <<result, shared>>
        /\ WaitOne(d) \/ (pc' = [pc EXCEPT ![d] = "run"] /\ UNCHANGED <<ready, running, waitFor>>)
    BY <1>8 DEF RecvWait, callVars
  <2>2. pc' = pc \/ pc' = [pc EXCEPT ![d] = "run"]
    BY <2>1 DEF WaitOne, Poll
  <2> QED BY <1>1, <1>2, <2>1, <2>2, CollectedKept
<1> QED BY <1>3, <1>4, <1>5, <1>6, <1>7, <1>8 DEF QuietCaller

LEMMA CollectedNext ==
    PipeInv /\ CallersFit /\ StreamOrder /\ CollectedInv /\ [Next]_vars => CollectedInv'
<1> SUFFICES ASSUME PipeInv, CallersFit, StreamOrder, CollectedInv, [Next]_vars PROVE CollectedInv'
  OBVIOUS
<1>0. failures \in Nat /\ TransfersInv
      /\ pc \in [Callers -> {"idle", "called", "run", "recv", "until", "cancel"}]
  BY PipeFacts DEF PipeType
<1>1. ASSUME UNCHANGED <<pc, taken, result, shared>>, failures' = failures \/ failures' = failures + 1
      PROVE  CollectedInv'
  <2>1. failures' = 0 => failures = 0
    BY <1>0, <1>1
  <2> QED BY <1>1, <2>1, CollectedKept
<1>2. Quiet => (\E d \in Callers : QuietCaller(d)) \/ UNCHANGED <<pc, taken, result, shared, failures>>
  BY DEF Quiet, TaskCallback, LateCompleted, Untouched, pipeVars, usbVars, callVars, vars
<1>3. ASSUME NEW d \in Callers, CallReset(d) \/ EndCancel(d) PROVE CollectedInv'
  <2>1. \A c \in Callers : pc'[c] # "until"
    <3>1. CASE CallReset(d)
      BY <1>0, <3>1, CancelQueueProperties DEF CallReset
    <3>2. CASE EndCancel(d)
      BY <1>0, <3>2 DEF EndCancel, CallersFit, Outside
    <3> QED BY <1>3, <3>1, <3>2
  <2> QED BY <2>1 DEF CollectedInv
<1>4. ASSUME NEW kind, NEW t, TaskStep(kind, t)
      PROVE  UNCHANGED <<pc, taken, result, shared, failures>>
  BY <1>4 DEF TaskStep, TaskRuns, usbVars, callVars
<1>5. ASSUME NEW kind, NEW t, Refuses(kind, t)
      PROVE  UNCHANGED <<pc, taken, result, shared>> /\ failures' = failures + 1
  BY <1>5 DEF Refuses, pipeVars, callVars
<1>6. UsbOrCallback => UNCHANGED <<pc, taken, result, shared, failures>>
  BY DEF UsbOrCallback, TransferCallback, UsbCancelled, pipeVars, usbVars, callVars
<1>7. UsbComplete => /\ UNCHANGED <<pc, taken, result, shared>>
                     /\ failures' = failures \/ failures' = failures + 1
  BY CompleteFacts DEF pipeVars, callVars
<1> QED BY <1>1, <1>2, <1>3, <1>4, <1>5, <1>6, <1>7, QuietCollects, ReadsCollect, StepKinds

LEMMA CollectedAlways == Spec => []CollectedInv
<1>1. Init => CollectedInv
  BY DEF Init, CollectedInv
<1> QED BY <1>1, CollectedNext, PipeAlways, CallersAlways, KeepsOrder, PTL DEF Spec

(* recv() returns as many bytes as it was asked for, and recv_until() bytes *)
(* with a delimiter at their end and nowhere else.  Both return them in the *)
(* order in which the device sent them, and none is missing in between      *)
(* unless a transfer has failed or, for recv_until(), somebody else read    *)
(* from the pipe meanwhile.                                                 *)
THEOREM ReadsExact == Spec => RecvExact
<1> DEFINE Exact(c) ==
               /\ RecvRead(c) => /\ Len(result'[c]) = arg[c] /\ Ascending(result'[c])
                                 /\ failures = 0 => Consecutive(result'[c])
               /\ RecvUntilRead(c) /\ pc'[c] = "run" =>
                     /\ \A i \in DOMAIN result'[c] :
                           result'[c][i] \in Delimiters <=> i = Len(result'[c])
                     /\ Ascending(result'[c])
                     /\ failures = 0 /\ c \notin shared => Consecutive(result'[c])
<1>1. PipeInv /\ UntilFits /\ StreamOrder /\ CollectedInv => [\A c \in Callers : Exact(c)]_vars
  <2>1. ASSUME PipeInv, UntilFits, StreamOrder, CollectedInv, NEW c \in Callers PROVE Exact(c)
    BY <2>1, RecvReadResult, RecvReadOrder, UntilReadFits, UntilReadOrder
  <2> QED BY <2>1
<1> QED BY <1>1, PipeAlways, UntilAlways, KeepsOrder, CollectedAlways, PTL DEF RecvExact

================================================================================
