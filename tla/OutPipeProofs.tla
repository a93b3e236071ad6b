----------------------------- MODULE OutPipeProofs -----------------------------
(***************************************************************************)
(* Theorems about OutPipe, for every packet size, queue depth, limit of    *)
(* the buffer, chunk size, number of callers, of failures and of resets.   *)
(*                                                                         *)
(* The inductive invariant IInv says what each scheduled handle may find   *)
(* when it runs, and that a task is scheduled once: this is what makes the *)
(* tasks and the transfers of the pipe stay in step.  That bytes stay in   *)
(* order, that flush() delivers and that reset() leaves nothing behind     *)
(* rests on more invariants, each proved from those before it: which       *)
(* callers may run, what the host controller holds, what reset() waits     *)
(* for, in which order tasks are started, and what flush() has seen.  What *)
(* also a reset keeps is the order of the transfers, and that no byte is   *)
(* in two of them (StreamInv): on it rests the refinement of ByteStream.   *)
(***************************************************************************)
EXTENDS OutPipeStream, Totals, SequenceTheorems

(* What a scheduled handle finds in the tasks `ts` when it runs. *)
HandleFits(h, ts) ==
    /\ h.kind \in {"start", "usb", "wake", "callback"} => h.task \in DOMAIN ts
    /\ h.kind = "start" => ts[h.task].state = "created"
    /\ h.kind = "usb" => /\ ts[h.task].state # "created"
                         /\ ts[h.task].state = "inflight" => ts[h.task].urb \in {"ok", "error"}
    /\ h.kind = "wake" => ts[h.task].state \in {"completed", "cancelled", "retired"}
    /\ h.kind = "callback" => ts[h.task].state = "over"

QueueFits(q, ts) == \A i \in DOMAIN q : HandleFits(q[i], ts)

Once(q) ==
    \A i, j \in DOMAIN q :
        i # j /\ q[i].kind = q[j].kind /\ q[i].kind \in {"start", "wake"} => q[i].task # q[j].task

Absent(q, kind, t) == \A i \in DOMAIN q : ~(q[i].kind = kind /\ q[i].task = t)

(* A task that has not ended is live and carries what fits a transfer. *)
TaskFits(t) ==
    /\ tasks[t].state \notin {"waiting", "notified"}
    /\ tasks[t].state = "completed" => tasks[t].urb \in {"ok", "error"}
    /\ tasks[t].state # "over" => t \in live /\ Size(t) \in 1..XferSize

UrbsFit == \A i \in DOMAIN urbs : tasks[urbs[i]].state # "created"

BufferFits == pos <= wtotal /\ (pos < wtotal => wtotal \in ends)

ArgFits == \A c \in Callers : pc[c] = "send" => arg[c] \in ChunkSizes

IInv ==
    /\ TypeOK
    /\ QueueFits(ready, tasks) /\ Once(ready)
    /\ \A t \in TaskIds : TaskFits(t)
    /\ UrbsFit /\ BufferFits /\ ArgFits
    /\ Cardinality(Unfinished) <= XfersPerQueue

--------------------------------------------------------------------------------
(* Arithmetic *)

(* A transfer holds at least a packet. *)
LEMMA XferSizeProperties == XferSize \in Nat /\ PacketSize \in 1..XferSize
<1>1. \A a, b \in Nat \ {0} : a * b \in Nat /\ a <= a * b
  OBVIOUS
<1> QED BY <1>1, OutPipeAssumption DEF XferSize

--------------------------------------------------------------------------------
(* The queue of handles *)

(* A handle may be scheduled if it fits the tasks and, where it starts or  *)
(* wakes a task, the task is not scheduled so already.                     *)
LEMMA QueueAppend ==
    ASSUME NEW q \in Seq(Handles), NEW ts, QueueFits(q, ts), Once(q),
           NEW h \in Handles, HandleFits(h, ts),
           h.kind \in {"start", "wake"} => Absent(q, h.kind, h.task)
    PROVE  /\ Append(q, h) \in Seq(Handles)
           /\ QueueFits(Append(q, h), ts) /\ Once(Append(q, h))
<1>1. /\ Append(q, h) \in Seq(Handles) /\ Len(Append(q, h)) = Len(q) + 1
      /\ \A i \in 1..Len(q) : Append(q, h)[i] = q[i]
      /\ Append(q, h)[Len(q) + 1] = h
  BY AppendProperties
<1>2. DOMAIN q = 1..Len(q) /\ DOMAIN Append(q, h) = 1..(Len(q) + 1) /\ Len(q) \in Nat
  BY <1>1, LenProperties
<1>3. QueueFits(Append(q, h), ts)
  BY <1>1, <1>2 DEF QueueFits
<1>4. Once(Append(q, h))
  BY <1>1, <1>2 DEF Once, Absent
<1> QED BY <1>1, <1>3, <1>4

(* The oldest handle runs. *)
LEMMA QueueTail ==
    ASSUME NEW q \in Seq(Handles), q # <<>>, NEW ts, QueueFits(q, ts), Once(q)
    PROVE  /\ Head(q) \in Handles /\ HandleFits(Head(q), ts)
           /\ Tail(q) \in Seq(Handles) /\ QueueFits(Tail(q), ts) /\ Once(Tail(q))
           /\ Head(q).kind \in {"start", "wake"} => Absent(Tail(q), Head(q).kind, Head(q).task)
           /\ \A kind, t : Absent(q, kind, t) => Absent(Tail(q), kind, t)
<1>1. /\ Head(q) \in Handles /\ Tail(q) \in Seq(Handles) /\ Len(Tail(q)) = Len(q) - 1
      /\ \A i \in 1..Len(Tail(q)) : Tail(q)[i] = q[i + 1]
  BY HeadTailProperties
<1>2. DOMAIN q = 1..Len(q) /\ DOMAIN Tail(q) = 1..Len(Tail(q)) /\ Len(q) \in Nat /\ Len(q) >= 1
  BY <1>1, LenProperties, EmptySeq
<1>3. Head(q) = q[1]
  BY <1>2
<1>4. Once(Tail(q))
  BY <1>1, <1>2 DEF Once
<1>5. Head(q).kind \in {"start", "wake"} => Absent(Tail(q), Head(q).kind, Head(q).task)
  BY <1>1, <1>2, <1>3 DEF Once, Absent
<1>6. \A kind, t : Absent(q, kind, t) => Absent(Tail(q), kind, t)
  BY <1>1, <1>2 DEF Absent
<1> QED BY <1>1, <1>2, <1>3, <1>4, <1>5, <1>6 DEF QueueFits

(* A handle that starts or wakes no task is put back in front. *)
LEMMA QueueCons ==
    ASSUME NEW q \in Seq(Handles), NEW ts, QueueFits(q, ts), Once(q),
           NEW h \in Handles, HandleFits(h, ts), h.kind \notin {"start", "wake"}
    PROVE  /\ <<h>> \o q \in Seq(Handles)
           /\ QueueFits(<<h>> \o q, ts) /\ Once(<<h>> \o q)
<1> DEFINE p == <<h>> \o q
<1>1. <<h>> \in Seq(Handles) /\ Len(<<h>>) = 1 /\ <<h>>[1] = h
  OBVIOUS
<1>2. /\ p \in Seq(Handles) /\ Len(p) = Len(<<h>>) + Len(q)
      /\ \A i \in 1..(Len(<<h>>) + Len(q)) :
            p[i] = IF i <= Len(<<h>>) THEN <<h>>[i] ELSE q[i - Len(<<h>>)]
  BY <1>1, ConcatProperties
<1>3. Len(q) \in Nat /\ DOMAIN q = 1..Len(q) /\ DOMAIN p = 1..(1 + Len(q))
  BY <1>1, <1>2, LenProperties
<1> HIDE DEF p
<1>4. \A i \in DOMAIN p : IF i = 1 THEN p[i] = h ELSE i - 1 \in DOMAIN q /\ p[i] = q[i - 1]
  BY <1>1, <1>2, <1>3
<1>5. QueueFits(p, ts)
  BY <1>3, <1>4 DEF QueueFits
<1>6. Once(p)
  <2> SUFFICES ASSUME NEW i \in DOMAIN p, NEW j \in DOMAIN p, i # j, p[i].kind = p[j].kind,
                      p[i].kind \in {"start", "wake"}
               PROVE  p[i].task # p[j].task
    BY DEF Once
  <2>1. i # 1 /\ j # 1
    BY <1>4
  <2>2. /\ i - 1 \in DOMAIN q /\ p[i] = q[i - 1] /\ j - 1 \in DOMAIN q /\ p[j] = q[j - 1]
        /\ i - 1 # j - 1
    BY <1>3, <1>4, <2>1
  <2> QED BY <2>2 DEF Once
<1> QED BY <1>2, <1>5, <1>6 DEF p

(* What the state of a task says about the handles that mention it. *)
LEMMA AbsentHandles ==
    ASSUME NEW q, NEW ts, QueueFits(q, ts), NEW t
    PROVE  /\ t \notin DOMAIN ts =>
                \A kind \in {"start", "usb", "wake", "callback"} : Absent(q, kind, t)
           /\ ts[t].state # "created" => Absent(q, "start", t)
           /\ ts[t].state = "created" => Absent(q, "usb", t)
           /\ ts[t].state \notin {"completed", "cancelled", "retired"} => Absent(q, "wake", t)
  BY DEF QueueFits, HandleFits, Absent

(* A task moves on, and the handles that mention it still fit. *)
LEMMA TaskMoves ==
    ASSUME NEW ts \in Seq(TaskRecords), NEW t \in DOMAIN ts, NEW new \in TaskRecords,
           NEW q \in Seq(Handles), QueueFits(q, ts),
           Absent(q, "start", t),
           Absent(q, "wake", t) \/ new.state \in {"completed", "cancelled", "retired"},
           new.state # "created",
           new.state = "inflight" => new.urb \in {"ok", "error"} \/ Absent(q, "usb", t),
           ts[t].state = "over" => new.state = "over"
    PROVE  QueueFits(q, [ts EXCEPT ![t] = new])
<1> DEFINE us == [ts EXCEPT ![t] = new]
<1>1. /\ DOMAIN us = DOMAIN ts /\ us[t] = new
      /\ \A u \in DOMAIN ts : u # t => us[u] = ts[u]
  BY LenProperties
<1>2. ASSUME NEW i \in DOMAIN q PROVE HandleFits(q[i], us)
  <2>1. HandleFits(q[i], ts) /\ q[i] \in Handles
    BY LenProperties DEF QueueFits
  <2>2. CASE q[i].task # t
    BY <1>1, <2>1, <2>2 DEF HandleFits
  <2>3. CASE q[i].task = t
    <3> HIDE DEF us
    <3> QED BY <1>1, <2>1, <2>3 DEF HandleFits, Absent
  <2> QED BY <2>2, <2>3
<1> QED BY <1>2 DEF QueueFits

(* A task is added, and the handles of the others still fit. *)
LEMMA TaskAdded ==
    ASSUME NEW ts \in Seq(TaskRecords), NEW new \in TaskRecords, NEW q, QueueFits(q, ts)
    PROVE  QueueFits(q, Append(ts, new))
<1>1. /\ DOMAIN ts = 1..Len(ts) /\ Len(ts) \in Nat
      /\ DOMAIN Append(ts, new) = 1..(Len(ts) + 1)
      /\ \A u \in DOMAIN ts : Append(ts, new)[u] = ts[u]
  BY AppendProperties, LenProperties
<1> QED BY <1>1 DEF QueueFits, HandleFits

(* What asyncio.wait() appends to a queue is no start and no wake-up. *)
LEMMA Suspends ==
    ASSUME NEW c \in Callers, NEW q \in Seq(Handles), NEW ts, QueueFits(q, ts), Once(q),
           live \subseteq TaskIds, waitFor \in [Callers -> SUBSET (TaskIds \cup {Late})],
           AsyncioWait(c, Over, q)
    PROVE  /\ ready' \in Seq(Handles) /\ QueueFits(ready', ts) /\ Once(ready')
           /\ waitFor' \in [Callers -> SUBSET (TaskIds \cup {Late})]
           /\ running' = NoCaller
<1> DEFINE h == Handle("completed", 0, {c})
<1>1. h \in Handles /\ h.kind = "completed"
  BY DEF Handle, Handles, Kinds
<1>2. HandleFits(h, ts)
  BY <1>1 DEF HandleFits
<1>3. ready' = q \/ ready' = Append(q, h)
  BY DEF AsyncioWait
<1>4. ready' \in Seq(Handles) /\ QueueFits(ready', ts) /\ Once(ready')
  <2> HIDE DEF h
  <2> QED BY <1>1, <1>2, <1>3, QueueAppend
<1> QED BY <1>4 DEF AsyncioWait

LEMMA PollRestType ==
    ASSUME NEW bad, done \in Seq(TaskIds)
    PROVE  PollRest(bad) \in Seq(TaskIds)
<1> DEFINE hits == {i \in DOMAIN done : done[i] \in bad}
           first == CHOOSE i \in DOMAIN done :
                        done[i] \in bad /\ \A j \in 1..(i - 1) : done[j] \notin bad
<1>1. DOMAIN done = 1..Len(done) /\ Len(done) \in Nat
  BY LenProperties
<1>2. CASE PollRaises(bad)
  <2>0. hits \in SUBSET Nat /\ hits # {}
    BY <1>1, <1>2 DEF PollRaises
  <2>1. PICK m \in hits : \A n \in hits : m <= n
    <3> HIDE DEF hits
    <3> QED BY <2>0, LeastNatural
  <2>2. done[m] \in bad /\ \A j \in 1..(m - 1) : done[j] \notin bad
    BY <1>1, <2>1
  <2>3. first \in DOMAIN done
    BY <2>1, <2>2
  <2>4. SubSeq(done, first + 1, Len(done)) \in Seq(TaskIds)
    <3> HIDE DEF first
    <3> QED BY <1>1, <2>3, SubSeqProperties, ElementOfSeq
  <2> QED BY <1>2, <2>4 DEF PollRest
<1>3. CASE ~PollRaises(bad)
  BY <1>3, EmptySeq DEF PollRest
<1> QED BY <1>2, <1>3

--------------------------------------------------------------------------------
(* Steps of a caller that leave the tasks alone *)

LEMMA InitOK == Init => IInv
<1> SUFFICES ASSUME Init PROVE IInv
  OBVIOUS
<1>1. TaskIds = {} /\ Unfinished = {}
  BY DEF Init, TaskIds, Unfinished
<1>2. TypeOK
  BY <1>1 DEF Init, TypeOK
<1>3. QueueFits(ready, tasks) /\ Once(ready)
  BY DEF Init, QueueFits, Once
<1>4. Cardinality(Unfinished) <= XfersPerQueue
  BY <1>1, FS_EmptySet, OutPipeAssumption
<1> QED BY <1>1, <1>2, <1>3, <1>4 DEF Init, IInv, UrbsFit, BufferFits, ArgFits

LEMMA TasksKept ==
    ASSUME IInv, UNCHANGED <<tasks, live, urbs>>, TypeOK',
           QueueFits(ready', tasks), Once(ready'), BufferFits', ArgFits'
    PROVE  IInv'
<1>1. TaskIds' = TaskIds /\ Unfinished' = Unfinished
  BY DEF TaskIds, Unfinished, Over
<1>2. \A t \in TaskIds : TaskFits(t)'
  BY DEF IInv, TaskFits, Size
<1> QED BY <1>1, <1>2 DEF IInv, UrbsFit

LEMMA QueueKept ==
    ASSUME IInv, UNCHANGED <<tasks, live, urbs, ready>>, TypeOK', BufferFits', ArgFits'
    PROVE  IInv'
  BY TasksKept DEF IInv

LEMMA CallerWakesOK ==
    ASSUME IInv, NEW c \in Callers, CallerWakes(c), UNCHANGED <<outside, arg, mark>>
    PROVE  IInv'
<1> USE DEF CallerWakes, outside, pipeVars, usbVars
<1> DEFINE h == Handle("resume", 0, {c})
<1>1. h \in Handles /\ HandleFits(h, tasks) /\ h.kind = "resume"
  BY DEF Handle, Handles, Kinds, HandleFits
<1>2. ready' \in Seq(Handles) /\ QueueFits(ready', tasks) /\ Once(ready')
  <2> HIDE DEF h
  <2>1. ready' = Append(ready, h)
    BY DEF h
  <2> QED BY <1>1, <2>1, QueueAppend DEF IInv, TypeOK
<1>3. TypeOK'
  BY <1>2 DEF IInv, TypeOK, TaskIds
<1> QED BY <1>2, <1>3, TasksKept DEF IInv, BufferFits, ArgFits

LEMMA YieldsOK ==
    ASSUME IInv, NEW c \in Callers, Yields(c)
    PROVE  IInv'
<1> USE DEF Yields, Yield, outside, pipeVars, usbVars
<1>1. TypeOK'
  BY DEF IInv, TypeOK, TaskIds
<1> QED BY <1>1, QueueKept DEF IInv, TypeOK, BufferFits, ArgFits

LEMMA CallSendOK ==
    ASSUME IInv, NEW c \in Callers, CallSend(c)
    PROVE  IInv'
<1> USE DEF CallSend, Calls, outside, pipeVars, usbVars, queueVars
<1>1. TypeOK'
  BY OutPipeAssumption DEF IInv, TypeOK, TaskIds
<1> QED BY <1>1, QueueKept DEF IInv, TypeOK, BufferFits, ArgFits

LEMMA CallFlushOK ==
    ASSUME IInv, NEW c \in Callers, CallFlush(c)
    PROVE  IInv'
<1> USE DEF CallFlush, Calls, outside, pipeVars, usbVars, queueVars
<1>1. TypeOK'
  BY DEF IInv, TypeOK, TaskIds
<1> QED BY <1>1, QueueKept DEF IInv, TypeOK, BufferFits, ArgFits

(* poll() and the waits of the queue, from wherever they are called. *)
LEMMA PollOK ==
    ASSUME IInv, NEW c \in Callers, Poll(c),
           UNCHANGED <<ready, running, live, waitFor, outside, arg, mark>>
    PROVE  IInv'
<1> USE DEF Poll, outside, pipeVars, usbVars
<1>1. PollRest(Bad) \in Seq(TaskIds)
  BY PollRestType DEF IInv, TypeOK
<1>2. TypeOK'
  BY <1>1 DEF IInv, TypeOK, TaskIds
<1> QED BY <1>2, QueueKept DEF IInv, TypeOK, BufferFits, ArgFits

LEMMA AsyncioWaitOK ==
    ASSUME IInv, NEW c \in Callers, AsyncioWait(c, Over, ready),
           UNCHANGED <<pc, live, done, outside, arg, mark>>
    PROVE  IInv'
<1> USE DEF outside, pipeVars, usbVars
<1>1. /\ ready' \in Seq(Handles) /\ QueueFits(ready', tasks) /\ Once(ready')
      /\ waitFor' \in [Callers -> SUBSET (TaskIds \cup {Late})]
      /\ running' = NoCaller
  BY Suspends DEF IInv, TypeOK
<1>2. TypeOK'
  BY <1>1 DEF IInv, TypeOK, TaskIds
<1> QED BY <1>1, <1>2, TasksKept DEF IInv, BufferFits, ArgFits

LEMMA WaitOneOK ==
    ASSUME IInv, NEW c \in Callers, WaitOne(c), UNCHANGED <<live, outside, arg, mark>>
    PROVE  IInv'
<1>1. CASE done # <<>>
  BY <1>1, PollOK DEF WaitOne
<1>2. CASE done = <<>> /\ live = {}
  <2> USE DEF WaitOne, outside, pipeVars, usbVars
  <2>1. TypeOK'
    BY <1>2 DEF IInv, TypeOK, TaskIds
  <2> QED BY <1>2, <2>1, QueueKept DEF IInv, TypeOK, BufferFits, ArgFits
<1>3. CASE done = <<>> /\ live # {}
  BY <1>3, AsyncioWaitOK DEF WaitOne
<1> QED BY <1>1, <1>2, <1>3

LEMMA SendWriteOK ==
    ASSUME IInv, NEW c \in Callers, SendWrite(c)
    PROVE  IInv'
<1> USE DEF SendWrite, usbVars
<1>1. PollRest(Bad) \in Seq(TaskIds)
  BY PollRestType DEF IInv, TypeOK
<1>2. CASE PollRaises(Bad)
  <2>1. TypeOK'
    BY <1>1, <1>2 DEF IInv, TypeOK, TaskIds
  <2> QED BY SMTT(30), ZenonT(30), <1>2, <2>1, QueueKept DEF IInv, TypeOK, BufferFits, ArgFits
<1>3. CASE ~PollRaises(Bad)
  <2>1. arg[c] \in Nat \ {0}
    BY OutPipeAssumption DEF IInv, ArgFits
  <2>2. wtotal' = wtotal + arg[c] /\ ends' = ends \cup {wtotal'} /\ pos' = pos
    BY <1>3
  <2>3. wtotal' \in Nat /\ wtotal' > wtotal /\ wtotal' > pos /\ pos \in Nat
    BY <2>1, <2>2 DEF IInv, TypeOK, BufferFits
  <2>4. ends' \subseteq (pos' + 1)..wtotal'
    <3>1. ends \subseteq (pos + 1)..wtotal /\ wtotal \in Nat
      BY DEF IInv, TypeOK
    <3>2. ASSUME NEW e \in ends' PROVE e \in Int /\ pos + 1 <= e /\ e <= wtotal'
      <4>1. e \in ends \/ e = wtotal'
        BY <2>2, <3>2
      <4>2. e \in ends => e \in (pos + 1)..wtotal
        BY <3>1
      <4> HIDE DEF SendWrite
      <4> QED BY <2>3, <3>1, <4>1, <4>2
    <3> QED BY <2>2, <2>3, <3>2
  <2>5. TypeOK'
    BY <1>1, <1>3, <2>3, <2>4 DEF IInv, TypeOK, TaskIds
  <2>6. BufferFits'
    BY <2>2, <2>3 DEF BufferFits
  <2> QED BY <1>3, <2>5, <2>6, QueueKept DEF IInv, TypeOK, ArgFits
<1> QED BY <1>2, <1>3

LEMMA ReturnsOK ==
    ASSUME IInv, NEW c \in Callers, SendReturn(c) \/ FlushReturn(c)
    PROVE  IInv'
<1> USE DEF SendReturn, FlushReturn, outside, pipeVars, usbVars, queueVars
<1>1. TypeOK'
  BY DEF IInv, TypeOK, TaskIds
<1> QED BY <1>1, QueueKept DEF IInv, TypeOK, BufferFits, ArgFits

LEMMA FlushDrainOK ==
    ASSUME IInv, NEW c \in Callers, FlushDrain(c)
    PROVE  IInv'
<1>1. CASE live # {}
  BY <1>1, AsyncioWaitOK DEF FlushDrain
<1>2. CASE live = {}
  BY <1>2, PollOK DEF FlushDrain
<1> QED BY <1>1, <1>2

(* Other callers may be left of the handle that resumes this one. *)
LEMMA ResumeOK ==
    ASSUME IInv, NEW c \in Callers, Resume(c), UNCHANGED restVars
    PROVE  IInv'
<1> USE DEF restVars
<1> DEFINE who == Head(ready).who \ {c}
           h == Handle("resume", 0, who)
<1>1. /\ ready \in Seq(Handles) /\ ready # <<>>
      /\ Head(ready) \in Handles /\ Tail(ready) \in Seq(Handles)
      /\ QueueFits(Tail(ready), tasks) /\ Once(Tail(ready))
  BY QueueTail DEF IInv, TypeOK, Resume, Turn
<1>2. h \in Handles /\ h.kind = "resume" /\ HandleFits(h, tasks)
  BY <1>1 DEF Handle, Handles, Kinds, HandleFits
<1>3. ready' \in Seq(Handles) /\ QueueFits(ready', tasks) /\ Once(ready')
  <2>1. CASE who = {}
    BY <1>1, <2>1 DEF Resume, RestOfResume
  <2>2. CASE who # {}
    <3>1. ready' = <<h>> \o Tail(ready)
      BY <2>2 DEF Resume, RestOfResume
    <3> HIDE DEF h
    <3> QED BY <1>1, <1>2, <3>1, QueueCons
  <2> QED BY <2>1, <2>2
<1>4. done' \in Seq(TaskIds)
  <2>1. PollRest(Bad) \in Seq(TaskIds)
    BY PollRestType DEF IInv, TypeOK
  <2> QED BY <2>1 DEF IInv, TypeOK, Resume, Poll
<1>5. pc' \in [Callers -> {"idle", "called", "run", "send", "submit", "flush", "drain",
                           "cancel"}]
      /\ \A d \in Callers : pc'[d] = "send" => pc[d] = "send"
  BY DEF IInv, TypeOK, Resume, Poll
<1>6. UNCHANGED <<live, waitFor, tasks, urbs>> /\ running' = c
  BY DEF Resume
<1>7. TypeOK'
  BY <1>3, <1>4, <1>5, <1>6 DEF IInv, TypeOK, TaskIds
<1> QED BY <1>3, <1>5, <1>6, <1>7, TasksKept DEF IInv, BufferFits, ArgFits

LEMMA EndCancelOK ==
    ASSUME IInv, NEW c \in Callers, EndCancel(c)
    PROVE  IInv'
<1> USE DEF EndCancel, Clear
<1>1. done' \in Seq(TaskIds)
  BY EmptySeq
<1>2. TypeOK' /\ BufferFits'
  <2>1. CASE \E i \in DOMAIN done : done[i] \in Failed
    BY <1>1, <2>1 DEF IInv, TypeOK, TaskIds, BufferFits
  <2>2. CASE ~ \E i \in DOMAIN done : done[i] \in Failed
    BY <1>1, <2>2 DEF IInv, TypeOK, TaskIds, BufferFits
  <2> QED BY <2>1, <2>2
<1> QED BY <1>2, QueueKept DEF IInv, TypeOK, ArgFits

--------------------------------------------------------------------------------
(* Steps that submit a task *)

(* _out_slice() takes something, and never more than fits a transfer. *)
LEMMA SliceProperties ==
    ASSUME IInv, BufferLen >= Threshold
    PROVE  SliceEnd \in Nat /\ SliceEnd \in (pos + 1)..wtotal /\ SliceEnd - pos <= XferSize
<1>1. pos \in Nat /\ wtotal \in Nat /\ ends \subseteq (pos + 1)..wtotal
  BY DEF IInv, TypeOK
<1>2. PacketSize \in Nat /\ XferSize \in Nat /\ 1 <= PacketSize /\ PacketSize <= XferSize
  BY XferSizeProperties
<1>3. Threshold \in Nat \ {0}
  BY <1>2, OutPipeAssumption DEF Threshold, Bounded, Least
<1>4. pos < wtotal /\ wtotal \in ends
  BY <1>1, <1>3 DEF BufferLen, IInv, BufferFits
<1>5. PICK m \in ends : \A n \in ends : m <= n
  <2>1. ends \in SUBSET Nat /\ ends # {}
    BY <1>1, <1>4
  <2> QED BY <2>1, LeastNatural
<1>6. FirstChunkEnd \in ends
  BY <1>5 DEF FirstChunkEnd
<1>7. FirstChunkEnd \in Nat /\ pos + 1 <= FirstChunkEnd /\ FirstChunkEnd <= wtotal
  BY <1>1, <1>6
<1> HIDE DEF FirstChunkEnd
<1> QED BY <1>1, <1>2, <1>4, <1>7 DEF SliceEnd, Least

LEMMA SubmitProperties ==
    ASSUME NEW ts \in Seq(TaskRecords), NEW b \in Nat, NEW acked \in Int, NEW q,
           pos \in Nat, wtotal \in Nat, inflight \in Int, ends \subseteq (pos + 1)..wtotal,
           b \in (pos + 1)..wtotal, wtotal \in ends, Submit(b, ts, acked, q)
    PROVE  /\ Task(pos, b) \in TaskRecords /\ tasks' = Append(ts, Task(pos, b))
           /\ tasks' \in Seq(TaskRecords) /\ Len(tasks') = Len(ts) + 1
           /\ tasks'[Len(ts) + 1] = Task(pos, b)
           /\ \A t \in 1..Len(ts) : tasks'[t] = ts[t]
           /\ live' = live \cup {Len(ts) + 1} /\ ready' = q
           /\ inflight' \in Int /\ pos' = b
           /\ ends' \subseteq (b + 1)..wtotal /\ (b < wtotal => wtotal \in ends')
<1> USE DEF Submit
<1>1. Task(pos, b) \in TaskRecords
  BY DEF Task, TaskRecords, TaskState, UrbState, Outcomes
<1>2. /\ tasks' \in Seq(TaskRecords) /\ Len(tasks') = Len(ts) + 1
      /\ tasks'[Len(ts) + 1] = Task(pos, b)
      /\ \A t \in 1..Len(ts) : tasks'[t] = ts[t]
  BY <1>1, AppendProperties
<1>3. inflight' \in Int
  OBVIOUS
<1>4. ends' \subseteq (b + 1)..wtotal /\ (b < wtotal => wtotal \in ends')
  <2>1. ends' = {e \in ends : e > b}
    OBVIOUS
  <2>2. \A e \in ends : e > b => e \in (b + 1)..wtotal
    OBVIOUS
  <2>3. b < wtotal => wtotal > b
    OBVIOUS
  <2> HIDE DEF Submit
  <2> QED BY <2>1, <2>2, <2>3
<1> QED BY <1>1, <1>2, <1>3, <1>4

(* There is room in the queue for the transfer of one more task. *)
LEMMA RoomForOne ==
    ASSUME IInv
    PROVE  /\ IsFiniteSet(Unfinished) /\ Cardinality(Unfinished) \in Nat
           /\ QueueLen < XfersPerQueue => Cardinality(Unfinished) + 1 <= XfersPerQueue
<1>1. Len(tasks) \in Nat /\ IsFiniteSet(TaskIds) /\ Len(done) \in Nat
  BY FS_Interval, LenProperties DEF IInv, TypeOK, TaskIds
<1>2. Unfinished \subseteq live /\ live \subseteq TaskIds
  BY DEF IInv, TypeOK, TaskFits, Unfinished, Over
<1>3. IsFiniteSet(live) /\ IsFiniteSet(Unfinished) /\ Cardinality(Unfinished) <= Cardinality(live)
  BY <1>1, <1>2, FS_Subset
<1>4. Cardinality(live) \in Nat /\ Cardinality(Unfinished) \in Nat
  BY <1>3, FS_CardinalityType
<1> QED BY <1>1, <1>3, <1>4, OutPipeAssumption DEF QueueLen

(* A caller submits the buffer up to b. *)
LEMMA SubmitOK ==
    ASSUME IInv, QueueLen < XfersPerQueue, NEW b \in Nat, b \in (pos + 1)..wtotal,
           b - pos <= XferSize, pos < wtotal,
           Submit(b, tasks, 0, Append(ready, StartHandle(Len(tasks) + 1))),
           UNCHANGED <<running, done, waitFor, wtotal, usbVars, arg, mark, resets>>,
           pc' \in [Callers -> {"idle", "called", "run", "send", "submit", "flush", "drain",
                                "cancel"}],
           \A c \in Callers : pc'[c] = "send" => pc[c] = "send"
    PROVE  IInv'
<1> USE DEF usbVars
<1> SUFFICES ASSUME NEW n, n = Len(tasks) PROVE IInv'
  OBVIOUS
<1> DEFINE h == StartHandle(n + 1)
<1>1. /\ Task(pos, b) \in TaskRecords /\ tasks' = Append(tasks, Task(pos, b))
      /\ tasks' \in Seq(TaskRecords) /\ Len(tasks') = n + 1
      /\ tasks'[n + 1] = Task(pos, b) /\ \A t \in 1..n : tasks'[t] = tasks[t]
      /\ live' = live \cup {n + 1} /\ ready' = Append(ready, h)
      /\ inflight' \in Int /\ pos' = b
      /\ ends' \subseteq (b + 1)..wtotal /\ (b < wtotal => wtotal \in ends')
  <2>1. /\ tasks \in Seq(TaskRecords) /\ pos \in Nat /\ wtotal \in Nat /\ inflight \in Int
        /\ ends \subseteq (pos + 1)..wtotal /\ wtotal \in ends /\ 0 \in Int
    BY DEF IInv, TypeOK, BufferFits
  <2> QED BY <2>1, SubmitProperties
<1>2. n \in Nat /\ DOMAIN tasks = 1..n /\ DOMAIN tasks' = 1..(n + 1)
      /\ TaskIds = 1..n /\ TaskIds' = TaskIds \cup {n + 1} /\ n + 1 \notin TaskIds
      /\ TaskIds \subseteq TaskIds'
  <2>1. n \in Nat /\ DOMAIN tasks = 1..n /\ TaskIds = 1..n
    BY LenProperties DEF IInv, TypeOK, TaskIds
  <2>2. DOMAIN tasks' = 1..(n + 1) /\ TaskIds' = 1..(n + 1)
    BY <1>1, LenProperties DEF TaskIds
  <2> QED BY <2>1, <2>2
<1>3. /\ h \in Handles /\ h.kind = "start" /\ HandleFits(h, tasks')
      /\ Absent(ready, "start", n + 1) /\ h.task = n + 1
  <2>1. QueueFits(ready, tasks)
    BY DEF IInv
  <2> QED BY <1>1, <1>2, <2>1, AbsentHandles
          DEF StartHandle, Handle, Handles, Kinds, HandleFits, Task
<1>4. ready' \in Seq(Handles) /\ QueueFits(ready', tasks') /\ Once(ready')
  <2>1. QueueFits(ready, tasks') /\ Once(ready) /\ ready \in Seq(Handles)
    BY <1>1, TaskAdded DEF IInv, TypeOK
  <2> HIDE DEF h
  <2> QED BY <1>1, <1>3, <2>1, QueueAppend
<1>5. TypeOK'
  <2>1. done' \in Seq(TaskIds') /\ urbs' \in Seq(TaskIds')
    <3>1. done \in Seq(TaskIds) /\ urbs \in Seq(TaskIds) /\ TaskIds \subseteq TaskIds'
      BY <1>2 DEF IInv, TypeOK
    <3>2. done \in Seq(TaskIds') /\ urbs \in Seq(TaskIds')
      BY <3>1, SeqMonotonic, Zenon
    <3> QED BY <3>2
  <2>2. waitFor' \in [Callers -> SUBSET (TaskIds' \cup {Late})] /\ live' \subseteq TaskIds'
    BY <1>1, <1>2 DEF IInv, TypeOK
  <2> QED BY <1>1, <1>4, <2>1, <2>2 DEF IInv, TypeOK
<1>6. \A t \in TaskIds' : TaskFits(t)'
  <2>1. ASSUME NEW t \in TaskIds PROVE TaskFits(t)'
    <3>1. TaskFits(t)
      BY <2>1 DEF IInv
    <3> QED BY <1>1, <1>2, <2>1, <3>1 DEF TaskFits, Size
  <2>2. TaskFits(n + 1)'
    <3>1. pos \in Nat /\ b - pos \in 1..XferSize
      BY XferSizeProperties DEF IInv, TypeOK
    <3> QED BY <1>1, <3>1 DEF TaskFits, Size, Task
  <2> QED BY <1>2, <2>1, <2>2
<1>7. UrbsFit'
  <2>1. \A i \in DOMAIN urbs : urbs[i] \in TaskIds
    BY LenProperties, ElementOfSeq DEF IInv, TypeOK
  <2> QED BY <1>1, <1>2, <2>1 DEF IInv, UrbsFit
<1>8. BufferFits'
  BY <1>1 DEF IInv, TypeOK, BufferFits
<1>9. Cardinality(Unfinished') <= XfersPerQueue
  <2>1. Unfinished' = Unfinished \cup {n + 1}
    BY <1>1, <1>2 DEF Unfinished, Over, Task
  <2>2. n + 1 \notin Unfinished
    BY <1>2 DEF Unfinished
  <2>3. /\ IsFiniteSet(Unfinished) /\ Cardinality(Unfinished) + 1 <= XfersPerQueue
    BY RoomForOne
  <2>4. Cardinality(Unfinished \cup {n + 1}) = Cardinality(Unfinished) + 1
    BY <2>2, <2>3, FS_AddElement
  <2> QED BY <2>1, <2>3, <2>4
<1> QED BY <1>4, <1>5, <1>6, <1>7, <1>8, <1>9 DEF IInv, ArgFits

LEMMA SendSubmitOK ==
    ASSUME IInv, NEW c \in Callers, SendSubmit(c)
    PROVE  IInv'
<1>1. QueueLen < XfersPerQueue /\ BufferLen >= Threshold
  BY DEF SendSubmit, MaySubmit
<1>2. SliceEnd \in Nat /\ SliceEnd \in (pos + 1)..wtotal /\ SliceEnd - pos <= XferSize
  BY <1>1, SliceProperties
<1>3. pos < wtotal
  BY <1>2 DEF IInv, TypeOK
<1> QED BY <1>1, <1>2, <1>3, SubmitOK DEF SendSubmit, IInv, TypeOK

LEMMA FlushSubmitOK ==
    ASSUME IInv, NEW c \in Callers, FlushSubmit(c)
    PROVE  IInv'
<1> USE DEF FlushSubmit
<1>1. /\ pc' \in [Callers -> {"idle", "called", "run", "send", "submit", "flush", "drain",
                              "cancel"}]
      /\ \A d \in Callers : pc'[d] = "send" => pc[d] = "send"
  BY DEF IInv, TypeOK
<1>2. CASE FlushFits /\ BufferLen > 0
  <2>1. wtotal \in Nat /\ wtotal \in (pos + 1)..wtotal /\ wtotal - pos <= XferSize /\ pos < wtotal
    BY <1>2 DEF IInv, TypeOK, FlushFits, BufferLen
  <2> QED BY <1>1, <1>2, <2>1, SubmitOK
<1>3. CASE ~(FlushFits /\ BufferLen > 0)
  <2>1. TypeOK'
    BY <1>1, <1>3 DEF IInv, TypeOK, TaskIds, usbVars
  <2> QED BY <1>1, <1>3, <2>1, QueueKept DEF IInv, BufferFits, ArgFits, usbVars
<1> QED BY <1>2, <1>3

--------------------------------------------------------------------------------
(* Steps of the tasks and of their transfers *)

(* The oldest handle, and what is left of the queue when it runs. *)
LEMMA TurnProperties ==
    ASSUME IInv, NEW kind \in {"start", "usb", "wake", "callback"}, Turn(kind)
    PROVE  LET t == Head(ready).task
           IN  /\ t \in TaskIds /\ t \in DOMAIN tasks /\ t \in Nat
               /\ HandleFits(Head(ready), tasks) /\ Head(ready).kind = kind
               /\ Tail(ready) \in Seq(Handles)
               /\ QueueFits(Tail(ready), tasks) /\ Once(Tail(ready))
               /\ kind \in {"start", "wake"} => Absent(Tail(ready), kind, t)
               /\ tasks \in Seq(TaskRecords) /\ tasks[t] \in TaskRecords
               /\ DOMAIN tasks = TaskIds
<1>1. /\ ready \in Seq(Handles) /\ ready # <<>> /\ Head(ready).kind = kind
      /\ QueueFits(ready, tasks) /\ Once(ready) /\ tasks \in Seq(TaskRecords)
  BY DEF Turn, IInv, TypeOK
<1>2. /\ HandleFits(Head(ready), tasks) /\ Tail(ready) \in Seq(Handles)
      /\ QueueFits(Tail(ready), tasks) /\ Once(Tail(ready))
      /\ kind \in {"start", "wake"} => Absent(Tail(ready), kind, Head(ready).task)
  BY <1>1, QueueTail
<1>3. DOMAIN tasks = TaskIds /\ Len(tasks) \in Nat
  BY <1>1, LenProperties DEF TaskIds
<1>4. Head(ready).task \in DOMAIN tasks
  BY <1>1, <1>2 DEF HandleFits
<1>5. Head(ready).task \in Nat
  BY <1>3, <1>4 DEF TaskIds
<1>6. tasks[Head(ready).task] \in TaskRecords
  BY <1>1, <1>3, <1>4, ElementOfSeq DEF TaskIds
<1> QED BY <1>1, <1>2, <1>3, <1>4, <1>5, <1>6

LEMMA HandlesFit ==
    ASSUME NEW t \in Nat, NEW ts, t \in DOMAIN ts
    PROVE  /\ StartHandle(t) \in Handles /\ StartHandle(t).kind = "start"
           /\ WakeHandle(t) \in Handles /\ WakeHandle(t).kind = "wake"
           /\ CallbackHandle(t) \in Handles /\ CallbackHandle(t).kind = "callback"
           /\ Handle("usb", t, {}) \in Handles /\ Handle("usb", t, {}).kind = "usb"
           /\ StartHandle(t).task = t /\ WakeHandle(t).task = t
           /\ ts[t].state = "created" => HandleFits(StartHandle(t), ts)
           /\ ts[t].state \in {"completed", "cancelled", "retired"} => HandleFits(WakeHandle(t), ts)
           /\ ts[t].state = "over" => HandleFits(CallbackHandle(t), ts)
           /\ /\ ts[t].state # "created"
              /\ ts[t].state = "inflight" => ts[t].urb \in {"ok", "error"}
              => HandleFits(Handle("usb", t, {}), ts)
  BY DEF StartHandle, WakeHandle, CallbackHandle, Handle, Handles, Kinds, HandleFits

LEMMA SetTaskProperties ==
    ASSUME tasks \in Seq(TaskRecords), NEW t \in TaskIds, NEW new \in TaskRecords,
           SetTask(t, new)
    PROVE  /\ tasks' = [tasks EXCEPT ![t] = new]
           /\ tasks' \in Seq(TaskRecords) /\ TaskIds' = TaskIds
           /\ DOMAIN tasks' = TaskIds /\ tasks'[t] = new
           /\ \A u \in TaskIds : u # t => tasks'[u] = tasks[u]
<1>1. tasks' = [tasks EXCEPT ![t] = new]
  BY DEF SetTask
<1>2. tasks' \in Seq(TaskRecords) /\ Len(tasks') = Len(tasks)
  BY <1>1, ExceptSeq DEF TaskIds
<1>3. DOMAIN tasks = TaskIds
  BY LenProperties DEF TaskIds
<1> QED BY <1>1, <1>2, <1>3 DEF TaskIds

(* One task moves on: it starts, its transfer makes progress, or it ends. *)
LEMMA OneTaskOK ==
    ASSUME IInv, NEW t \in TaskIds, NEW new \in TaskRecords, SetTask(t, new),
           new.state \notin {"created", "waiting", "notified"},
           new.state = "completed" => new.urb \in {"ok", "error"},
           new.state # "over" => /\ tasks[t].state # "over"
                                 /\ new.from = tasks[t].from /\ new.to = tasks[t].to,
           \A i \in DOMAIN urbs' : urbs'[i] = t \/ \E j \in DOMAIN urbs : urbs'[i] = urbs[j],
           urbs' \in Seq(TaskIds), taken' \in Nat, inflight' \in Int, failures' \in Nat,
           refused' \subseteq Nat,
           ready' \in Seq(Handles), QueueFits(ready', tasks'), Once(ready'),
           UNCHANGED <<running, pc, live, done, waitFor, pos, ends, wtotal, arg, mark, resets>>
    PROVE  IInv'
<1>1. /\ tasks' \in Seq(TaskRecords) /\ TaskIds' = TaskIds /\ tasks'[t] = new
      /\ \A u \in TaskIds : u # t => tasks'[u] = tasks[u]
  BY SetTaskProperties DEF IInv, TypeOK
<1>2. TypeOK'
  BY <1>1 DEF IInv, TypeOK
<1>3. ASSUME NEW u \in TaskIds PROVE TaskFits(u)'
  <2>1. TaskFits(u) /\ TaskFits(t)
    BY <1>3 DEF IInv
  <2>2. CASE u = t
    BY <1>1, <2>1, <2>2 DEF TaskFits, Size
  <2>3. CASE u # t
    BY <1>1, <1>3, <2>1, <2>3 DEF TaskFits, Size
  <2> QED BY <2>2, <2>3
<1>4. UrbsFit'
  <2>1. \A j \in DOMAIN urbs : urbs[j] \in TaskIds /\ tasks[urbs[j]].state # "created"
    BY LenProperties, ElementOfSeq DEF IInv, TypeOK, UrbsFit
  <2>2. \A u \in TaskIds : tasks[u].state # "created" => tasks'[u].state # "created"
    BY <1>1
  <2> QED BY <1>1, <2>1, <2>2 DEF UrbsFit
<1>5. Cardinality(Unfinished') <= XfersPerQueue
  <2>1. Unfinished' \subseteq Unfinished
    BY <1>1 DEF Unfinished, Over
  <2>2. IsFiniteSet(Unfinished) /\ Cardinality(Unfinished) \in Nat
    BY RoomForOne
  <2>3. Cardinality(Unfinished') <= Cardinality(Unfinished) /\ Cardinality(Unfinished') \in Nat
    BY <2>1, <2>2, FS_Subset, FS_CardinalityType
  <2> QED BY <2>2, <2>3, OutPipeAssumption DEF IInv
<1> QED BY <1>1, <1>2, <1>3, <1>4, <1>5 DEF IInv, BufferFits, ArgFits

LEMMA EndedType ==
    ASSUME NEW outcome \in Outcomes
    PROVE  Ended(outcome) \in TaskRecords /\ Ended(outcome).state = "over"
  BY DEF Ended, Task, TaskRecords, TaskState, UrbState

(* A task ends at its first step: cancelled before, or refused a transfer. *)
EndsAtStart(outcome) ==
    LET t == Head(ready).task
    IN  /\ Turn("start")
        /\ SetTask(t, Ended(outcome))
        /\ ready' = Append(Tail(ready), CallbackHandle(t))
        /\ UNCHANGED <<running, pc, live, done, waitFor, pos, ends, wtotal, urbs, taken,
                       arg, mark, resets>>

LEMMA StartEnds ==
    /\ TaskStart /\ tasks[Head(ready).task].mustCancel => EndsAtStart("cancelled")
    /\ TaskRefused => EndsAtStart("error")
  BY DEF TaskStart, TaskRefused, EndsAtStart

LEMMA EndsAtStartOK ==
    ASSUME IInv, NEW outcome \in Outcomes, EndsAtStart(outcome),
           inflight' \in Int, failures' \in Nat, refused' \subseteq Nat
    PROVE  IInv'
<1> SUFFICES ASSUME NEW t, t = Head(ready).task PROVE IInv'
  OBVIOUS
<1>1. /\ t \in TaskIds /\ t \in DOMAIN tasks /\ t \in Nat
      /\ HandleFits(Head(ready), tasks) /\ Head(ready).kind = "start"
      /\ Tail(ready) \in Seq(Handles)
      /\ QueueFits(Tail(ready), tasks) /\ Once(Tail(ready))
      /\ Absent(Tail(ready), "start", t)
      /\ tasks \in Seq(TaskRecords) /\ tasks[t] \in TaskRecords
      /\ DOMAIN tasks = TaskIds
  BY TurnProperties DEF EndsAtStart
<1>2. tasks[t].state = "created"
  BY <1>1 DEF HandleFits
<1>3. Absent(Tail(ready), "usb", t) /\ Absent(Tail(ready), "wake", t)
  BY <1>1, <1>2, AbsentHandles
<1>4. UNCHANGED <<running, pc, live, done, waitFor, pos, ends, wtotal, urbs, taken,
                  arg, mark, resets>>
  BY DEF EndsAtStart
<1> DEFINE new == Ended(outcome)
<1>5. new \in TaskRecords /\ new.state = "over"
  BY EndedType
<1>6. SetTask(t, new) /\ ready' = Append(Tail(ready), CallbackHandle(t))
  BY DEF EndsAtStart
<1> HIDE DEF new
<1>7. tasks' = [tasks EXCEPT ![t] = new] /\ DOMAIN tasks' = TaskIds /\ tasks'[t] = new
  BY <1>1, <1>5, <1>6, SetTaskProperties
<1>8. QueueFits(Tail(ready), tasks')
  BY <1>1, <1>2, <1>3, <1>5, <1>7, TaskMoves
<1>9. /\ CallbackHandle(t) \in Handles /\ CallbackHandle(t).kind = "callback"
      /\ HandleFits(CallbackHandle(t), tasks')
  <2>1. t \in DOMAIN tasks' /\ tasks'[t].state = "over"
    BY <1>1, <1>5, <1>7
  <2> QED BY <1>1, <2>1, HandlesFit
<1>10. ready' \in Seq(Handles) /\ QueueFits(ready', tasks') /\ Once(ready')
  BY <1>1, <1>6, <1>8, <1>9, QueueAppend
<1> QED BY <1>1, <1>4, <1>5, <1>6, <1>10, OneTaskOK DEF IInv, TypeOK

LEMMA TaskRefusedOK ==
    ASSUME IInv, TaskRefused
    PROVE  IInv'
<1> SUFFICES ASSUME NEW t, t = Head(ready).task PROVE IInv'
  OBVIOUS
<1>1. t \in TaskIds /\ tasks[t] \in TaskRecords
  BY TurnProperties DEF TaskRefused
<1>2. tasks[t].from \in Nat /\ tasks[t].to \in Nat
  BY <1>1 DEF TaskRecords
<1>3. /\ inflight' = inflight - (tasks[t].to - tasks[t].from) /\ failures' = failures + 1
      /\ refused' = refused \cup (tasks[t].from + 1)..tasks[t].to
  BY DEF TaskRefused, Size
<1>4. inflight \in Int /\ failures \in Nat /\ refused \subseteq Nat
  BY DEF IInv, TypeOK
<1>5. inflight' \in Int /\ failures' \in Nat
  BY <1>2, <1>3, <1>4
<1>7. refused' \subseteq Nat
  <2> SUFFICES ASSUME NEW n \in refused' PROVE n \in Nat
    OBVIOUS
  <2>1. n \in refused \/ n \in (tasks[t].from + 1)..tasks[t].to
    BY <1>3
  <2>2. \A a, b \in Nat : (a + 1)..b \subseteq Nat
    BY SMTT(30)
  <2>3. n \in (tasks[t].from + 1)..tasks[t].to => n \in Nat
    BY <1>2, <2>2, ZenonT(30)
  <2> QED BY <1>4, <2>1, <2>3
<1>6. "error" \in Outcomes
  BY DEF Outcomes
<1> QED BY <1>5, <1>6, <1>7, StartEnds, EndsAtStartOK

LEMMA TaskStartOK ==
    ASSUME IInv, TaskStart
    PROVE  IInv'
<1> SUFFICES ASSUME NEW t, t = Head(ready).task PROVE IInv'
  OBVIOUS
<1>1. /\ t \in TaskIds /\ t \in DOMAIN tasks /\ t \in Nat
      /\ HandleFits(Head(ready), tasks) /\ Head(ready).kind = "start"
      /\ Tail(ready) \in Seq(Handles)
      /\ QueueFits(Tail(ready), tasks) /\ Once(Tail(ready))
      /\ Absent(Tail(ready), "start", t)
      /\ tasks \in Seq(TaskRecords) /\ tasks[t] \in TaskRecords
      /\ DOMAIN tasks = TaskIds
  BY TurnProperties DEF TaskStart
<1>2. tasks[t].state = "created"
  BY <1>1 DEF HandleFits
<1>3. Absent(Tail(ready), "usb", t) /\ Absent(Tail(ready), "wake", t)
  BY <1>1, <1>2, AbsentHandles
<1>4. UNCHANGED <<running, pc, live, done, waitFor, inflight, pos, ends, wtotal, taken,
                  refused, failures, arg, mark, resets>>
  BY DEF TaskStart
<1>5. CASE tasks[t].mustCancel
  <2>1. inflight' \in Int /\ failures' \in Nat /\ refused' \subseteq Nat
    BY <1>4 DEF IInv, TypeOK
  <2>2. "cancelled" \in Outcomes
    BY DEF Outcomes
  <2> QED BY <1>5, <2>1, <2>2, StartEnds, EndsAtStartOK
<1>6. CASE ~tasks[t].mustCancel
  <2> DEFINE new == [tasks[t] EXCEPT !.state = "inflight", !.urb = "submitted"]
  <2>1. /\ new \in TaskRecords /\ new.state = "inflight"
        /\ new.from = tasks[t].from /\ new.to = tasks[t].to
    BY <1>1 DEF TaskRecords, TaskState, UrbState
  <2>2. SetTask(t, new) /\ ready' = Tail(ready) /\ urbs' = Append(urbs, t)
    BY <1>6 DEF TaskStart
  <2> HIDE DEF new
  <2>3. tasks' = [tasks EXCEPT ![t] = new]
    BY <1>1, <2>1, <2>2, SetTaskProperties
  <2>4. QueueFits(ready', tasks')
    BY <1>1, <1>2, <1>3, <2>1, <2>2, <2>3, TaskMoves
  <2>5. /\ urbs' \in Seq(TaskIds)
        /\ \A i \in DOMAIN urbs' : urbs'[i] = t \/ \E j \in DOMAIN urbs : urbs'[i] = urbs[j]
    <3>1. urbs \in Seq(TaskIds)
      BY DEF IInv, TypeOK
    <3>2. /\ urbs' \in Seq(TaskIds) /\ Len(urbs') = Len(urbs) + 1
          /\ \A i \in 1..Len(urbs) : urbs'[i] = urbs[i]
          /\ urbs'[Len(urbs) + 1] = t
      BY <1>1, <2>2, <3>1, AppendProperties
    <3>3. DOMAIN urbs' = 1..(Len(urbs) + 1) /\ DOMAIN urbs = 1..Len(urbs) /\ Len(urbs) \in Nat
      BY <3>1, <3>2, LenProperties
    <3> QED BY <3>2, <3>3
  <2> QED BY <1>1, <1>2, <1>4, <2>1, <2>2, <2>4, <2>5, OneTaskOK DEF IInv, TypeOK
<1> QED BY <1>5, <1>6

LEMMA TransferCallbackOK ==
    ASSUME IInv, TransferCallback, UNCHANGED restVars
    PROVE  IInv'
<1> USE DEF restVars
<1> SUFFICES ASSUME NEW t, t = Head(ready).task PROVE IInv'
  OBVIOUS
<1>1. /\ t \in TaskIds /\ t \in DOMAIN tasks /\ t \in Nat
      /\ HandleFits(Head(ready), tasks) /\ Head(ready).kind = "usb"
      /\ Tail(ready) \in Seq(Handles)
      /\ QueueFits(Tail(ready), tasks) /\ Once(Tail(ready))
      /\ tasks \in Seq(TaskRecords) /\ tasks[t] \in TaskRecords
      /\ DOMAIN tasks = TaskIds
  BY TurnProperties DEF TransferCallback
<1>2. tasks[t].state # "created" /\ (tasks[t].state = "inflight" => tasks[t].urb \in {"ok", "error"})
  BY <1>1 DEF HandleFits
<1>3. ASSUME NEW state \in {"completed", "retired"},
             tasks[t].state = IF state = "completed" THEN "inflight" ELSE "cancelling",
             SetTask(t, [tasks[t] EXCEPT !.state = state]),
             ready' = Append(Tail(ready), WakeHandle(t))
      PROVE  IInv'
  <2> DEFINE new == [tasks[t] EXCEPT !.state = state]
  <2>1. /\ new \in TaskRecords /\ new.state = state /\ new.urb = tasks[t].urb
        /\ new.from = tasks[t].from /\ new.to = tasks[t].to
    BY <1>1 DEF TaskRecords, TaskState
  <2>2. SetTask(t, new) /\ tasks[t].state \in {"inflight", "cancelling"}
    BY <1>3
  <2> HIDE DEF new
  <2>3. tasks' = [tasks EXCEPT ![t] = new] /\ DOMAIN tasks' = TaskIds /\ tasks'[t] = new
    BY <1>1, <2>1, <2>2, SetTaskProperties
  <2>4. Absent(Tail(ready), "start", t) /\ Absent(Tail(ready), "wake", t)
    BY <1>1, <2>2, AbsentHandles
  <2>5. QueueFits(Tail(ready), tasks')
    BY <1>1, <2>1, <2>2, <2>3, <2>4, TaskMoves
  <2>6. /\ WakeHandle(t) \in Handles /\ WakeHandle(t).kind = "wake" /\ WakeHandle(t).task = t
        /\ HandleFits(WakeHandle(t), tasks')
    <3>1. t \in DOMAIN tasks' /\ tasks'[t].state \in {"completed", "cancelled", "retired"}
      BY <1>1, <1>3, <2>1, <2>3
    <3> QED BY <1>1, <3>1, HandlesFit
  <2>7. ready' \in Seq(Handles) /\ QueueFits(ready', tasks') /\ Once(ready')
    BY <1>1, <1>3, <2>4, <2>5, <2>6, QueueAppend
  <2>8. new.state = "completed" => new.urb \in {"ok", "error"}
    BY <1>2, <1>3, <2>1
  <2>9. UNCHANGED <<running, pc, live, done, waitFor, urbs>>
    BY DEF TransferCallback
  <2> QED BY <1>1, <2>1, <2>2, <2>7, <2>8, <2>9, OneTaskOK DEF IInv, TypeOK
<1>4. CASE tasks[t].state = "inflight"
  BY <1>3, <1>4 DEF TransferCallback
<1>5. CASE tasks[t].state = "cancelling"
  BY <1>3, <1>5 DEF TransferCallback
<1>6. CASE tasks[t].state \notin {"inflight", "cancelling"}
  <2>1. /\ ready' = Tail(ready)
        /\ UNCHANGED <<tasks, running, pc, live, done, waitFor, urbs>>
    BY <1>6 DEF TransferCallback
  <2>2. TypeOK'
    BY <1>1, <2>1 DEF IInv, TypeOK, TaskIds
  <2> QED BY <1>1, <2>1, <2>2, TasksKept DEF IInv, BufferFits, ArgFits
<1> QED BY <1>4, <1>5, <1>6

(* A wait ends, or is left with less to wait for. *)
LEMMA CompletedProperties ==
    ASSUME IInv, NEW kind \in {"callback", "completed"}, Turn(kind),
           NEW x, NEW who \in SUBSET Callers, Completed(x, who)
    PROVE  /\ ready' \in Seq(Handles) /\ QueueFits(ready', tasks) /\ Once(ready')
           /\ waitFor' \in [Callers -> SUBSET (TaskIds \cup {Late})]
<1> DEFINE woken == WaitEnds(x, who)
           h == Handle("resume", 0, woken)
<1>1. /\ ready \in Seq(Handles) /\ ready # <<>> /\ QueueFits(ready, tasks) /\ Once(ready)
      /\ waitFor \in [Callers -> SUBSET (TaskIds \cup {Late})]
  BY DEF IInv, TypeOK, Turn
<1>2. Head(ready) \in Handles
  BY <1>1, QueueTail
<1>3. Tail(ready) \in Seq(Handles) /\ QueueFits(Tail(ready), tasks) /\ Once(Tail(ready))
  BY <1>1, QueueTail
<1>4. woken \subseteq who
  BY DEF WaitEnds
<1>5. waitFor' \in [Callers -> SUBSET (TaskIds \cup {Late})]
  BY <1>1 DEF Completed
<1>6. ready' = Tail(ready) \/ (woken # {} /\ ready' = Append(Tail(ready), h))
  BY DEF Completed
<1>7. h \in Handles
  BY <1>4 DEF Handle, Handles, Kinds
<1>8. h.kind = "resume" /\ HandleFits(h, tasks)
  BY DEF Handle, HandleFits
<1> HIDE DEF h
<1> QED BY <1>3, <1>5, <1>6, <1>7, <1>8, QueueAppend

LEMMA LateCompletedOK ==
    ASSUME IInv, LateCompleted, UNCHANGED <<tasks, urbs, restVars>>
    PROVE  IInv'
<1> USE DEF restVars
<1>1. Head(ready).who \subseteq Callers
  BY QueueTail DEF LateCompleted, Turn, IInv, TypeOK, Handles
<1>2. /\ ready' \in Seq(Handles) /\ QueueFits(ready', tasks) /\ Once(ready')
      /\ waitFor' \in [Callers -> SUBSET (TaskIds \cup {Late})]
  BY <1>1, CompletedProperties DEF LateCompleted
<1>3. UNCHANGED <<running, pc, live, done>>
  BY DEF LateCompleted
<1>4. TypeOK'
  BY <1>2, <1>3 DEF IInv, TypeOK, TaskIds
<1> QED BY <1>2, <1>3, <1>4, TasksKept DEF IInv, BufferFits, ArgFits

LEMMA TaskCallbackOK ==
    ASSUME IInv, TaskCallback, UNCHANGED <<tasks, urbs, restVars>>
    PROVE  IInv'
<1> USE DEF restVars
<1> SUFFICES ASSUME NEW t, t = Head(ready).task PROVE IInv'
  OBVIOUS
<1>1. t \in TaskIds /\ HandleFits(Head(ready), tasks) /\ Head(ready).kind = "callback"
  BY TurnProperties DEF TaskCallback
<1>2. tasks[t].state = "over"
  BY <1>1 DEF HandleFits
<1>3. /\ ready' \in Seq(Handles) /\ QueueFits(ready', tasks) /\ Once(ready')
      /\ waitFor' \in [Callers -> SUBSET (TaskIds \cup {Late})]
  <2>1. Turn("callback") /\ Completed(t, Callers)
    BY DEF TaskCallback
  <2> QED BY <2>1, CompletedProperties
<1>4. /\ live' = live \ {t} /\ done' = Append(done, t) /\ UNCHANGED <<running, pc>>
      /\ TaskIds' = TaskIds /\ Unfinished' = Unfinished
  BY DEF TaskCallback, TaskIds, Unfinished, Over
<1>5. done' \in Seq(TaskIds)
  BY <1>1, <1>4, AppendProperties DEF IInv, TypeOK
<1>6. TypeOK'
  BY <1>3, <1>4, <1>5 DEF IInv, TypeOK, TaskIds
<1>7. \A u \in TaskIds : TaskFits(u)'
  BY <1>2, <1>4 DEF IInv, TaskFits, Size
<1> QED BY <1>3, <1>4, <1>6, <1>7 DEF IInv, UrbsFit, BufferFits, ArgFits

(* A transfer leaves the controller: its result is on its way to the loop. *)
LEMMA UrbEnds ==
    ASSUME IInv, NEW t \in TaskIds, tasks[t].state # "created",
           NEW urb \in {"ok", "error", "cancelled"},
           urb = "cancelled" => tasks[t].state = "cancelling",
           SetTask(t, [tasks[t] EXCEPT !.urb = urb]),
           ready' = Append(ready, Handle("usb", t, {})),
           \A i \in DOMAIN urbs' : \E j \in DOMAIN urbs : urbs'[i] = urbs[j],
           urbs' \in Seq(TaskIds), taken' \in Nat, failures' \in Nat,
           UNCHANGED <<running, pc, live, done, waitFor, inflight, pos, ends, wtotal, refused,
                       arg, mark, resets>>
    PROVE  IInv'
<1>1. /\ ready \in Seq(Handles) /\ QueueFits(ready, tasks) /\ Once(ready)
      /\ tasks \in Seq(TaskRecords) /\ TaskFits(t) /\ inflight \in Int
      /\ refused \subseteq Nat
  BY DEF IInv, TypeOK
<1>2. DOMAIN tasks = TaskIds /\ tasks[t] \in TaskRecords /\ t \in Nat
  BY <1>1, LenProperties, ElementOfSeq DEF TaskIds
<1> DEFINE new == [tasks[t] EXCEPT !.urb = urb]
<1>3. /\ new \in TaskRecords /\ new.state = tasks[t].state /\ new.urb = urb
      /\ new.from = tasks[t].from /\ new.to = tasks[t].to
  BY <1>2 DEF TaskRecords, UrbState
<1>4. SetTask(t, new)
  OBVIOUS
<1> HIDE DEF new
<1>5. tasks' = [tasks EXCEPT ![t] = new] /\ DOMAIN tasks' = TaskIds /\ tasks'[t] = new
  BY <1>1, <1>3, <1>4, SetTaskProperties
<1>6. /\ Absent(ready, "start", t)
      /\ Absent(ready, "wake", t) \/ new.state \in {"completed", "cancelled", "retired"}
  BY <1>1, <1>3, AbsentHandles
<1>7. QueueFits(ready, tasks')
  BY <1>1, <1>2, <1>3, <1>5, <1>6, TaskMoves
<1>8. /\ Handle("usb", t, {}) \in Handles /\ Handle("usb", t, {}).kind = "usb"
      /\ HandleFits(Handle("usb", t, {}), tasks')
  <2>1. /\ t \in DOMAIN tasks' /\ tasks'[t].state # "created"
        /\ tasks'[t].state = "inflight" => tasks'[t].urb \in {"ok", "error"}
    BY <1>3, <1>5
  <2> QED BY <1>2, <2>1, HandlesFit
<1>9. ready' \in Seq(Handles) /\ QueueFits(ready', tasks') /\ Once(ready')
  BY <1>1, <1>7, <1>8, QueueAppend
<1>10. /\ new.state \notin {"created", "waiting", "notified"}
       /\ new.state = "completed" => new.urb \in {"ok", "error"}
  BY <1>1, <1>3 DEF TaskFits
<1> QED BY <1>1, <1>3, <1>4, <1>9, <1>10, OneTaskOK

LEMMA UsbCompleteOK ==
    ASSUME IInv, UsbComplete
    PROVE  IInv'
<1> SUFFICES ASSUME NEW t, t = Head(urbs) PROVE IInv'
  OBVIOUS
<1>1. urbs \in Seq(TaskIds) /\ urbs # <<>> /\ UrbsFit /\ tasks \in Seq(TaskRecords)
  BY DEF UsbComplete, CanComplete, IInv, TypeOK
<1>2. /\ t \in TaskIds /\ Tail(urbs) \in Seq(TaskIds) /\ Len(Tail(urbs)) = Len(urbs) - 1
      /\ \A i \in 1..Len(Tail(urbs)) : Tail(urbs)[i] = urbs[i + 1]
  BY <1>1, HeadTailProperties
<1>3. /\ DOMAIN urbs = 1..Len(urbs) /\ DOMAIN Tail(urbs) = 1..Len(Tail(urbs))
      /\ Len(urbs) \in Nat /\ Len(urbs) >= 1
  BY <1>1, <1>2, LenProperties, EmptySeq
<1>4. urbs' = Tail(urbs) /\ \A i \in DOMAIN urbs' : \E j \in DOMAIN urbs : urbs'[i] = urbs[j]
  BY <1>2, <1>3 DEF UsbComplete
<1>5. tasks[t].state # "created"
  <2>1. t = urbs[1] /\ 1 \in DOMAIN urbs
    BY <1>3
  <2> QED BY <1>1, <2>1 DEF UrbsFit
<1>6. taken' \in Nat
  <2>1. tasks[t] \in TaskRecords
    BY <1>1, <1>2, ElementOfSeq DEF TaskIds
  <2> QED BY <2>1 DEF UsbComplete, TaskRecords
<1>7. PICK result \in {"ok", "error"} :
         /\ failures' = IF result = "error" THEN failures + 1 ELSE failures
         /\ SetTask(t, [tasks[t] EXCEPT !.urb = result])
  BY DEF UsbComplete
<1>8. failures' \in Nat
  BY <1>7 DEF IInv, TypeOK
<1>9. /\ ready' = Append(ready, Handle("usb", t, {}))
      /\ UNCHANGED <<running, pc, live, done, waitFor, inflight, pos, ends, wtotal, refused,
                     arg, mark, resets>>
  BY DEF UsbComplete
<1> QED BY <1>2, <1>4, <1>5, <1>6, <1>7, <1>8, <1>9, UrbEnds

LEMMA UsbCancelledOK ==
    ASSUME IInv, UsbCancelled, UNCHANGED restVars
    PROVE  IInv'
<1> USE DEF restVars
<1>1. PICK i \in DOMAIN urbs :
        /\ tasks[urbs[i]].state = "cancelling"
        /\ SetTask(urbs[i], [tasks[urbs[i]] EXCEPT !.urb = "cancelled"])
        /\ ready' = Append(ready, Handle("usb", urbs[i], {}))
        /\ urbs' = SubSeq(urbs, 1, i - 1) \o SubSeq(urbs, i + 1, Len(urbs))
        /\ UNCHANGED <<running, pc, live, done, waitFor>>
  BY DEF UsbCancelled
<1>2. urbs \in Seq(TaskIds) /\ DOMAIN urbs = 1..Len(urbs) /\ Len(urbs) \in Nat
  BY LenProperties DEF IInv, TypeOK
<1>3. urbs[i] \in TaskIds /\ taken \in Nat /\ failures \in Nat
  BY <1>2, ElementOfSeq DEF IInv, TypeOK
<1> DEFINE p == SubSeq(urbs, 1, i - 1)
           q == SubSeq(urbs, i + 1, Len(urbs))
<1>4. /\ p \in Seq(TaskIds) /\ Len(p) = i - 1 /\ \A k \in 1..(i - 1) : p[k] = urbs[k]
  <2>1. 1 \in Int /\ i - 1 \in Int /\ \A k \in 1..(i - 1) : urbs[k] \in TaskIds
    BY <1>2, ElementOfSeq
  <2>2. /\ p \in Seq(TaskIds) /\ Len(p) = IF 1 <= i - 1 THEN (i - 1) - 1 + 1 ELSE 0
        /\ \A k \in 1..((i - 1) - 1 + 1) : p[k] = urbs[1 + k - 1]
    BY <2>1, SubSeqProperties
  <2> HIDE DEF p
  <2> QED BY <1>2, <2>2
<1>5. /\ q \in Seq(TaskIds) /\ Len(q) = Len(urbs) - i
      /\ \A k \in 1..(Len(urbs) - i) : q[k] = urbs[i + k]
  <2>1. i + 1 \in Int /\ Len(urbs) \in Int /\ \A k \in (i + 1)..Len(urbs) : urbs[k] \in TaskIds
    BY <1>2, ElementOfSeq
  <2>2. /\ q \in Seq(TaskIds)
        /\ Len(q) = IF i + 1 <= Len(urbs) THEN Len(urbs) - (i + 1) + 1 ELSE 0
        /\ \A k \in 1..(Len(urbs) - (i + 1) + 1) : q[k] = urbs[(i + 1) + k - 1]
    BY <2>1, SubSeqProperties
  <2> HIDE DEF q
  <2>3. Len(q) = Len(urbs) - i
    BY <1>2, <2>2
  <2>4. ASSUME NEW k \in 1..(Len(urbs) - i) PROVE q[k] = urbs[i + k]
    <3>1. k \in 1..(Len(urbs) - (i + 1) + 1) /\ (i + 1) + k - 1 = i + k
      BY <1>2, <2>4
    <3> QED BY <2>2, <3>1
  <2> QED BY <2>2, <2>3, <2>4
<1> HIDE DEF p, q
<1>6. /\ p \o q \in Seq(TaskIds) /\ Len(p \o q) = Len(p) + Len(q)
      /\ \A k \in 1..(Len(p) + Len(q)) : (p \o q)[k] = IF k <= Len(p) THEN p[k] ELSE q[k - Len(p)]
  BY <1>4, <1>5, ConcatProperties
<1>7. urbs' = p \o q
  BY <1>1 DEF p, q
<1>8. /\ urbs' \in Seq(TaskIds)
      /\ \A k \in DOMAIN urbs' : \E j \in DOMAIN urbs : urbs'[k] = urbs[j]
  <2>1. DOMAIN urbs' = 1..(Len(p) + Len(q))
    BY <1>6, <1>7, LenProperties
  <2>2. ASSUME NEW k \in 1..(Len(p) + Len(q))
        PROVE  \E j \in DOMAIN urbs : (p \o q)[k] = urbs[j]
    <3>1. CASE k <= Len(p)
      BY <1>2, <1>4, <1>6, <2>2, <3>1
    <3>2. CASE k > Len(p)
      <4>1. k - (i - 1) \in 1..(Len(urbs) - i) /\ k + 1 \in DOMAIN urbs
        BY <1>2, <1>4, <1>5, <2>2, <3>2
      <4>2. (p \o q)[k] = q[k - (i - 1)]
        BY <1>4, <1>6, <2>2, <3>2
      <4>3. q[k - (i - 1)] = urbs[i + (k - (i - 1))]
        BY <1>5, <4>1
      <4>4. i + (k - (i - 1)) = k + 1
        BY <1>2, <1>4, <1>5, <2>2
      <4> QED BY <4>1, <4>2, <4>3, <4>4
    <3> QED BY <1>2, <1>4, <1>5, <2>2, <3>1, <3>2
  <2>3. \A k \in DOMAIN urbs' : urbs'[k] = (p \o q)[k]
    BY <1>7
  <2>4. \A k \in DOMAIN urbs' : \E j \in DOMAIN urbs : urbs'[k] = urbs[j]
    BY <2>1, <2>2, <2>3, Zenon
  <2>5. urbs' \in Seq(TaskIds)
    BY <1>6, <1>7
  <2> QED BY <2>4, <2>5
<1> QED BY <1>1, <1>3, <1>8, UrbEnds

(* Two handles at the end of the queue. *)
LEMMA AppendTwo ==
    ASSUME NEW q \in Seq(Handles), NEW h \in Handles, NEW g \in Handles
    PROVE  q \o <<h, g>> = Append(Append(q, h), g)
<1>1. <<h>> \in Seq(Handles) /\ <<g>> \in Seq(Handles) /\ <<h, g>> = <<h>> \o <<g>>
  <2>1. /\ <<h>> \in Seq(Handles) /\ <<g>> \in Seq(Handles) /\ <<h, g>> \in Seq(Handles)
        /\ Len(<<h>>) = 1 /\ Len(<<g>>) = 1 /\ Len(<<h, g>>) = 2
        /\ <<h>>[1] = h /\ <<g>>[1] = g /\ <<h, g>>[1] = h /\ <<h, g>>[2] = g
    OBVIOUS
  <2>2. <<h, g>> = Append(<<h>>, g)
    OBVIOUS
  <2> QED BY <2>1, <2>2, AppendIsConcat
<1>2. Append(q, h) \in Seq(Handles)
  BY AppendProperties
<1>3. q \o <<h, g>> = (q \o <<h>>) \o <<g>>
  BY <1>1, ConcatAssociative
<1>4. q \o <<h>> = Append(q, h) /\ Append(q, h) \o <<g>> = Append(Append(q, h), g)
  BY <1>2, AppendIsConcat
<1> QED BY <1>3, <1>4

(* A task that ends well hands its place in the queue to its successor. *)
LEMMA SuccessorOK ==
    ASSUME IInv, NEW t \in TaskIds, tasks[t].state \notin {"created", "over"},
           NEW q \in Seq(Handles), QueueFits(q, tasks), Once(q), Absent(q, "wake", t),
           NEW outcome \in Outcomes, BufferLen >= Threshold,
           Submit(SliceEnd, [tasks EXCEPT ![t] = Ended(outcome)], Acked(t),
                  q \o <<StartHandle(Len(tasks) + 1), CallbackHandle(t)>>),
           UNCHANGED <<running, pc, done, waitFor, wtotal, usbVars, arg, mark, resets>>
    PROVE  IInv'
<1> USE DEF usbVars
<1> SUFFICES ASSUME NEW n, n = Len(tasks), NEW b, b = SliceEnd, NEW ts,
                    ts = [tasks EXCEPT ![t] = Ended(outcome)]
             PROVE  IInv'
  OBVIOUS
<1>1. /\ tasks \in Seq(TaskRecords) /\ n \in Nat /\ TaskIds = 1..n /\ t \in Nat
      /\ pos \in Nat /\ wtotal \in Nat /\ inflight \in Int /\ ends \subseteq (pos + 1)..wtotal
  BY LenProperties DEF IInv, TypeOK, TaskIds
<1>2. b \in Nat /\ b \in (pos + 1)..wtotal /\ b - pos \in 1..XferSize /\ wtotal \in ends
  <2>1. b \in Nat /\ b \in (pos + 1)..wtotal /\ b - pos <= XferSize
    BY SliceProperties
  <2>2. pos < wtotal /\ b - pos \in 1..XferSize
    BY <1>1, <2>1, XferSizeProperties
  <2> QED BY <2>1, <2>2 DEF IInv, BufferFits
<1>3. /\ ts \in Seq(TaskRecords) /\ Len(ts) = n /\ ts[t].state = "over"
      /\ \A u \in TaskIds : u # t => ts[u] = tasks[u]
  BY <1>1, EndedType, ExceptSeq
<1>4. Acked(t) \in Int
  <2>1. tasks[t] \in TaskRecords
    BY <1>1, ElementOfSeq
  <2> QED BY <2>1 DEF Acked, Size, TaskRecords
<1> DEFINE start == StartHandle(n + 1)
           end   == CallbackHandle(t)
<1>5. /\ Task(pos, b) \in TaskRecords /\ tasks' = Append(ts, Task(pos, b))
      /\ tasks' \in Seq(TaskRecords) /\ Len(tasks') = n + 1
      /\ tasks'[n + 1] = Task(pos, b) /\ \A u \in 1..n : tasks'[u] = ts[u]
      /\ live' = live \cup {n + 1} /\ ready' = q \o <<start, end>>
      /\ inflight' \in Int /\ pos' = b
      /\ ends' \subseteq (b + 1)..wtotal /\ (b < wtotal => wtotal \in ends')
  <2>1. Submit(b, ts, Acked(t), q \o <<start, end>>)
    OBVIOUS
  <2>2. /\ ts \in Seq(TaskRecords) /\ b \in Nat /\ Acked(t) \in Int
        /\ pos \in Nat /\ wtotal \in Nat /\ inflight \in Int /\ ends \subseteq (pos + 1)..wtotal
        /\ b \in (pos + 1)..wtotal /\ wtotal \in ends
    BY <1>1, <1>2, <1>3, <1>4
  <2> HIDE DEF start, end
  <2>3. /\ Task(pos, b) \in TaskRecords /\ tasks' = Append(ts, Task(pos, b))
        /\ tasks' \in Seq(TaskRecords) /\ Len(tasks') = Len(ts) + 1
        /\ tasks'[Len(ts) + 1] = Task(pos, b)
        /\ \A u \in 1..Len(ts) : tasks'[u] = ts[u]
        /\ live' = live \cup {Len(ts) + 1} /\ ready' = q \o <<start, end>>
        /\ inflight' \in Int /\ pos' = b
        /\ ends' \subseteq (b + 1)..wtotal /\ (b < wtotal => wtotal \in ends')
    BY <2>1, <2>2, SubmitProperties
  <2> QED BY <1>3, <2>3
<1>6. /\ DOMAIN tasks' = 1..(n + 1) /\ TaskIds' = TaskIds \cup {n + 1}
      /\ n + 1 \notin TaskIds /\ n + 1 \in Nat /\ TaskIds \subseteq TaskIds'
  <2>1. DOMAIN tasks' = 1..(n + 1) /\ TaskIds' = 1..(n + 1)
    BY <1>5, LenProperties DEF TaskIds
  <2>2. \A k \in Nat : 1..(k + 1) = (1..k) \cup {k + 1} /\ k + 1 \notin 1..k /\ k + 1 \in Nat
    OBVIOUS
  <2> QED BY <1>1, <2>1, <2>2
<1>7. QueueFits(q, tasks')
  <2>1. t \in DOMAIN tasks /\ Absent(q, "start", t)
    BY <1>1, LenProperties, AbsentHandles
  <2>2. QueueFits(q, ts)
    BY <1>1, <2>1, EndedType, TaskMoves
  <2> QED BY <1>3, <1>5, <2>2, TaskAdded
<1>8. /\ start \in Handles /\ start.kind = "start" /\ start.task = n + 1
      /\ HandleFits(start, tasks') /\ Absent(q, "start", n + 1)
      /\ end \in Handles /\ end.kind = "callback" /\ HandleFits(end, tasks')
  <2>1. n + 1 \notin DOMAIN tasks /\ n + 1 \in DOMAIN tasks' /\ t \in DOMAIN tasks'
    BY <1>1, <1>6, LenProperties
  <2>2. tasks'[n + 1].state = "created" /\ tasks'[t].state = "over"
    BY <1>1, <1>3, <1>5 DEF Task
  <2>3. Absent(q, "start", n + 1)
    BY <2>1, AbsentHandles
  <2>4. /\ start \in Handles /\ start.kind = "start" /\ start.task = n + 1
        /\ HandleFits(start, tasks')
    BY <1>6, <2>1, <2>2, HandlesFit
  <2>5. end \in Handles /\ end.kind = "callback" /\ HandleFits(end, tasks')
    BY <1>1, <2>1, <2>2, HandlesFit
  <2> QED BY <2>3, <2>4, <2>5
<1> HIDE DEF start, end
<1>9. ready' \in Seq(Handles) /\ QueueFits(ready', tasks') /\ Once(ready')
  <2>1. /\ Append(q, start) \in Seq(Handles) /\ QueueFits(Append(q, start), tasks')
        /\ Once(Append(q, start))
    BY <1>7, <1>8, QueueAppend
  <2>2. ready' = Append(Append(q, start), end)
    BY <1>5, <1>8, AppendTwo
  <2> QED BY <1>8, <2>1, <2>2, QueueAppend
<1>10. TypeOK'
  <2>1. done' \in Seq(TaskIds') /\ urbs' \in Seq(TaskIds')
    <3>1. done \in Seq(TaskIds) /\ urbs \in Seq(TaskIds) /\ TaskIds \subseteq TaskIds'
      BY <1>6 DEF IInv, TypeOK
    <3>2. done \in Seq(TaskIds') /\ urbs \in Seq(TaskIds')
      BY <3>1, SeqMonotonic, Zenon
    <3> QED BY <3>2
  <2>2. waitFor' \in [Callers -> SUBSET (TaskIds' \cup {Late})] /\ live' \subseteq TaskIds'
    BY <1>5, <1>6 DEF IInv, TypeOK
  <2> QED BY <1>2, <1>5, <1>9, <2>1, <2>2 DEF IInv, TypeOK
<1>11. \A u \in TaskIds' : TaskFits(u)'
  <2>1. ASSUME NEW u \in TaskIds PROVE TaskFits(u)'
    <3>1. TaskFits(u)
      BY <2>1 DEF IInv
    <3>2. CASE u # t
      BY <1>1, <1>3, <1>5, <2>1, <3>1, <3>2 DEF TaskFits, Size
    <3>3. CASE u = t
      BY <1>1, <1>3, <1>5, <2>1, <3>3 DEF TaskFits
    <3> QED BY <3>2, <3>3
  <2>2. TaskFits(n + 1)'
    BY <1>2, <1>5 DEF TaskFits, Size, Task
  <2> QED BY <1>6, <2>1, <2>2
<1>12. UrbsFit'
  <2>1. \A i \in DOMAIN urbs : urbs[i] \in TaskIds /\ tasks[urbs[i]].state # "created"
    BY LenProperties, ElementOfSeq DEF IInv, TypeOK, UrbsFit
  <2>2. \A u \in TaskIds : tasks[u].state # "created" => tasks'[u].state # "created"
    BY <1>1, <1>3, <1>5
  <2> QED BY <2>1, <2>2 DEF UrbsFit
<1>13. BufferFits'
  BY <1>2, <1>5 DEF BufferFits
<1>14. Cardinality(Unfinished') <= XfersPerQueue
  <2>1. Unfinished' = (Unfinished \ {t}) \cup {n + 1} /\ t \in Unfinished
    BY <1>1, <1>3, <1>5, <1>6 DEF Unfinished, Over, Task
  <2>2. n + 1 \notin Unfinished \ {t}
    BY <1>6 DEF Unfinished
  <2>3. IsFiniteSet(Unfinished) /\ Cardinality(Unfinished) \in Nat
    BY RoomForOne
  <2>4. /\ IsFiniteSet(Unfinished \ {t})
        /\ Cardinality(Unfinished \ {t}) = Cardinality(Unfinished) - 1
    BY <2>1, <2>3, FS_RemoveElement
  <2>5. Cardinality((Unfinished \ {t}) \cup {n + 1}) = Cardinality(Unfinished \ {t}) + 1
    BY <2>2, <2>4, FS_AddElement
  <2> QED BY <2>1, <2>3, <2>4, <2>5 DEF IInv
<1> QED BY <1>9, <1>10, <1>11, <1>12, <1>13, <1>14 DEF IInv, ArgFits

LEMMA TaskWakeOK ==
    ASSUME IInv, TaskWake
    PROVE  IInv'
<1> SUFFICES ASSUME NEW t, t = Head(ready).task PROVE IInv'
  OBVIOUS
<1>1. /\ t \in TaskIds /\ t \in DOMAIN tasks /\ t \in Nat
      /\ HandleFits(Head(ready), tasks) /\ Head(ready).kind = "wake"
      /\ Tail(ready) \in Seq(Handles)
      /\ QueueFits(Tail(ready), tasks) /\ Once(Tail(ready))
      /\ Absent(Tail(ready), "wake", t)
      /\ tasks \in Seq(TaskRecords) /\ tasks[t] \in TaskRecords
      /\ DOMAIN tasks = TaskIds
  BY TurnProperties DEF TaskWake
<1>2. tasks[t].state \in {"completed", "cancelled", "retired"} /\ TaskFits(t)
  BY <1>1 DEF HandleFits, IInv
<1>3. Absent(Tail(ready), "start", t)
  BY <1>1, <1>2, AbsentHandles
<1>4. Outcome(t) \in Outcomes
  BY <1>2 DEF Outcome, Outcomes, TaskFits
<1>5. UNCHANGED <<running, pc, done, waitFor, wtotal, usbVars, arg, mark, resets>>
  BY DEF TaskWake
<1>6. CASE HasToCancel(t)
  <2> DEFINE new == [tasks[t] EXCEPT !.state = "cancelling"]
  <2>1. /\ new \in TaskRecords /\ new.state = "cancelling"
        /\ new.from = tasks[t].from /\ new.to = tasks[t].to
    BY <1>1 DEF TaskRecords, TaskState
  <2>2. /\ SetTask(t, new) /\ ready' = Tail(ready)
        /\ UNCHANGED <<inflight, pos, ends, live>>
    BY <1>6 DEF TaskWake
  <2> HIDE DEF new
  <2>3. tasks' = [tasks EXCEPT ![t] = new]
    BY <1>1, <2>1, <2>2, SetTaskProperties
  <2>4. QueueFits(ready', tasks')
    BY <1>1, <1>2, <1>3, <2>1, <2>2, <2>3, TaskMoves
  <2> QED BY <1>1, <1>2, <1>5, <2>1, <2>2, <2>4, OneTaskOK DEF IInv, TypeOK, usbVars
<1>7. CASE ~HasToCancel(t) /\ Outcome(t) = "ok" /\ BufferLen >= Threshold
  <2>1. Submit(SliceEnd, [tasks EXCEPT ![t] = Ended(Outcome(t))], Acked(t),
               Tail(ready) \o <<StartHandle(Len(tasks) + 1), CallbackHandle(t)>>)
    BY <1>7 DEF TaskWake
  <2>2. tasks[t].state \notin {"created", "over"}
    BY <1>2
  <2> QED BY <1>1, <1>4, <1>5, <1>7, <2>1, <2>2, SuccessorOK
<1>8. CASE ~HasToCancel(t) /\ ~(Outcome(t) = "ok" /\ BufferLen >= Threshold)
  <2> DEFINE new == Ended(Outcome(t))
  <2>1. new \in TaskRecords /\ new.state = "over"
    BY <1>4, EndedType
  <2>2. /\ SetTask(t, new) /\ inflight' = inflight - Acked(t)
        /\ ready' = Append(Tail(ready), CallbackHandle(t))
        /\ UNCHANGED <<pos, ends, live>>
    BY <1>8 DEF TaskWake, SetTask
  <2> HIDE DEF new
  <2>3. inflight' \in Int
    BY <1>1, <2>2 DEF IInv, TypeOK, Acked, Size, TaskRecords
  <2>4. tasks' = [tasks EXCEPT ![t] = new] /\ DOMAIN tasks' = TaskIds /\ tasks'[t] = new
    BY <1>1, <2>1, <2>2, SetTaskProperties
  <2>5. QueueFits(Tail(ready), tasks')
    BY <1>1, <1>2, <1>3, <2>1, <2>4, TaskMoves
  <2>6. /\ CallbackHandle(t) \in Handles /\ CallbackHandle(t).kind = "callback"
        /\ HandleFits(CallbackHandle(t), tasks')
    <3>1. t \in DOMAIN tasks' /\ tasks'[t].state = "over"
      BY <1>1, <2>1, <2>4
    <3> QED BY <1>1, <3>1, HandlesFit
  <2>7. ready' \in Seq(Handles) /\ QueueFits(ready', tasks') /\ Once(ready')
    BY <1>1, <2>2, <2>5, <2>6, QueueAppend
  <2> QED BY <1>1, <1>5, <2>1, <2>2, <2>3, <2>7, OneTaskOK DEF IInv, TypeOK, usbVars
<1> QED BY <1>6, <1>7, <1>8

--------------------------------------------------------------------------------
(* reset() *)

LEMMA CancelledProperties ==
    ASSUME IInv
    PROVE  /\ Cancelled \in Seq(TaskRecords) /\ Len(Cancelled) = Len(tasks)
           /\ \A t \in TaskIds :
                 /\ Cancelled[t].urb = tasks[t].urb
                 /\ Cancelled[t].from = tasks[t].from /\ Cancelled[t].to = tasks[t].to
                 /\ Cancelled[t].state = IF t \in Interrupted THEN "cancelled" ELSE tasks[t].state
           /\ \A t \in Interrupted : t \in TaskIds /\ tasks[t].state = "inflight"
<1>1. /\ tasks \in Seq(TaskRecords) /\ Len(tasks) \in Nat /\ live \subseteq TaskIds
      /\ \A t \in TaskIds : TaskFits(t)
  BY LenProperties DEF IInv, TypeOK
<1>2. \A t \in Interrupted : t \in TaskIds /\ tasks[t].state = "inflight"
  BY <1>1 DEF Interrupted, TaskFits
<1>3. ASSUME NEW task \in TaskRecords
      PROVE  /\ Cancel(task) \in TaskRecords
             /\ Cancel(task).urb = task.urb
             /\ Cancel(task).from = task.from /\ Cancel(task).to = task.to
             /\ Cancel(task).state = IF task.state \in {"waiting", "inflight"} THEN "cancelled"
                                     ELSE task.state
  <2>1. CASE task.state \in {"created", "notified", "completed"}
    <3>1. Cancel(task) = [task EXCEPT !.mustCancel = TRUE]
      BY <2>1 DEF Cancel
    <3> QED BY <2>1, <3>1 DEF TaskRecords
  <2>2. CASE task.state \in {"waiting", "inflight"}
    <3>1. Cancel(task) = [task EXCEPT !.state = "cancelled"]
      BY <2>2 DEF Cancel
    <3> QED BY <2>2, <3>1 DEF TaskRecords, TaskState
  <2>3. CASE task.state \notin {"created", "notified", "completed", "waiting", "inflight"}
    <3>1. Cancel(task) = task
      BY <2>3 DEF Cancel
    <3> QED BY <2>3, <3>1
  <2> QED BY <2>1, <2>2, <2>3
<1>4. \A t \in TaskIds : tasks[t] \in TaskRecords
  BY <1>1, ElementOfSeq DEF TaskIds
<1>5. \A t \in TaskIds : Cancelled[t] = IF t \in live THEN Cancel(tasks[t]) ELSE tasks[t]
  BY DEF Cancelled
<1>6. Cancelled \in Seq(TaskRecords) /\ Len(Cancelled) = Len(tasks)
  <2>1. Cancelled \in [1..Len(tasks) -> TaskRecords]
    BY <1>3, <1>4 DEF Cancelled, TaskIds
  <2> QED BY <1>1, <2>1
<1>7. \A t \in TaskIds : t \in Interrupted <=> t \in live /\ tasks[t].state \in {"waiting", "inflight"}
  BY DEF Interrupted
<1> QED BY <1>2, <1>3, <1>4, <1>5, <1>6, <1>7

(* The wake-ups of the interrupted tasks, in whatever order. *)
LEMMA WakeUps ==
    ASSUME IInv, NEW order \in Orders(Interrupted), NEW ts,
           DOMAIN ts = TaskIds, \A t \in Interrupted : ts[t].state = "cancelled",
           QueueFits(ready, ts)
    PROVE  LET q == ready \o [i \in DOMAIN order |-> WakeHandle(order[i])]
           IN  q \in Seq(Handles) /\ QueueFits(q, ts) /\ Once(q)
<1> DEFINE k == Cardinality(Interrupted)
           w == [i \in DOMAIN order |-> WakeHandle(order[i])]
           q == ready \o w
<1>1. /\ ready \in Seq(Handles) /\ QueueFits(ready, tasks) /\ Once(ready)
      /\ Len(tasks) \in Nat /\ Interrupted \subseteq TaskIds
      /\ \A t \in Interrupted : tasks[t].state = "inflight"
  BY LenProperties, CancelledProperties DEF IInv, TypeOK
<1>2. k \in Nat
  <2>1. 1 \in Int /\ Len(tasks) \in Int
    BY <1>1
  <2>2. IsFiniteSet(TaskIds)
    BY <2>1, FS_Interval, ZenonT(30) DEF TaskIds
  <2> QED BY <1>1, <2>2, FS_Subset, FS_CardinalityType
<1>3. /\ order \in [1..k -> Interrupted]
      /\ \A i, j \in 1..k : order[i] = order[j] => i = j
  BY DEF Orders
<1> HIDE DEF k
<1>4. \A i \in 1..k : /\ w[i] \in Handles /\ w[i].kind = "wake" /\ w[i].task = order[i]
                      /\ HandleFits(w[i], ts) /\ order[i] \in Interrupted
  <2> SUFFICES ASSUME NEW i \in 1..k
               PROVE  /\ w[i] \in Handles /\ w[i].kind = "wake" /\ w[i].task = order[i]
                      /\ HandleFits(w[i], ts) /\ order[i] \in Interrupted
    OBVIOUS
  <2>1. order[i] \in Interrupted /\ w[i] = WakeHandle(order[i])
    BY <1>3
  <2> HIDE DEF w
  <2>2. PICK t \in Interrupted : t = order[i]
    BY <2>1
  <2>3. t \in Nat /\ t \in DOMAIN ts /\ ts[t].state = "cancelled"
    BY <1>1 DEF TaskIds
  <2>4. /\ WakeHandle(t) \in Handles /\ WakeHandle(t).kind = "wake"
        /\ WakeHandle(t).task = t
    BY <2>3 DEF WakeHandle, Handle, Handles, Kinds
  <2>5. HandleFits(WakeHandle(t), ts)
    BY <2>3, <2>4 DEF HandleFits
  <2> QED BY <2>1, <2>2, <2>4, <2>5
<1>5. w \in Seq(Handles) /\ Len(w) = k
  <2>1. w \in [1..k -> Handles]
    BY <1>3, <1>4
  <2> HIDE DEF w
  <2> QED BY <1>2, <2>1
<1> HIDE DEF w
<1>6. /\ q \in Seq(Handles) /\ Len(q) = Len(ready) + k
      /\ \A i \in 1..(Len(ready) + k) : q[i] = IF i <= Len(ready) THEN ready[i]
                                               ELSE w[i - Len(ready)]
  BY <1>1, <1>5, ConcatProperties
<1>7. /\ Len(ready) \in Nat /\ DOMAIN ready = 1..Len(ready) /\ DOMAIN q = 1..(Len(ready) + k)
  BY <1>1, <1>6, LenProperties
<1>8. \A i \in DOMAIN ready : ready[i].kind = "wake" => ready[i].task \notin Interrupted
  BY <1>1 DEF QueueFits, HandleFits
<1> HIDE DEF q
<1>9. \A i \in DOMAIN q : \/ i \in DOMAIN ready /\ q[i] = ready[i]
                          \/ i - Len(ready) \in 1..k /\ q[i] = w[i - Len(ready)]
  BY <1>2, <1>6, <1>7
<1>10. QueueFits(q, ts)
  BY <1>4, <1>9 DEF QueueFits
<1>11. Once(q)
  <2> SUFFICES ASSUME NEW i \in DOMAIN q, NEW j \in DOMAIN q, i # j, q[i].kind = q[j].kind,
                      q[i].kind \in {"start", "wake"}
               PROVE  q[i].task # q[j].task
    BY DEF Once
  <2>1. CASE i \in DOMAIN ready /\ q[i] = ready[i] /\ j \in DOMAIN ready /\ q[j] = ready[j]
    BY <1>1, <2>1 DEF Once
  <2>2. CASE /\ i \in DOMAIN ready /\ q[i] = ready[i]
             /\ j - Len(ready) \in 1..k /\ q[j] = w[j - Len(ready)]
    BY <1>4, <1>8, <2>2
  <2>3. CASE /\ j \in DOMAIN ready /\ q[j] = ready[j]
             /\ i - Len(ready) \in 1..k /\ q[i] = w[i - Len(ready)]
    BY <1>4, <1>8, <2>3
  <2>4. CASE /\ i - Len(ready) \in 1..k /\ q[i] = w[i - Len(ready)]
             /\ j - Len(ready) \in 1..k /\ q[j] = w[j - Len(ready)]
    <3>1. i - Len(ready) # j - Len(ready)
      BY <1>7
    <3> QED BY <1>3, <1>4, <2>4, <3>1
  <2> QED BY <1>9, <2>1, <2>2, <2>3, <2>4
<1> QED BY <1>6, <1>10, <1>11 DEF q, w

LEMMA CallResetOK ==
    ASSUME IInv, NEW c \in Callers, CallReset(c)
    PROVE  IInv'
<1>1. /\ tasks' = Cancelled /\ UNCHANGED <<live, done, urbs>>
      /\ pc' = [pc EXCEPT ![c] = "cancel"] /\ running = c
      /\ resets' = resets + 1
      /\ UNCHANGED <<inflight, pos, ends, wtotal, taken, refused, failures, arg, mark>>
  BY DEF CallReset, CancelQueue, Calls
<1>2. /\ tasks' \in Seq(TaskRecords) /\ Len(tasks') = Len(tasks)
      /\ \A t \in TaskIds :
            /\ tasks'[t].urb = tasks[t].urb
            /\ tasks'[t].from = tasks[t].from /\ tasks'[t].to = tasks[t].to
            /\ tasks'[t].state = IF t \in Interrupted THEN "cancelled" ELSE tasks[t].state
      /\ \A t \in Interrupted : t \in TaskIds /\ tasks[t].state = "inflight"
  BY <1>1, CancelledProperties
<1>3. /\ ready \in Seq(Handles) /\ QueueFits(ready, tasks) /\ Once(ready)
      /\ live \subseteq TaskIds /\ waitFor \in [Callers -> SUBSET (TaskIds \cup {Late})]
  BY DEF IInv, TypeOK
<1>4. TaskIds' = TaskIds /\ DOMAIN tasks = TaskIds /\ DOMAIN tasks' = TaskIds
  BY <1>2, LenProperties DEF IInv, TypeOK, TaskIds
<1>5. QueueFits(ready, tasks')
  <2> SUFFICES ASSUME NEW i \in DOMAIN ready PROVE HandleFits(ready[i], tasks')
    BY DEF QueueFits
  <2>1. HandleFits(ready[i], tasks)
    BY <1>3 DEF QueueFits
  <2> QED BY <1>2, <1>4, <2>1 DEF HandleFits
<1>6. /\ ready' \in Seq(Handles) /\ QueueFits(ready', tasks') /\ Once(ready')
      /\ waitFor' \in [Callers -> SUBSET (TaskIds \cup {Late})]
      /\ running' \in Callers \cup {NoCaller}
  <2>1. CASE live = {}
    <3>1. UNCHANGED <<ready, running, waitFor>>
      BY <2>1 DEF CallReset, CancelQueue
    <3> QED BY <1>1, <1>3, <1>5, <3>1
  <2>2. CASE live # {}
    <3>1. PICK order \in Orders(Interrupted) :
             AsyncioWait(c, Over, ready \o [i \in DOMAIN order |-> WakeHandle(order[i])])
      BY <2>2 DEF CallReset, CancelQueue
    <3> DEFINE q == ready \o [i \in DOMAIN order |-> WakeHandle(order[i])]
    <3>2. q \in Seq(Handles) /\ QueueFits(q, tasks') /\ Once(q)
      <4>1. \A t \in Interrupted : tasks'[t].state = "cancelled"
        BY <1>2
      <4> QED BY <1>4, <1>5, <4>1, WakeUps
    <3>3. AsyncioWait(c, Over, q)
      BY <3>1
    <3> HIDE DEF q
    <3> QED BY <1>3, <3>2, <3>3, Suspends
  <2> QED BY <2>1, <2>2
<1>7. TypeOK'
  <2>1. TypeOK
    BY DEF IInv
  <2>2. /\ pc' \in [Callers -> {"idle", "called", "run", "send", "submit", "flush", "drain",
                                "cancel"}]
        /\ resets' \in Nat
    BY <1>1, <2>1 DEF TypeOK
  <2>3. live' \subseteq TaskIds' /\ done' \in Seq(TaskIds') /\ urbs' \in Seq(TaskIds')
    BY <1>1, <1>4, <2>1 DEF TypeOK
  <2>4. /\ arg' \in [Callers -> Nat] /\ mark' \in [Callers -> Nat]
        /\ inflight' \in Int /\ pos' \in Nat /\ wtotal' \in Nat
        /\ ends' \subseteq (pos' + 1)..wtotal' /\ taken' \in Nat /\ failures' \in Nat
        /\ refused' \subseteq Nat
    BY <1>1, <2>1 DEF TypeOK
  <2>5. waitFor' \in [Callers -> SUBSET (TaskIds' \cup {Late})]
    BY <1>4, <1>6
  <2> QED BY <1>2, <1>6, <2>2, <2>3, <2>4, <2>5 DEF TypeOK, Late
<1>8. \A t \in TaskIds' : TaskFits(t)'
  <2> SUFFICES ASSUME NEW t \in TaskIds PROVE TaskFits(t)'
    BY <1>4
  <2>1. TaskFits(t)
    BY DEF IInv
  <2> QED BY <1>1, <1>2, <2>1 DEF TaskFits, Size
<1>9. UrbsFit'
  <2>1. \A i \in DOMAIN urbs : urbs[i] \in TaskIds
    BY LenProperties, ElementOfSeq DEF IInv, TypeOK
  <2> QED BY <1>1, <1>2, <2>1 DEF IInv, UrbsFit
<1>10. Unfinished' = Unfinished
  BY <1>2, <1>4 DEF Unfinished, Over
<1> QED BY <1>1, <1>6, <1>7, <1>8, <1>9, <1>10 DEF IInv, TypeOK, BufferFits, ArgFits

--------------------------------------------------------------------------------
(* The theorems *)

LEMMA CallerStepOK ==
    ASSUME IInv, NEW c \in Callers, CallerStep(c)
    PROVE  IInv'
<1>1. CASE Resume(c) /\ UNCHANGED restVars
  BY <1>1, ResumeOK
<1>2. CASE Yields(c)
  BY <1>2, YieldsOK
<1>3. CASE CallSend(c)
  BY <1>3, CallSendOK
<1>4. CASE SendWait(c) \/ FlushWait(c)
  BY <1>4, WaitOneOK DEF SendWait, FlushWait
<1>5. CASE SendWrite(c)
  BY <1>5, SendWriteOK
<1>6. CASE SendSubmit(c)
  BY <1>6, SendSubmitOK
<1>7. CASE SendReturn(c) \/ FlushReturn(c)
  BY <1>7, ReturnsOK
<1>8. CASE CallFlush(c)
  BY <1>8, CallFlushOK
<1>9. CASE FlushSubmit(c)
  BY <1>9, FlushSubmitOK
<1>10. CASE FlushDrain(c)
  BY <1>10, FlushDrainOK
<1>11. CASE CallReset(c)
  BY <1>11, CallResetOK
<1>12. CASE EndCancel(c)
  BY <1>12, EndCancelOK
<1> QED BY <1>1, <1>2, <1>3, <1>4, <1>5, <1>6, <1>7, <1>8, <1>9, <1>10, <1>11, <1>12
        DEF CallerStep

LEMMA NextOK == IInv /\ [Next]_vars => IInv'
<1> SUFFICES ASSUME IInv, [Next]_vars PROVE IInv'
  OBVIOUS
<1>1. CASE \E c \in Callers : CallerWakes(c) /\ UNCHANGED <<outside, arg, mark>>
  BY <1>1, CallerWakesOK
<1>2. CASE \E c \in Callers : CallerStep(c)
  BY <1>2, CallerStepOK
<1>3. CASE TaskStart
  BY <1>3, TaskStartOK
<1>11. CASE TaskRefused
  BY <1>11, TaskRefusedOK
<1>4. CASE TaskWake
  BY <1>4, TaskWakeOK
<1>5. CASE TaskCallback /\ UNCHANGED <<tasks, urbs, restVars>>
  BY <1>5, TaskCallbackOK
<1>6. CASE LateCompleted /\ UNCHANGED <<tasks, urbs, restVars>>
  BY <1>6, LateCompletedOK
<1>7. CASE TransferCallback /\ UNCHANGED restVars
  BY <1>7, TransferCallbackOK
<1>8. CASE UsbComplete
  BY <1>8, UsbCompleteOK
<1>9. CASE UsbCancelled /\ UNCHANGED restVars
  BY <1>9, UsbCancelledOK
<1>10. CASE UNCHANGED vars
  <2> USE <1>10 DEF vars, outside, pipeVars, usbVars, queueVars
  <2>1. TypeOK'
    BY DEF IInv, TypeOK, TaskIds
  <2> QED BY <2>1, QueueKept DEF IInv, BufferFits, ArgFits
<1> QED BY <1>1, <1>2, <1>3, <1>4, <1>5, <1>6, <1>7, <1>8, <1>9, <1>10, <1>11
        DEF Next, LoopStep, LoopCallback, UsbStep

(* The inductive invariant holds of every behaviour of the OUT pipe. *)
THEOREM Inductive == Spec => []IInv
  BY InitOK, NextOK, PTL DEF Spec

(* The variables of the pipe always have their types: what _out_slice()    *)
(* takes ends in the buffer, and the queues only name tasks that exist.    *)
THEOREM TypeCorrect == Spec => []TypeOK
<1>1. IInv => TypeOK
  BY DEF IInv
<1> QED BY <1>1, Inductive, PTL

(* The usbfs memory limit: whatever the callers of send() and flush(), the *)
(* failures and the resets, there are never more than XfersPerQueue        *)
(* transfers of at most XferSize bytes, although a task that ends submits  *)
(* its successor (_out_task) while it is still counted in the queue.       *)
THEOREM UsbMemoryBounded == Spec => []UsbMemoryBound
<1>1. IInv => UsbMemoryBound
  BY DEF IInv, UsbMemoryBound, TaskFits, Unfinished, Over
<1> QED BY <1>1, Inductive, PTL

--------------------------------------------------------------------------------
(* What a bounded pipe holds *)

Kept == inflight + BufferLen

(* Submitting moves data from the buffer to a transfer. *)
LEMMA SubmitHolds ==
    ASSUME TypeOK, NEW b \in Int, NEW ts, NEW acked \in Int, NEW q,
           Submit(b, ts, acked, q), wtotal' = wtotal
    PROVE  Kept' = Kept - acked
  BY DEF TypeOK, Submit, Kept, BufferLen

LEMMA SendWriteHolds ==
    ASSUME IInv, MemoryBound, NEW c \in Callers, SendWrite(c)
    PROVE  MemoryBound'
<1>1. /\ wtotal \in Nat /\ pos \in Nat /\ inflight \in Int /\ BufferSize \in Nat
      /\ ChunkSizes \subseteq Nat /\ arg[c] \in ChunkSizes
      /\ pos' = pos /\ inflight' = inflight
  BY OutPipeAssumption DEF IInv, TypeOK, ArgFits, SendWrite
<1>2. wtotal' = wtotal \/ (~Pushback /\ wtotal' = wtotal + arg[c])
  BY DEF SendWrite
<1>3. CASE wtotal' = wtotal
  BY <1>1, <1>3 DEF MemoryBound, BufferLen
<1>4. CASE ~Pushback /\ wtotal' = wtotal + arg[c]
  <2> SUFFICES ASSUME Bounded, NEW n \in ChunkSizes, \A m \in ChunkSizes : m <= n
               PROVE  (inflight + BufferLen)' < BufferSize + n
    BY DEF MemoryBound, Bounded
  <2>1. inflight + (wtotal - pos) < BufferSize
    BY <1>1, <1>4 DEF Pushback, BufferLen
  <2>2. arg[c] <= n /\ arg[c] \in Nat /\ n \in Nat
    BY <1>1
  <2> QED BY <1>1, <1>4, <2>1, <2>2 DEF BufferLen
<1> QED BY <1>2, <1>3, <1>4

(* No other step lets the pipe hold more. *)
LEMMA HeldNeverGrows ==
    ASSUME IInv, [Next]_vars, \A c \in Callers : ~SendWrite(c)
    PROVE  Kept' <= Kept
<1> SUFFICES ASSUME TypeOK, wtotal \in Nat, pos \in Nat, inflight \in Int, pos <= wtotal
             PROVE  Kept' <= Kept
  BY DEF IInv, TypeOK, BufferFits
<1>1. CASE UNCHANGED <<inflight, pos, wtotal>>
  BY <1>1 DEF Kept, BufferLen
<1>2. CASE \E c \in Callers : SendSubmit(c)
  <2>1. PICK c \in Callers : SendSubmit(c)
    BY <1>2
  <2>2. BufferLen >= Threshold /\ wtotal' = wtotal
    BY <2>1 DEF SendSubmit, MaySubmit
  <2>3. SliceEnd \in Int
    BY <2>2, SliceProperties
  <2>4. Kept' = Kept - 0
    BY <2>1, <2>2, <2>3, SubmitHolds DEF SendSubmit
  <2> QED BY <2>4 DEF Kept, BufferLen
<1>3. CASE \E c \in Callers : FlushSubmit(c)
  <2>1. PICK c \in Callers : FlushSubmit(c)
    BY <1>3
  <2>2. CASE FlushFits /\ BufferLen > 0
    <3>1. Kept' = Kept - 0
      BY <2>1, <2>2, SubmitHolds DEF FlushSubmit
    <3> QED BY <3>1 DEF Kept, BufferLen
  <2>3. CASE ~(FlushFits /\ BufferLen > 0)
    BY <1>1, <2>1, <2>3 DEF FlushSubmit
  <2> QED BY <2>2, <2>3
<1>4. CASE \E c \in Callers : EndCancel(c)
  <2>1. inflight' = inflight /\ wtotal' = wtotal /\ (pos' = pos \/ pos' = wtotal)
    BY <1>4 DEF EndCancel, Clear
  <2> QED BY <2>1 DEF Kept, BufferLen
<1>5. CASE TaskWake
  <2> SUFFICES ASSUME NEW t, t = Head(ready).task PROVE Kept' <= Kept
    OBVIOUS
  <2>1. t \in TaskIds /\ HandleFits(Head(ready), tasks) /\ Head(ready).kind = "wake"
    BY <1>5, TurnProperties DEF TaskWake
  <2>2. tasks[t].state # "over" /\ TaskFits(t)
    BY <2>1 DEF HandleFits, IInv
  <2>3. Acked(t) \in Nat
    BY <2>2, XferSizeProperties DEF Acked, TaskFits
  <2>4. wtotal' = wtotal
    BY <1>5 DEF TaskWake
  <2>5. CASE HasToCancel(t)
    BY <1>1, <1>5, <2>4, <2>5 DEF TaskWake
  <2>6. CASE ~HasToCancel(t) /\ Outcome(t) = "ok" /\ BufferLen >= Threshold
    <3>1. Submit(SliceEnd, [tasks EXCEPT ![t] = Ended(Outcome(t))], Acked(t),
                 Tail(ready) \o <<StartHandle(Len(tasks) + 1), CallbackHandle(t)>>)
      BY <1>5, <2>6 DEF TaskWake
    <3>2. SliceEnd \in Int
      BY <2>6, SliceProperties
    <3>3. Kept' = Kept - Acked(t)
      BY <2>3, <2>4, <3>1, <3>2, SubmitHolds
    <3> QED BY <2>3, <3>3 DEF Kept, BufferLen
  <2>7. CASE ~HasToCancel(t) /\ ~(Outcome(t) = "ok" /\ BufferLen >= Threshold)
    <3>1. inflight' = inflight - Acked(t) /\ pos' = pos
      BY <1>5, <2>7 DEF TaskWake
    <3> QED BY <2>3, <2>4, <3>1 DEF Kept, BufferLen
  <2> QED BY <2>5, <2>6, <2>7
<1>7. CASE TaskRefused
  <2> SUFFICES ASSUME NEW t, t = Head(ready).task PROVE Kept' <= Kept
    OBVIOUS
  <2>1. t \in TaskIds /\ HandleFits(Head(ready), tasks) /\ Head(ready).kind = "start"
    BY <1>7, TurnProperties DEF TaskRefused
  <2>2. tasks[t].state # "over" /\ TaskFits(t)
    BY <2>1 DEF HandleFits, IInv
  <2>3. Size(t) \in Nat
    BY <2>2, XferSizeProperties DEF TaskFits
  <2>4. inflight' = inflight - Size(t) /\ pos' = pos /\ wtotal' = wtotal
    BY <1>7 DEF TaskRefused
  <2> QED BY <2>3, <2>4 DEF Kept, BufferLen
<1>6. \/ UNCHANGED <<inflight, pos, wtotal>>
      \/ \E c \in Callers : SendSubmit(c) \/ FlushSubmit(c) \/ EndCancel(c)
      \/ TaskWake \/ TaskRefused
  <2>1. CASE \E c \in Callers : CallerStep(c)
    <3>1. PICK c \in Callers : CallerStep(c)
      BY <2>1
    <3> QED BY <3>1 DEF CallerStep, restVars, outside, pipeVars, Yields, CallSend, SendWait,
               SendReturn, CallFlush, FlushWait, FlushDrain, FlushReturn, CallReset
  <2>2. CASE \E c \in Callers : CallerWakes(c) /\ UNCHANGED <<outside, arg, mark>>
    BY <2>2 DEF outside, pipeVars
  <2>3. CASE LoopStep \/ UsbStep
    BY <2>3 DEF LoopStep, UsbStep, TaskStart, LoopCallback, UsbComplete, restVars
  <2>4. CASE UNCHANGED vars
    BY <2>4 DEF vars, outside, pipeVars
  <2> QED BY <2>1, <2>2, <2>3, <2>4 DEF Next
<1> QED BY <1>1, <1>2, <1>3, <1>4, <1>5, <1>6, <1>7

(* The limit that the comment in send() describes: whatever callers wait   *)
(* for room at once, a bounded pipe never holds more, buffered and in      *)
(* flight, than its limit and the data of one call.                        *)
THEOREM MemoryBounded == Spec => []MemoryBound
<1>1. Init => MemoryBound
  <2> SUFFICES ASSUME Init, NEW n \in ChunkSizes
               PROVE  inflight + BufferLen < BufferSize + n
    BY DEF MemoryBound
  <2> QED BY OutPipeAssumption DEF Init, BufferLen
<1>2. IInv /\ MemoryBound /\ [Next]_vars => MemoryBound'
  <2> SUFFICES ASSUME IInv, MemoryBound, [Next]_vars PROVE MemoryBound'
    OBVIOUS
  <2>1. CASE \E c \in Callers : SendWrite(c)
    BY <2>1, SendWriteHolds
  <2>2. CASE \A c \in Callers : ~SendWrite(c)
    <3>1. Kept' <= Kept
      BY <2>2, HeldNeverGrows
    <3>2. Kept \in Int /\ Kept' \in Int
      <4>1. IInv'
        BY NextOK
      <4> QED BY SMTT(30), ZenonT(30), <4>1 DEF IInv, TypeOK, Kept, BufferLen
    <3>3. BufferSize \in Nat /\ ChunkSizes \subseteq Nat
      BY OutPipeAssumption
    <3> QED BY <3>1, <3>2, <3>3 DEF MemoryBound, Kept, Bounded
  <2> QED BY <2>1, <2>2
<1> QED BY <1>1, <1>2, Inductive, PTL DEF Spec

--------------------------------------------------------------------------------
(* What _out_inflight says *)

(* The count may only say more than the transfers hold after a reset(),    *)
(* when a task can be cancelled before it has started.                     *)
CoverInv ==
    LET held == Total(tasks, Unfinished)
    IN  /\ inflight >= held
        /\ resets = 0 => inflight = held /\ \A t \in TaskIds : ~tasks[t].mustCancel

LEMMA UnfinishedCounts ==
    ASSUME IInv
    PROVE  /\ Counts(tasks, Unfinished) /\ Total(tasks, Unfinished) \in Nat
           /\ \A t \in Unfinished : t \in TaskIds /\ Amount(tasks, t) = Size(t)
<1>1. IsFiniteSet(Unfinished) /\ XferSize \in Nat
  BY RoomForOne, XferSizeProperties
<1>2. \A t \in Unfinished : t \in TaskIds /\ Size(t) \in 1..XferSize
  BY DEF IInv, TaskFits, Unfinished, Over
<1>3. Counts(tasks, Unfinished)
  BY <1>1, <1>2 DEF Counts, Amount, Size
<1> QED BY <1>2, <1>3, TotalFacts DEF Amount, Size

(* No task leaves or joins. *)
LEMMA CoverKept ==
    ASSUME IInv, CoverInv, inflight' = inflight,
           TaskIds' = TaskIds, Unfinished' = Unfinished,
           \A t \in TaskIds : tasks'[t].from = tasks[t].from /\ tasks'[t].to = tasks[t].to,
           \/ resets' # 0
           \/ resets' = resets /\ \A t \in TaskIds : tasks'[t].mustCancel => tasks[t].mustCancel
    PROVE  CoverInv'
<1>1. Total(tasks', Unfinished') = Total(tasks, Unfinished)
  <2> SUFFICES ASSUME NEW ts, ts = tasks, NEW us, us = tasks', NEW S, S = Unfinished
               PROVE  Total(us, S) = Total(ts, S)
    OBVIOUS
  <2>1. Counts(ts, S) /\ SameAmounts(ts, us, S)
    BY UnfinishedCounts DEF SameAmounts, Amount
  <2> QED BY ONLY <2>1, TotalSame
<1> QED BY <1>1 DEF CoverInv

(* A task ends, and the count goes down with it. *)
LEMMA CoverLeaves ==
    ASSUME IInv, CoverInv, NEW t \in Unfinished, ~tasks'[t].mustCancel,
           TaskIds' = TaskIds, Unfinished' = Unfinished \ {t},
           \A u \in TaskIds : u # t => tasks'[u] = tasks[u],
           resets' = resets,
           \/ inflight' = inflight - Size(t)
           \/ inflight' = inflight /\ resets # 0
    PROVE  CoverInv'
<1>1. /\ Total(tasks', Unfinished') = Total(tasks, Unfinished) - Size(t)
      /\ Total(tasks, Unfinished) \in Nat /\ Size(t) \in Nat
  <2> SUFFICES ASSUME NEW ts, ts = tasks, NEW us, us = tasks', NEW S, S = Unfinished
               PROVE  /\ Total(us, S \ {t}) = Total(ts, S) - Amount(ts, t)
                      /\ Total(ts, S) \in Nat /\ Amount(ts, t) \in Nat
    BY UnfinishedCounts
  <2>1. t \in S /\ Counts(ts, S) /\ SameAmounts(ts, us, S \ {t})
    BY UnfinishedCounts DEF SameAmounts, Amount
  <2> QED BY ONLY <2>1, TotalLeaves
<1>2. inflight \in Int
  BY DEF IInv, TypeOK
<1> QED BY <1>1, <1>2 DEF CoverInv

(* A task is submitted. *)
LEMMA CoverJoins ==
    ASSUME IInv, CoverInv, NEW n, n \notin TaskIds, ~tasks'[n].mustCancel,
           TaskIds' = TaskIds \cup {n}, Unfinished' = Unfinished \cup {n},
           \A u \in TaskIds : tasks'[u] = tasks[u],
           resets' = resets, NEW size \in Nat, Amount(tasks', n) = size,
           inflight' = inflight + size
    PROVE  CoverInv'
<1>1. /\ Total(tasks', Unfinished') = Total(tasks, Unfinished) + size
      /\ Total(tasks, Unfinished) \in Nat
  <2> SUFFICES ASSUME NEW ts, ts = tasks, NEW us, us = tasks', NEW S, S = Unfinished
               PROVE  Total(us, S \cup {n}) = Total(ts, S) + Amount(us, n)
    BY UnfinishedCounts
  <2>1. /\ n \notin S /\ Counts(ts, S) /\ SameAmounts(ts, us, S)
        /\ Amount(us, n) \in Nat
    BY UnfinishedCounts DEF SameAmounts, Amount, Unfinished
  <2> QED BY ONLY <2>1, TotalJoins
<1>2. inflight \in Int
  BY DEF IInv, TypeOK
<1> QED BY <1>1, <1>2 DEF CoverInv

(* A task ends and hands its place to its successor. *)
LEMMA CoverMoves ==
    ASSUME IInv, CoverInv, NEW t \in Unfinished, ~tasks'[t].mustCancel,
           NEW n, n \notin TaskIds, ~tasks'[n].mustCancel,
           TaskIds' = TaskIds \cup {n}, Unfinished' = (Unfinished \ {t}) \cup {n},
           \A u \in TaskIds : u # t => tasks'[u] = tasks[u],
           resets' = resets, NEW size \in Nat, Amount(tasks', n) = size,
           inflight' = (inflight - Size(t)) + size
    PROVE  CoverInv'
<1>1. /\ Total(tasks', Unfinished') = (Total(tasks, Unfinished) - Size(t)) + size
      /\ Total(tasks, Unfinished) \in Nat /\ Size(t) \in Nat
  <2> SUFFICES ASSUME NEW ts, ts = tasks, NEW us, us = tasks', NEW S, S = Unfinished
               PROVE  /\ Total(us, (S \ {t}) \cup {n})
                            = (Total(ts, S) - Amount(ts, t)) + Amount(us, n)
                      /\ Total(ts, S) \in Nat /\ Amount(ts, t) \in Nat
    BY UnfinishedCounts
  <2>1. t \in S /\ Counts(ts, S) /\ SameAmounts(ts, us, S \ {t})
    BY UnfinishedCounts DEF SameAmounts, Amount
  <2>2. /\ Total(us, S \ {t}) = Total(ts, S) - Amount(ts, t)
        /\ Total(ts, S) \in Nat /\ Amount(ts, t) \in Nat
    BY ONLY <2>1, TotalLeaves
  <2>3. PICK R : R = S \ {t}
    OBVIOUS
  <2>4. /\ n \notin R /\ Counts(us, R) /\ SameAmounts(us, us, R)
        /\ Amount(us, n) \in Nat
    <3>1. n \notin R /\ Amount(us, n) \in Nat
      BY <2>3 DEF Unfinished
    <3>2. IsFiniteSet(R)
      BY <2>1, <2>3, FS_Subset DEF Counts
    <3> QED BY <2>1, <2>3, <3>1, <3>2 DEF Counts, SameAmounts
  <2>5. Total(us, R \cup {n}) = Total(us, R) + Amount(us, n)
    BY ONLY <2>4, TotalJoins
  <2> QED BY <2>2, <2>3, <2>5
<1>2. inflight \in Int
  BY DEF IInv, TypeOK
<1> QED BY <1>1, <1>2 DEF CoverInv

(* A step that leaves the tasks and the count alone. *)
LEMMA CoverQuiet ==
    ASSUME IInv, CoverInv, UNCHANGED <<tasks, inflight, resets>>
    PROVE  CoverInv'
<1>1. TaskIds' = TaskIds /\ Unfinished' = Unfinished
  BY DEF TaskIds, Unfinished, Over
<1> QED BY <1>1, CoverKept

(* One task moves on without ending, or is over and stays so. *)
LEMMA CoverMovesOn ==
    ASSUME IInv, CoverInv, NEW t \in TaskIds, NEW new \in TaskRecords, SetTask(t, new),
           new.from = tasks[t].from, new.to = tasks[t].to,
           new.mustCancel = tasks[t].mustCancel,
           new.state = "over" <=> tasks[t].state = "over", UNCHANGED <<inflight, resets>>
    PROVE  CoverInv'
<1>1. /\ TaskIds' = TaskIds /\ tasks'[t] = new
      /\ \A u \in TaskIds : u # t => tasks'[u] = tasks[u]
  BY SetTaskProperties DEF IInv, TypeOK
<1>2. Unfinished' = Unfinished
  BY <1>1 DEF Unfinished, Over
<1> QED BY <1>1, <1>2, CoverKept

(* A caller submits the buffer up to b. *)
LEMMA CoverSubmit ==
    ASSUME IInv, CoverInv, NEW b \in Nat, b \in (pos + 1)..wtotal, pos < wtotal, NEW q,
           Submit(b, tasks, 0, q), resets' = resets
    PROVE  CoverInv'
<1> SUFFICES ASSUME NEW n, n = Len(tasks) + 1 PROVE CoverInv'
  OBVIOUS
<1>1. /\ tasks \in Seq(TaskRecords) /\ pos \in Nat /\ wtotal \in Nat /\ inflight \in Int
      /\ ends \subseteq (pos + 1)..wtotal /\ wtotal \in ends /\ 0 \in Int
  BY DEF IInv, TypeOK, BufferFits
<1>2. /\ Len(tasks') = Len(tasks) + 1 /\ tasks'[n] = Task(pos, b)
      /\ \A t \in 1..Len(tasks) : tasks'[t] = tasks[t]
  BY <1>1, SubmitProperties
<1>3. /\ TaskIds = 1..Len(tasks) /\ TaskIds' = TaskIds \cup {n} /\ n \notin TaskIds
  BY <1>1, <1>2, LenProperties DEF TaskIds
<1>4. Unfinished' = Unfinished \cup {n}
  BY <1>2, <1>3 DEF Unfinished, Over, Task
<1>5. Amount(tasks', n) = b - pos /\ b - pos \in Nat /\ ~tasks'[n].mustCancel
  BY <1>1, <1>2 DEF Amount, Task
<1>6. inflight' = inflight + (b - pos)
  BY <1>1 DEF Submit
<1>7. \A u \in TaskIds : tasks'[u] = tasks[u]
  BY <1>2, <1>3
<1> QED BY <1>3, <1>4, <1>5, <1>6, <1>7, CoverJoins

LEMMA CoverCaller ==
    ASSUME IInv, CoverInv, NEW c \in Callers, CallerStep(c)
    PROVE  CoverInv'
<1>1. CASE SendSubmit(c)
  <2>1. BufferLen >= Threshold /\ resets' = resets
    BY <1>1 DEF SendSubmit, MaySubmit
  <2>2. SliceEnd \in Nat /\ SliceEnd \in (pos + 1)..wtotal
    BY <2>1, SliceProperties
  <2>3. pos < wtotal
    BY <2>2 DEF IInv, TypeOK
  <2>4. Submit(SliceEnd, tasks, 0, Append(ready, StartHandle(Len(tasks) + 1)))
    BY <1>1 DEF SendSubmit
  <2> QED BY <2>1, <2>2, <2>3, <2>4, CoverSubmit
<1>2. CASE FlushSubmit(c)
  <2>1. CASE FlushFits /\ BufferLen > 0
    <3>1. wtotal \in Nat /\ wtotal \in (pos + 1)..wtotal /\ pos < wtotal
      BY <2>1 DEF IInv, TypeOK, BufferLen
    <3>2. /\ Submit(wtotal, tasks, 0, Append(ready, StartHandle(Len(tasks) + 1)))
          /\ resets' = resets
      BY <1>2, <2>1 DEF FlushSubmit
    <3> QED BY <3>1, <3>2, CoverSubmit
  <2>2. CASE ~(FlushFits /\ BufferLen > 0)
    BY <1>2, <2>2, CoverQuiet DEF FlushSubmit
  <2> QED BY <2>1, <2>2
<1>3. CASE CallReset(c)
  <2>1. /\ tasks' = Cancelled /\ resets' = resets + 1 /\ inflight' = inflight
    BY <1>3 DEF CallReset, CancelQueue
  <2>2. /\ Len(Cancelled) = Len(tasks)
        /\ \A t \in TaskIds :
              /\ Cancelled[t].from = tasks[t].from /\ Cancelled[t].to = tasks[t].to
              /\ Cancelled[t].state = IF t \in Interrupted THEN "cancelled" ELSE tasks[t].state
        /\ \A t \in Interrupted : t \in TaskIds /\ tasks[t].state = "inflight"
    BY CancelledProperties
  <2>3. TaskIds' = TaskIds
    BY <2>1, <2>2 DEF TaskIds
  <2>4. Unfinished' = Unfinished
    BY <2>1, <2>2, <2>3 DEF Unfinished, Over
  <2>5. resets' # 0
    BY <2>1 DEF IInv, TypeOK
  <2> QED BY <2>1, <2>2, <2>3, <2>4, <2>5, CoverKept
<1>4. CASE ~SendSubmit(c) /\ ~FlushSubmit(c) /\ ~CallReset(c)
  <2>1. UNCHANGED <<tasks, inflight, resets>>
    BY <1>4 DEF CallerStep, Resume, restVars, outside, pipeVars, Yields, CallSend, SendWait,
         SendWrite, SendReturn, CallFlush, FlushWait, FlushDrain, FlushReturn, EndCancel
  <2> QED BY <2>1, CoverQuiet
<1> QED BY <1>1, <1>2, <1>3, <1>4

(* A task that ends at its first step has left the count, or was cancelled *)
(* by a reset().                                                           *)
LEMMA CoverEndsAtStart ==
    ASSUME IInv, CoverInv, NEW outcome \in Outcomes, EndsAtStart(outcome),
           \/ inflight' = inflight - Size(Head(ready).task)
           \/ inflight' = inflight /\ resets # 0
    PROVE  CoverInv'
<1> SUFFICES ASSUME NEW t, t = Head(ready).task PROVE CoverInv'
  OBVIOUS
<1>1. /\ t \in TaskIds /\ HandleFits(Head(ready), tasks) /\ Head(ready).kind = "start"
      /\ tasks \in Seq(TaskRecords)
  BY TurnProperties DEF EndsAtStart
<1>2. t \in Unfinished
  BY <1>1 DEF HandleFits, Unfinished, Over
<1>3. SetTask(t, Ended(outcome)) /\ resets' = resets
  BY DEF EndsAtStart
<1>4. Ended(outcome) \in TaskRecords /\ Ended(outcome).state = "over"
  BY EndedType
<1>5. /\ TaskIds' = TaskIds /\ tasks'[t] = Ended(outcome)
      /\ \A u \in TaskIds : u # t => tasks'[u] = tasks[u]
  BY <1>1, <1>3, <1>4, SetTaskProperties
<1>6. Unfinished' = Unfinished \ {t}
  BY <1>1, <1>4, <1>5 DEF Unfinished, Over
<1>7. ~tasks'[t].mustCancel
  BY <1>5 DEF Ended, Task
<1> QED BY <1>2, <1>3, <1>5, <1>6, <1>7, CoverLeaves

LEMMA CoverRefused ==
    ASSUME IInv, CoverInv, TaskRefused
    PROVE  CoverInv'
<1>1. inflight' = inflight - Size(Head(ready).task) /\ "error" \in Outcomes
  BY DEF TaskRefused, Outcomes
<1> QED BY <1>1, StartEnds, CoverEndsAtStart

LEMMA CoverStart ==
    ASSUME IInv, CoverInv, TaskStart
    PROVE  CoverInv'
<1> SUFFICES ASSUME NEW t, t = Head(ready).task PROVE CoverInv'
  OBVIOUS
<1>1. /\ t \in TaskIds /\ HandleFits(Head(ready), tasks) /\ Head(ready).kind = "start"
      /\ tasks \in Seq(TaskRecords) /\ tasks[t] \in TaskRecords
  BY TurnProperties DEF TaskStart
<1>2. tasks[t].state = "created" /\ t \in Unfinished
  BY <1>1 DEF HandleFits, Unfinished, Over
<1>3. inflight' = inflight /\ resets' = resets
  BY DEF TaskStart
<1>4. CASE tasks[t].mustCancel
  <2>1. resets # 0 /\ "cancelled" \in Outcomes
    BY <1>1, <1>4 DEF CoverInv, Outcomes
  <2> QED BY <1>3, <1>4, <2>1, StartEnds, CoverEndsAtStart
<1>5. CASE ~tasks[t].mustCancel
  <2> DEFINE new == [tasks[t] EXCEPT !.state = "inflight", !.urb = "submitted"]
  <2>1. /\ new \in TaskRecords /\ new.state = "inflight"
        /\ new.from = tasks[t].from /\ new.to = tasks[t].to
        /\ new.mustCancel = tasks[t].mustCancel
    BY <1>1 DEF TaskRecords, TaskState, UrbState
  <2>2. SetTask(t, new)
    BY <1>5 DEF TaskStart
  <2> HIDE DEF new
  <2> QED BY <1>1, <1>2, <1>3, <2>1, <2>2, CoverMovesOn
<1> QED BY <1>4, <1>5

LEMMA CoverWake ==
    ASSUME IInv, CoverInv, TaskWake
    PROVE  CoverInv'
<1> SUFFICES ASSUME NEW t, t = Head(ready).task PROVE CoverInv'
  OBVIOUS
<1>1. /\ t \in TaskIds /\ HandleFits(Head(ready), tasks) /\ Head(ready).kind = "wake"
      /\ tasks \in Seq(TaskRecords) /\ tasks[t] \in TaskRecords
  BY TurnProperties DEF TaskWake
<1>2. tasks[t].state \in {"completed", "cancelled", "retired"} /\ TaskFits(t)
  BY <1>1 DEF HandleFits, IInv
<1>3. t \in Unfinished /\ resets' = resets /\ wtotal' = wtotal
  BY <1>1, <1>2 DEF TaskWake, Unfinished, Over
<1>4. Outcome(t) \in Outcomes
  BY <1>2 DEF Outcome, Outcomes, TaskFits
<1>5. /\ Ended(Outcome(t)) \in TaskRecords /\ Ended(Outcome(t)).state = "over"
      /\ ~Ended(Outcome(t)).mustCancel
  <2>1. ~Ended(Outcome(t)).mustCancel
    BY DEF Ended, Task
  <2> QED BY <1>4, <2>1, EndedType
<1>6. CASE HasToCancel(t)
  <2> DEFINE new == [tasks[t] EXCEPT !.state = "cancelling"]
  <2>1. /\ new \in TaskRecords /\ new.state = "cancelling"
        /\ new.from = tasks[t].from /\ new.to = tasks[t].to
        /\ new.mustCancel = tasks[t].mustCancel
    BY <1>1 DEF TaskRecords, TaskState
  <2>2. SetTask(t, new) /\ inflight' = inflight
    BY <1>6 DEF TaskWake
  <2> HIDE DEF new
  <2>3. tasks[t].state # "over"
    BY <1>2
  <2> QED BY <1>1, <1>3, <2>1, <2>2, <2>3, CoverMovesOn
<1>7. CASE ~HasToCancel(t) /\ Outcome(t) = "ok" /\ BufferLen >= Threshold
  <2> SUFFICES ASSUME NEW b, b = SliceEnd, NEW ts, ts = [tasks EXCEPT ![t] = Ended(Outcome(t))],
                      NEW n, n = Len(tasks) + 1
               PROVE  CoverInv'
    OBVIOUS
  <2>1. \E q : Submit(b, ts, Acked(t), q)
    BY <1>7 DEF TaskWake
  <2>2. /\ b \in Nat /\ b \in (pos + 1)..wtotal /\ pos \in Nat /\ wtotal \in Nat
        /\ inflight \in Int /\ ends \subseteq (pos + 1)..wtotal
    BY <1>7, SliceProperties DEF IInv, TypeOK
  <2>3. wtotal \in ends
    BY <2>2 DEF IInv, BufferFits
  <2>4. /\ ts \in Seq(TaskRecords) /\ Len(ts) = Len(tasks) /\ ts[t] = Ended(Outcome(t))
        /\ \A u \in TaskIds : u # t => ts[u] = tasks[u]
    BY <1>1, <1>5, ExceptSeq DEF TaskIds
  <2>5. Acked(t) = Size(t) /\ Acked(t) \in Int
    BY <1>1 DEF Acked, Size, TaskRecords
  <2>6. /\ Len(tasks') = Len(ts) + 1 /\ tasks'[Len(ts) + 1] = Task(pos, b)
        /\ \A u \in 1..Len(ts) : tasks'[u] = ts[u]
    BY <2>1, <2>2, <2>3, <2>4, <2>5, SubmitProperties
  <2>7. /\ TaskIds = 1..Len(tasks) /\ TaskIds' = TaskIds \cup {n} /\ n \notin TaskIds
    BY <1>1, <2>4, <2>6, LenProperties DEF TaskIds
  <2>8. /\ tasks'[n] = Task(pos, b) /\ tasks'[t] = Ended(Outcome(t))
        /\ \A u \in TaskIds : u # t => tasks'[u] = tasks[u]
    BY <1>1, <2>4, <2>6, <2>7
  <2>9. Unfinished' = (Unfinished \ {t}) \cup {n}
    BY <1>1, <1>5, <2>7, <2>8 DEF Unfinished, Over, Task
  <2>10. Amount(tasks', n) = b - pos /\ b - pos \in Nat /\ ~tasks'[n].mustCancel
    BY <2>2, <2>8 DEF Amount, Task
  <2>11. inflight' = (inflight - Size(t)) + (b - pos)
    BY <2>1, <2>5 DEF Submit
  <2> QED BY <1>3, <1>5, <2>7, <2>8, <2>9, <2>10, <2>11, CoverMoves
<1>8. CASE ~HasToCancel(t) /\ ~(Outcome(t) = "ok" /\ BufferLen >= Threshold)
  <2>1. SetTask(t, Ended(Outcome(t))) /\ inflight' = inflight - Size(t)
    BY <1>8 DEF TaskWake, SetTask, Acked
  <2>2. /\ TaskIds' = TaskIds /\ tasks'[t] = Ended(Outcome(t))
        /\ \A u \in TaskIds : u # t => tasks'[u] = tasks[u]
    BY <1>1, <1>5, <2>1, SetTaskProperties
  <2>3. Unfinished' = Unfinished \ {t}
    BY <1>1, <1>5, <2>2 DEF Unfinished, Over
  <2> QED BY <1>3, <1>5, <2>1, <2>2, <2>3, CoverLeaves
<1> QED BY <1>6, <1>7, <1>8

LEMMA CoverTransfer ==
    ASSUME IInv, CoverInv,
           \/ TransferCallback /\ UNCHANGED restVars
           \/ UsbComplete
           \/ UsbCancelled /\ UNCHANGED restVars
    PROVE  CoverInv'
<1>0. inflight' = inflight /\ resets' = resets /\ tasks \in Seq(TaskRecords)
  BY DEF restVars, UsbComplete, IInv, TypeOK
<1>1. ASSUME NEW t \in TaskIds, NEW state \in {"completed", "retired"},
             SetTask(t, [tasks[t] EXCEPT !.state = state]), tasks[t].state # "over"
      PROVE  CoverInv'
  <2> DEFINE new == [tasks[t] EXCEPT !.state = state]
  <2>1. tasks[t] \in TaskRecords
    BY <1>0, <1>1, ElementOfSeq DEF TaskIds
  <2>2. /\ new \in TaskRecords /\ new.state = state
        /\ new.from = tasks[t].from /\ new.to = tasks[t].to
        /\ new.mustCancel = tasks[t].mustCancel
    BY <1>1, <2>1 DEF TaskRecords, TaskState
  <2>3. SetTask(t, new)
    BY <1>1
  <2> HIDE DEF new
  <2> QED BY <1>0, <1>1, <2>2, <2>3, CoverMovesOn
<1>2. CASE TransferCallback
  <2> SUFFICES ASSUME NEW t, t = Head(ready).task PROVE CoverInv'
    OBVIOUS
  <2>1. t \in TaskIds
    BY <1>2, TurnProperties DEF TransferCallback
  <2>2. CASE tasks[t].state = "inflight"
    <3>1. SetTask(t, [tasks[t] EXCEPT !.state = "completed"])
      BY <1>2, <2>2 DEF TransferCallback
    <3> QED BY <1>1, <2>1, <2>2, <3>1
  <2>3. CASE tasks[t].state = "cancelling"
    <3>1. SetTask(t, [tasks[t] EXCEPT !.state = "retired"])
      BY <1>2, <2>3 DEF TransferCallback
    <3> QED BY <1>1, <2>1, <2>3, <3>1
  <2>4. CASE tasks[t].state \notin {"inflight", "cancelling"}
    <3>1. tasks' = tasks
      BY <1>2, <2>4 DEF TransferCallback
    <3> QED BY <1>0, <3>1, CoverQuiet
  <2> QED BY <2>2, <2>3, <2>4
<1>3. ASSUME NEW t \in TaskIds, NEW urb \in {"ok", "error", "cancelled"},
             SetTask(t, [tasks[t] EXCEPT !.urb = urb])
      PROVE  CoverInv'
  <2> DEFINE new == [tasks[t] EXCEPT !.urb = urb]
  <2>1. tasks[t] \in TaskRecords
    BY <1>0, ElementOfSeq DEF TaskIds
  <2>2. /\ new \in TaskRecords /\ new.state = tasks[t].state
        /\ new.from = tasks[t].from /\ new.to = tasks[t].to
        /\ new.mustCancel = tasks[t].mustCancel
    BY <2>1 DEF TaskRecords, UrbState
  <2>3. SetTask(t, new)
    BY <1>3
  <2> HIDE DEF new
  <2> QED BY <1>0, <2>2, <2>3, CoverMovesOn
<1>4. CASE UsbComplete
  <2>1. PICK result \in {"ok", "error"} :
           SetTask(Head(urbs), [tasks[Head(urbs)] EXCEPT !.urb = result])
    BY <1>4 DEF UsbComplete
  <2>2. Head(urbs) \in TaskIds
    BY <1>4, HeadTailProperties DEF UsbComplete, CanComplete, IInv, TypeOK
  <2> QED BY <1>3, <2>1, <2>2
<1>5. CASE UsbCancelled
  <2>1. PICK i \in DOMAIN urbs :
           SetTask(urbs[i], [tasks[urbs[i]] EXCEPT !.urb = "cancelled"])
    BY <1>5 DEF UsbCancelled
  <2>2. urbs[i] \in TaskIds
    BY LenProperties, ElementOfSeq DEF IInv, TypeOK
  <2> QED BY <1>3, <2>1, <2>2
<1> QED BY <1>2, <1>4, <1>5

(* _out_inflight is never below what the tasks of the queue hold, and says  *)
(* exactly that until the first reset(): send() may be held back for too    *)
(* long after a task was cancelled unstarted, never for too short.          *)
THEOREM InflightCovered == Spec => []InflightCovers
<1>1. Init => CoverInv
  <2> SUFFICES ASSUME Init PROVE CoverInv
    OBVIOUS
  <2>1. TaskIds = {} /\ Unfinished = {} /\ inflight = 0
    BY DEF Init, TaskIds, Unfinished
  <2>2. Total(tasks, {}) = 0
    BY FS_EmptySet, TotalNothing
  <2> QED BY <2>1, <2>2 DEF CoverInv
<1>2. IInv /\ CoverInv /\ [Next]_vars => CoverInv'
  <2> SUFFICES ASSUME IInv, CoverInv, [Next]_vars PROVE CoverInv'
    OBVIOUS
  <2>1. CASE \E c \in Callers : CallerStep(c)
    BY <2>1, CoverCaller
  <2>2. CASE TaskStart \/ TaskRefused
    BY <2>2, CoverStart, CoverRefused
  <2>3. CASE TaskWake
    BY <2>3, CoverWake
  <2>4. CASE \/ TransferCallback /\ UNCHANGED restVars
             \/ UsbComplete
             \/ UsbCancelled /\ UNCHANGED restVars
    BY <2>4, CoverTransfer
  <2>5. CASE \/ \E c \in Callers : CallerWakes(c) /\ UNCHANGED <<outside, arg, mark>>
             \/ (TaskCallback \/ LateCompleted) /\ UNCHANGED <<tasks, urbs, restVars>>
             \/ UNCHANGED vars
    <3>1. UNCHANGED <<tasks, inflight, resets>>
      BY <2>5 DEF outside, pipeVars, restVars, vars
    <3> QED BY <3>1, CoverQuiet
  <2> QED BY <2>1, <2>2, <2>3, <2>4, <2>5 DEF Next, LoopStep, LoopCallback, UsbStep
<1>3. CoverInv => InflightCovers
  BY DEF CoverInv, InflightCovers, SumOver, Size, Total, MapThenSumSet, MapThenFoldSet
<1> QED BY <1>1, <1>2, <1>3, Inductive, PTL DEF Spec


--------------------------------------------------------------------------------
(* The callers *)

Outside == {"idle", "called", "run"}

Names(h, c) == h.kind = "resume" /\ c \in h.who

(* A caller that is about to be resumed waits for nothing any more, and is *)
(* resumed once.                                                           *)
Resumes(q, p, w, r) ==
    \A c \in Callers, i \in DOMAIN q : Names(q[i], c) =>
        /\ w[c] = {} /\ p[c] # "idle" /\ r # c
        /\ \A j \in DOMAIN q : Names(q[j], c) => j = i

CallersFit ==
    /\ Resumes(ready, pc, waitFor, running)
    /\ \A c \in Callers : /\ running = c => waitFor[c] = {} /\ pc[c] # "idle"
                          /\ pc[c] \in Outside => waitFor[c] = {}
    /\ \A c, d \in Callers : pc[c] = "cancel" /\ c # d => pc[d] \in Outside

(* A handle that resumes nobody, or somebody no other handle resumes. *)
LEMMA ResumesAppend ==
    ASSUME NEW q \in Seq(Handles), NEW h \in Handles, NEW p, NEW w, NEW r, Resumes(q, p, w, r),
           \A c \in Callers : Names(h, c) =>
               /\ w[c] = {} /\ p[c] # "idle" /\ r # c
               /\ \A i \in DOMAIN q : ~Names(q[i], c)
    PROVE  Append(q, h) \in Seq(Handles) /\ Resumes(Append(q, h), p, w, r)
<1>1. /\ Append(q, h) \in Seq(Handles) /\ Len(Append(q, h)) = Len(q) + 1
      /\ \A i \in 1..Len(q) : Append(q, h)[i] = q[i]
      /\ Append(q, h)[Len(q) + 1] = h
  BY AppendProperties
<1>2. DOMAIN q = 1..Len(q) /\ DOMAIN Append(q, h) = 1..(Len(q) + 1) /\ Len(q) \in Nat
  BY <1>1, LenProperties
<1>3. Resumes(Append(q, h), p, w, r)
  BY <1>1, <1>2 DEF Resumes
<1> QED BY <1>1, <1>3

LEMMA ResumesTail ==
    ASSUME NEW q \in Seq(Handles), q # <<>>, NEW p, NEW w, NEW r, Resumes(q, p, w, r)
    PROVE  /\ Head(q) \in Handles /\ Tail(q) \in Seq(Handles) /\ Resumes(Tail(q), p, w, r)
           /\ \A c \in Callers : Names(Head(q), c) =>
                 /\ w[c] = {} /\ p[c] # "idle" /\ r # c
                 /\ \A i \in DOMAIN Tail(q) : ~Names(Tail(q)[i], c)
           /\ \A c \in Callers : (\A i \in DOMAIN q : ~Names(q[i], c))
                 => \A i \in DOMAIN Tail(q) : ~Names(Tail(q)[i], c)
<1>1. /\ Head(q) \in Handles /\ Tail(q) \in Seq(Handles) /\ Len(Tail(q)) = Len(q) - 1
      /\ \A i \in 1..Len(Tail(q)) : Tail(q)[i] = q[i + 1]
  BY HeadTailProperties
<1>2. DOMAIN q = 1..Len(q) /\ DOMAIN Tail(q) = 1..Len(Tail(q)) /\ Len(q) \in Nat /\ Len(q) >= 1
  BY <1>1, LenProperties, EmptySeq
<1>3. Head(q) = q[1]
  BY <1>2
<1>4. \A i \in DOMAIN Tail(q) : i + 1 \in DOMAIN q /\ Tail(q)[i] = q[i + 1] /\ i + 1 # 1 /\ i \in Nat
  BY <1>1, <1>2
<1>5. Resumes(Tail(q), p, w, r)
  BY <1>4 DEF Resumes
<1>6. \A c \in Callers : Names(Head(q), c) =>
         /\ w[c] = {} /\ p[c] # "idle" /\ r # c
         /\ \A i \in DOMAIN Tail(q) : ~Names(Tail(q)[i], c)
  BY <1>2, <1>3, <1>4 DEF Resumes
<1> QED BY <1>1, <1>4, <1>5, <1>6

(* The rest of a handle that resumes several callers. *)
LEMMA ResumesCons ==
    ASSUME NEW q \in Seq(Handles), NEW h \in Handles, NEW p, NEW w, NEW r, Resumes(q, p, w, r),
           \A c \in Callers : Names(h, c) =>
               /\ w[c] = {} /\ p[c] # "idle" /\ r # c
               /\ \A i \in DOMAIN q : ~Names(q[i], c)
    PROVE  Resumes(<<h>> \o q, p, w, r)
<1> DEFINE s == <<h>> \o q
<1>1. <<h>> \in Seq(Handles) /\ Len(<<h>>) = 1 /\ <<h>>[1] = h
  OBVIOUS
<1>2. /\ s \in Seq(Handles) /\ Len(s) = Len(<<h>>) + Len(q)
      /\ \A i \in 1..(Len(<<h>>) + Len(q)) :
            s[i] = IF i <= Len(<<h>>) THEN <<h>>[i] ELSE q[i - Len(<<h>>)]
  BY <1>1, ConcatProperties
<1>3. Len(q) \in Nat /\ DOMAIN q = 1..Len(q) /\ DOMAIN s = 1..(1 + Len(q))
  BY <1>1, <1>2, LenProperties
<1> HIDE DEF s
<1>4. \A i \in DOMAIN s : i \in Nat /\ IF i = 1 THEN s[i] = h ELSE i - 1 \in DOMAIN q /\ s[i] = q[i - 1]
  BY <1>1, <1>2, <1>3
<1>5. Resumes(s, p, w, r)
  BY <1>3, <1>4 DEF Resumes
<1> QED BY <1>5 DEF s

(* Most handles resume nobody. *)
LEMMA OtherHandles ==
    ASSUME NEW q \in Seq(Handles), NEW h \in Handles, h.kind # "resume",
           Resumes(q, pc, waitFor, running)
    PROVE  /\ Append(q, h) \in Seq(Handles) /\ Resumes(Append(q, h), pc, waitFor, running)
           /\ q # <<>> => Tail(q) \in Seq(Handles) /\ Resumes(Tail(q), pc, waitFor, running)
  BY ResumesAppend, ResumesTail DEF Names

(* A caller that runs moves on. *)
LEMMA RunnerMoves ==
    ASSUME CallersFit, NEW c \in Callers, running = c, UNCHANGED <<running, waitFor>>,
           Resumes(ready', pc, waitFor, running),
           pc'[c] # "idle", pc'[c] # "cancel",
           pc[c] \notin Outside \/ \A d \in Callers : pc[d] # "cancel",
           \A d \in Callers : d # c => pc'[d] = pc[d]
    PROVE  CallersFit'
<1>1. Resumes(ready', pc', waitFor', running')
  BY DEF Resumes
<1>2. \A d \in Callers : d # c => pc[d] # "cancel" \/ pc[c] \in Outside
  BY DEF CallersFit
<1> QED BY <1>1, <1>2 DEF CallersFit

(* A caller that runs suspends, in wait_one(), wait_all() or cancel(). *)
LEMMA RunnerWaits ==
    ASSUME IInv, CallersFit, NEW c \in Callers, running = c,
           NEW q \in Seq(Handles), Resumes(q, pc, waitFor, running), AsyncioWait(c, Over, q),
           pc'[c] \notin Outside,
           pc'[c] = "cancel" => \A d \in Callers : d # c => pc[d] \in Outside,
           pc[c] \notin Outside \/ \A d \in Callers : pc[d] # "cancel",
           \A d \in Callers : d # c => pc'[d] = pc[d]
    PROVE  CallersFit'
<1>1. running' = NoCaller /\ NoCaller \notin Callers
  BY CallersAssumption DEF AsyncioWait
<1>2. \A d \in Callers : d # c => waitFor'[d] = waitFor[d]
  BY DEF AsyncioWait, IInv, TypeOK
<1>3. Resumes(q, pc', waitFor', running')
  BY <1>1, <1>2 DEF Resumes
<1>4. Resumes(ready', pc', waitFor', running')
  <2> DEFINE h == Handle("completed", 0, {c})
  <2>1. h \in Handles /\ h.kind = "completed"
    BY DEF Handle, Handles, Kinds
  <2>2. ready' = q \/ ready' = Append(q, h)
    BY DEF AsyncioWait
  <2> HIDE DEF h
  <2> QED BY <1>3, <2>1, <2>2, ResumesAppend DEF Names
<1>5. \A d \in Callers : d # c => pc[d] # "cancel" \/ pc[c] \in Outside
  BY DEF CallersFit
<1> QED BY <1>1, <1>2, <1>4, <1>5 DEF CallersFit, Outside

(* The event loop runs a handle that resumes nobody. *)
LEMMA LoopKeeps ==
    ASSUME CallersFit, UNCHANGED <<running, pc, waitFor>>, Resumes(ready', pc, waitFor, running)
    PROVE  CallersFit'
  BY DEF CallersFit

(* Waits end, and the callers whose waits they were are to be resumed. *)
LEMMA CompletedCallers ==
    ASSUME IInv, CallersFit, NEW kind \in {"callback", "completed"}, Turn(kind),
           NEW x, NEW who \in SUBSET Callers, Completed(x, who), UNCHANGED <<running, pc>>
    PROVE  CallersFit'
<1> DEFINE woken == WaitEnds(x, who)
           h == Handle("resume", 0, woken)
<1>1. /\ ready \in Seq(Handles) /\ ready # <<>> /\ running = NoCaller /\ NoCaller \notin Callers
      /\ Resumes(ready, pc, waitFor, running)
  BY CallersAssumption DEF IInv, TypeOK, Turn, CallersFit
<1>2. /\ woken \in SUBSET Callers /\ h \in Handles
      /\ \A c \in Callers : Names(h, c) <=> c \in woken
      /\ \A c \in woken : waitFor[c] # {} /\ pc[c] \notin Outside /\ waitFor'[c] = {}
  BY DEF WaitEnds, Handle, Handles, Kinds, Completed, CallersFit, Names
<1>3. \A c \in Callers : waitFor[c] = {} => waitFor'[c] = {}
  BY DEF Completed
<1>4. Tail(ready) \in Seq(Handles) /\ Resumes(Tail(ready), pc, waitFor, running)
  BY <1>1, ResumesTail
<1>5. Resumes(Tail(ready), pc', waitFor', running')
  BY <1>3, <1>4 DEF Resumes
<1>6. ready' = Tail(ready) \/ ready' = Append(Tail(ready), h)
  BY DEF Completed
<1>7. Resumes(ready', pc', waitFor', running')
  <2>1. ASSUME NEW c \in Callers, Names(h, c)
        PROVE  /\ waitFor'[c] = {} /\ pc'[c] # "idle" /\ running' # c
               /\ \A i \in DOMAIN Tail(ready) : ~Names(Tail(ready)[i], c)
    <3>1. waitFor[c] # {} /\ pc[c] \notin Outside /\ waitFor'[c] = {}
      BY <1>2, <2>1
    <3>2. \A i \in DOMAIN Tail(ready) : ~Names(Tail(ready)[i], c)
      BY <1>4, <3>1 DEF Resumes
    <3> QED BY <1>1, <3>1, <3>2 DEF Outside
  <2> HIDE DEF h
  <2>2. Resumes(Append(Tail(ready), h), pc', waitFor', running')
    BY <1>2, <1>4, <1>5, <2>1, ResumesAppend
  <2> QED BY <1>5, <1>6, <2>2
<1> QED BY <1>1, <1>3, <1>7 DEF CallersFit

LEMMA CallersCall ==
    ASSUME IInv, CallersFit, NEW c \in Callers, CallSend(c) \/ CallFlush(c)
    PROVE  CallersFit'
<1>1. /\ running = c /\ UNCHANGED <<running, waitFor, ready>>
      /\ pc' = [pc EXCEPT ![c] = "send"] \/ pc' = [pc EXCEPT ![c] = "flush"]
      /\ \A d \in Callers : pc[d] # "cancel"
  BY DEF CallSend, CallFlush, Calls, queueVars
<1>2. /\ pc'[c] \in {"send", "flush"} /\ \A d \in Callers : d # c => pc'[d] = pc[d]
      /\ Resumes(ready', pc, waitFor, running)
  BY <1>1 DEF IInv, TypeOK, CallersFit
<1> QED BY <1>1, <1>2, RunnerMoves

(* poll() by a caller that is inside the pipe. *)
LEMMA CallersPoll ==
    ASSUME IInv, CallersFit, NEW c \in Callers, running = c, pc[c] \notin Outside,
           pc[c] # "cancel",
           pc' = [pc EXCEPT ![c] = "run"] \/ pc' = pc, UNCHANGED <<ready, running, waitFor>>
    PROVE  CallersFit'
<1>1. /\ pc'[c] \in {"run", pc[c]} /\ \A d \in Callers : d # c => pc'[d] = pc[d]
      /\ Resumes(ready', pc, waitFor, running)
  BY DEF IInv, TypeOK, CallersFit
<1> QED BY <1>1, RunnerMoves DEF Outside

LEMMA CallersWait ==
    ASSUME IInv, CallersFit, NEW c \in Callers, running = c, pc[c] \in {"send", "flush", "drain"},
           AsyncioWait(c, Over, ready), UNCHANGED pc
    PROVE  CallersFit'
<1>1. ready \in Seq(Handles) /\ Resumes(ready, pc, waitFor, running) /\ pc[c] \notin Outside
  BY DEF IInv, TypeOK, CallersFit, Outside
<1> QED BY <1>1, RunnerWaits

LEMMA CallersSuspend ==
    ASSUME IInv, CallersFit, NEW c \in Callers, SendWait(c) \/ FlushWait(c) \/ FlushDrain(c)
    PROVE  CallersFit'
<1>1. running = c /\ pc[c] \in {"send", "flush", "drain"} /\ pc[c] \notin Outside
  BY DEF SendWait, FlushWait, FlushDrain, Outside
<1>2. \/ AsyncioWait(c, Over, ready) /\ UNCHANGED pc
      \/ /\ pc' = [pc EXCEPT ![c] = "run"] \/ pc' = pc
         /\ UNCHANGED <<ready, running, waitFor>>
  BY DEF SendWait, FlushWait, FlushDrain, WaitOne, Poll
<1> QED BY <1>1, <1>2, CallersWait, CallersPoll

LEMMA CallersMove ==
    ASSUME IInv, CallersFit, NEW c \in Callers,
           \/ SendWrite(c) \/ SendReturn(c) \/ FlushReturn(c) \/ EndCancel(c)
           \/ SendSubmit(c) \/ FlushSubmit(c)
    PROVE  CallersFit'
<1>1. /\ running = c /\ UNCHANGED <<running, waitFor>>
      /\ pc[c] \in {"send", "submit", "flush", "drain", "cancel"}
  BY DEF SendWrite, SendReturn, FlushReturn, EndCancel, SendSubmit, FlushSubmit, queueVars
<1>2. \/ pc' = pc /\ pc[c] = "submit"
      \/ pc' = [pc EXCEPT ![c] = "run"]
      \/ pc' = [pc EXCEPT ![c] = "submit"] \/ pc' = [pc EXCEPT ![c] = "drain"]
  BY DEF SendWrite, SendReturn, FlushReturn, EndCancel, SendSubmit, FlushSubmit
<1>3. /\ pc'[c] # "idle" /\ pc'[c] # "cancel" /\ \A d \in Callers : d # c => pc'[d] = pc[d]
      /\ pc[c] \notin Outside
  BY <1>1, <1>2 DEF IInv, TypeOK, Outside
<1> DEFINE h == StartHandle(Len(tasks) + 1)
<1>4. ready' = ready \/ ready' = Append(ready, h)
  BY DEF SendWrite, SendReturn, FlushReturn, EndCancel, SendSubmit, FlushSubmit, Submit
<1>5. h \in Handles /\ h.kind # "resume"
  <2>1. Len(tasks) + 1 \in Nat
    BY LenProperties DEF IInv, TypeOK
  <2> QED BY <2>1 DEF StartHandle, Handle, Handles, Kinds
<1> HIDE DEF h
<1>6. Resumes(ready', pc, waitFor, running)
  BY <1>4, <1>5, OtherHandles DEF CallersFit, IInv, TypeOK
<1> QED BY <1>1, <1>3, <1>6, RunnerMoves

LEMMA CallersGo ==
    ASSUME IInv, CallersFit, NEW c \in Callers,
           \/ CallerWakes(c) /\ UNCHANGED <<outside, arg, mark>>
           \/ Yields(c)
    PROVE  CallersFit'
<1>0. ready \in Seq(Handles) /\ Resumes(ready, pc, waitFor, running)
  BY DEF IInv, TypeOK, CallersFit
<1>1. CASE CallerWakes(c)
  <2>1. /\ pc[c] = "idle" /\ UNCHANGED <<running, waitFor>> /\ pc'[c] = "called"
        /\ \A d \in Callers : d # c => pc'[d] = pc[d]
    BY <1>1 DEF CallerWakes, IInv, TypeOK
  <2>2. running # c /\ waitFor[c] = {} /\ \A i \in DOMAIN ready : ~Names(ready[i], c)
    BY <1>0, <2>1 DEF CallersFit, Outside, Resumes
  <2>3. Resumes(ready, pc', waitFor', running')
    BY <1>0, <2>1, <2>2 DEF Resumes
  <2> DEFINE h == Handle("resume", 0, {c})
  <2>4. h \in Handles /\ \A d \in Callers : Names(h, d) => d = c
    BY DEF Handle, Handles, Kinds, Names
  <2>5. ready' = Append(ready, h)
    BY <1>1 DEF CallerWakes
  <2> HIDE DEF h
  <2>6. \A d \in Callers : Names(h, d) =>
           /\ waitFor'[d] = {} /\ pc'[d] # "idle" /\ running' # d
           /\ \A i \in DOMAIN ready : ~Names(ready[i], d)
    BY <2>1, <2>2, <2>4
  <2>7. Resumes(ready', pc', waitFor', running')
    BY <1>0, <2>3, <2>4, <2>5, <2>6, ResumesAppend
  <2> QED BY <2>1, <2>2, <2>7 DEF CallersFit, Outside
<1>2. CASE Yields(c)
  <2>1. /\ pc[c] = "run" /\ running = c /\ running' = NoCaller /\ UNCHANGED <<ready, waitFor>>
        /\ pc'[c] = "idle" /\ \A d \in Callers : d # c => pc'[d] = pc[d]
        /\ NoCaller \notin Callers
    BY <1>2, CallersAssumption DEF Yields, Yield, IInv, TypeOK
  <2>2. Resumes(ready', pc', waitFor', running')
    BY <1>0, <2>1 DEF Resumes
  <2> QED BY <2>1, <2>2 DEF CallersFit, Outside
<1> QED BY <1>1, <1>2

LEMMA CallersResume ==
    ASSUME IInv, CallersFit, NEW c \in Callers, Resume(c)
    PROVE  CallersFit'
<1>1. /\ ready \in Seq(Handles) /\ ready # <<>> /\ Resumes(ready, pc, waitFor, running)
      /\ running = NoCaller /\ NoCaller \notin Callers
      /\ Head(ready).kind = "resume" /\ c \in Head(ready).who
      /\ running' = c /\ UNCHANGED waitFor
  BY CallersAssumption DEF IInv, TypeOK, CallersFit, Resume, Turn
<1>2. /\ Head(ready) \in Handles /\ Tail(ready) \in Seq(Handles)
      /\ Resumes(Tail(ready), pc, waitFor, running)
      /\ \A d \in Callers : d \in Head(ready).who =>
            /\ waitFor[d] = {} /\ pc[d] # "idle"
            /\ \A i \in DOMAIN Tail(ready) : ~Names(Tail(ready)[i], d)
  BY <1>1, ResumesTail DEF Names
<1>3. /\ \A d \in Callers : d # c => pc'[d] = pc[d]
      /\ pc'[c] # "idle" /\ (pc'[c] = "cancel" => pc[c] = "cancel")
      /\ pc[c] \in Outside => pc'[c] \in Outside
  BY <1>1, <1>2 DEF Resume, Poll, IInv, TypeOK, Outside
<1>4. Resumes(Tail(ready), pc', waitFor', running')
  BY <1>1, <1>2, <1>3 DEF Resumes
<1>5. Resumes(ready', pc', waitFor', running')
  <2> DEFINE who == Head(ready).who \ {c}
             h == Handle("resume", 0, who)
  <2>1. h \in Handles /\ \A d \in Callers : Names(h, d) => d \in Head(ready).who /\ d # c
    BY <1>2 DEF Handle, Handles, Kinds, Names
  <2>2. ready' = Tail(ready) \/ ready' = <<h>> \o Tail(ready)
    BY DEF Resume, RestOfResume
  <2> HIDE DEF h
  <2>3. \A d \in Callers : Names(h, d) =>
           /\ waitFor'[d] = {} /\ pc'[d] # "idle" /\ running' # d
           /\ \A i \in DOMAIN Tail(ready) : ~Names(Tail(ready)[i], d)
    BY <1>1, <1>2, <1>3, <2>1
  <2>4. Resumes(<<h>> \o Tail(ready), pc', waitFor', running')
    BY <1>2, <1>4, <2>1, <2>3, ResumesCons
  <2> QED BY <1>4, <2>2, <2>4
<1>6. \A d \in Callers : pc'[d] = "cancel" => pc[d] = "cancel"
  BY <1>3
<1>7. \A d \in Callers : pc[d] \in Outside => pc'[d] \in Outside
  BY <1>3
<1>8. \A d \in Callers : pc'[d] \in Outside => waitFor'[d] = {}
  BY <1>1, <1>2, <1>3 DEF CallersFit
<1> QED BY <1>1, <1>2, <1>3, <1>5, <1>6, <1>7, <1>8 DEF CallersFit

(* What cancel() adds to the queue only wakes tasks. *)
LEMMA WakeUpHandles ==
    ASSUME IInv, NEW order \in Orders(Interrupted)
    PROVE  LET q == ready \o [i \in DOMAIN order |-> WakeHandle(order[i])]
           IN  /\ q \in Seq(Handles)
               /\ \A i \in DOMAIN q : \/ i \in DOMAIN ready /\ q[i] = ready[i]
                                      \/ q[i].kind = "wake"
<1> DEFINE k == Cardinality(Interrupted)
           w == [i \in DOMAIN order |-> WakeHandle(order[i])]
           q == ready \o w
<1>1. ready \in Seq(Handles) /\ Len(ready) \in Nat /\ Len(tasks) \in Nat /\ Interrupted \subseteq TaskIds
  BY LenProperties, CancelledProperties DEF IInv, TypeOK
<1>2. k \in Nat
  <2>1. IsFiniteSet(TaskIds)
    BY <1>1, FS_Interval DEF TaskIds
  <2> QED BY <1>1, <2>1, FS_Subset, FS_CardinalityType
<1>3. order \in [1..k -> Interrupted]
  BY DEF Orders
<1> HIDE DEF k
<1>4. \A i \in 1..k : w[i] \in Handles /\ w[i].kind = "wake"
  <2> SUFFICES ASSUME NEW i \in 1..k PROVE w[i] \in Handles /\ w[i].kind = "wake"
    OBVIOUS
  <2>1. order[i] \in Interrupted /\ w[i] = WakeHandle(order[i])
    BY <1>3
  <2> HIDE DEF w
  <2>2. PICK t \in Interrupted : t = order[i]
    BY <2>1
  <2>3. t \in Nat
    BY <1>1 DEF TaskIds
  <2> QED BY <2>1, <2>2, <2>3 DEF WakeHandle, Handle, Handles, Kinds
<1>5. w \in Seq(Handles) /\ Len(w) = k
  <2>1. w \in [1..k -> Handles]
    BY <1>3, <1>4
  <2> HIDE DEF w
  <2> QED BY <1>2, <2>1
<1> HIDE DEF w
<1>6. /\ q \in Seq(Handles) /\ Len(q) = Len(ready) + k
      /\ \A i \in 1..(Len(ready) + k) : q[i] = IF i <= Len(ready) THEN ready[i]
                                               ELSE w[i - Len(ready)]
  BY <1>1, <1>5, ConcatProperties
<1>7. DOMAIN ready = 1..Len(ready) /\ DOMAIN q = 1..(Len(ready) + k)
  BY <1>1, <1>6, LenProperties
<1> HIDE DEF q
<1>8. \A i \in DOMAIN q : \/ i \in DOMAIN ready /\ q[i] = ready[i]
                          \/ q[i].kind = "wake"
  BY <1>1, <1>2, <1>4, <1>6, <1>7
<1> QED BY <1>6, <1>8 DEF q, w

LEMMA CallersReset ==
    ASSUME IInv, CallersFit, NEW c \in Callers, CallReset(c)
    PROVE  CallersFit'
<1>1. /\ running = c /\ pc[c] = "run" /\ \A d \in Callers : pc[d] # "cancel"
      /\ \A d \in Callers : d # c => pc[d] \in Outside
      /\ pc'[c] = "cancel" /\ \A d \in Callers : d # c => pc'[d] = pc[d]
  BY DEF CallReset, CancelQueue, Calls, IInv, TypeOK, Outside
<1>2. CASE live = {}
  <2>1. UNCHANGED <<ready, running, waitFor>>
    BY <1>2 DEF CallReset, CancelQueue
  <2>2. Resumes(ready', pc', waitFor', running')
    BY <1>1, <2>1 DEF CallersFit, Resumes
  <2> QED BY <1>1, <2>1, <2>2 DEF CallersFit, Outside
<1>3. CASE live # {}
  <2>1. PICK order \in Orders(Interrupted) :
           AsyncioWait(c, Over, ready \o [i \in DOMAIN order |-> WakeHandle(order[i])])
    BY <1>3 DEF CallReset, CancelQueue
  <2> DEFINE q == ready \o [i \in DOMAIN order |-> WakeHandle(order[i])]
  <2>2. /\ q \in Seq(Handles) /\ AsyncioWait(c, Over, q)
        /\ \A i \in DOMAIN q : \/ i \in DOMAIN ready /\ q[i] = ready[i]
                               \/ q[i].kind = "wake"
    BY <2>1, WakeUpHandles
  <2> HIDE DEF q
  <2>3. \A d \in Callers, i \in DOMAIN q :
           Names(q[i], d) => i \in DOMAIN ready /\ Names(ready[i], d)
    BY <2>2 DEF Names
  <2>4. Resumes(q, pc, waitFor, running)
    BY <2>3 DEF CallersFit, Resumes
  <2>5. pc'[c] \notin Outside
    BY <1>1 DEF Outside
  <2> QED BY <1>1, <2>2, <2>4, <2>5, RunnerWaits
<1> QED BY <1>2, <1>3

(* The tasks and the controller resume nobody. *)
LEMMA CallersLoop ==
    ASSUME IInv, CallersFit,
           TaskStart \/ TaskRefused \/ TaskWake \/ TransferCallback \/ UsbStep
    PROVE  CallersFit'
<1>1. UNCHANGED <<running, pc, waitFor>>
  BY DEF TaskStart, TaskRefused, TaskWake, TransferCallback, UsbStep, UsbComplete, UsbCancelled
<1>2. /\ ready \in Seq(Handles) /\ Resumes(ready, pc, waitFor, running)
      /\ Len(tasks) \in Nat /\ urbs \in Seq(TaskIds)
  BY LenProperties DEF IInv, TypeOK, CallersFit
<1>3. \A kind \in {"start", "usb", "wake", "callback"}, t \in Nat :
         Handle(kind, t, {}) \in Handles /\ Handle(kind, t, {}).kind # "resume"
  BY DEF Handle, Handles, Kinds
<1>4. ASSUME NEW kind \in {"start", "usb", "wake"}, Turn(kind)
      PROVE  /\ Head(ready).task \in Nat /\ Tail(ready) \in Seq(Handles)
             /\ Resumes(Tail(ready), pc, waitFor, running)
  <2>1. ready # <<>>
    BY <1>4 DEF Turn
  <2>2. Tail(ready) \in Seq(Handles) /\ Head(ready).task \in Nat
    BY <1>4, TurnProperties
  <2> QED BY <1>2, <2>1, <2>2, ResumesTail
<1>5. CASE TaskStart \/ TaskRefused
  <2>1. Turn("start") /\ (ready' = Tail(ready)
                          \/ ready' = Append(Tail(ready), Handle("callback", Head(ready).task, {})))
    BY <1>5 DEF TaskStart, TaskRefused, CallbackHandle
  <2> QED BY <1>1, <1>3, <1>4, <2>1, OtherHandles, LoopKeeps
<1>6. CASE TaskWake
  <2> DEFINE s == Handle("start", Len(tasks) + 1, {})
             e == Handle("callback", Head(ready).task, {})
  <2>1. Turn("wake") /\ (\/ ready' = Tail(ready) \/ ready' = Append(Tail(ready), e)
                         \/ ready' = Tail(ready) \o <<s, e>>)
    BY <1>6 DEF TaskWake, CallbackHandle, StartHandle, Submit
  <2>2. /\ s \in Handles /\ s.kind # "resume" /\ e \in Handles /\ e.kind # "resume"
        /\ Tail(ready) \in Seq(Handles) /\ Resumes(Tail(ready), pc, waitFor, running)
    BY <1>2, <1>3, <1>4, <2>1
  <2> HIDE DEF s, e
  <2>3. /\ Append(Tail(ready), s) \in Seq(Handles)
        /\ Resumes(Append(Tail(ready), s), pc, waitFor, running)
        /\ Resumes(Append(Tail(ready), e), pc, waitFor, running)
    BY <2>2, OtherHandles
  <2>4. Resumes(Append(Append(Tail(ready), s), e), pc, waitFor, running)
    BY <2>2, <2>3, OtherHandles
  <2>5. Resumes(ready', pc, waitFor, running)
    BY <2>1, <2>2, <2>3, <2>4, AppendTwo
  <2> QED BY <1>1, <2>5, LoopKeeps
<1>7. CASE TransferCallback
  <2>1. Turn("usb") /\ (ready' = Tail(ready)
                        \/ ready' = Append(Tail(ready), Handle("wake", Head(ready).task, {})))
    BY <1>7 DEF TransferCallback, WakeHandle
  <2> QED BY <1>1, <1>3, <1>4, <2>1, OtherHandles, LoopKeeps
<1>8. CASE UsbStep
  <2>1. \E t \in TaskIds : ready' = Append(ready, Handle("usb", t, {}))
    <3>1. CASE UsbComplete
      <4>1. Head(urbs) \in TaskIds
        BY <1>2, <3>1, HeadTailProperties DEF UsbComplete, CanComplete
      <4> QED BY <3>1, <4>1 DEF UsbComplete
    <3>2. CASE UsbCancelled
      BY <1>2, <3>2, ElementOfSeq, LenProperties DEF UsbCancelled
    <3> QED BY <1>8, <3>1, <3>2 DEF UsbStep
  <2>2. TaskIds \subseteq Nat
    BY DEF TaskIds
  <2>3. Resumes(ready', pc, waitFor, running)
    BY <1>2, <1>3, <2>1, <2>2, OtherHandles
  <2> QED BY <1>1, <2>3, LoopKeeps
<1> QED BY <1>5, <1>6, <1>7, <1>8

LEMMA CallersNext == IInv /\ CallersFit /\ [Next]_vars => CallersFit'
<1> SUFFICES ASSUME IInv, CallersFit, [Next]_vars PROVE CallersFit'
  OBVIOUS
<1>1. CASE \E c \in Callers : CallerWakes(c) /\ UNCHANGED <<outside, arg, mark>>
  BY <1>1, CallersGo
<1>2. CASE \E c \in Callers : CallerStep(c)
  BY <1>2, CallersGo, CallersCall, CallersSuspend, CallersMove, CallersReset, CallersResume
     DEF CallerStep
<1>3. CASE TaskStart \/ TaskRefused \/ TaskWake \/ TransferCallback \/ UsbStep
  BY <1>3, CallersLoop
<1>4. CASE TaskCallback
  <2>1. Turn("callback") /\ Completed(Head(ready).task, Callers) /\ UNCHANGED <<running, pc>>
    BY <1>4 DEF TaskCallback
  <2> QED BY <2>1, CompletedCallers
<1>5. CASE LateCompleted
  <2>1. Turn("completed") /\ Completed(Late, Head(ready).who) /\ UNCHANGED <<running, pc>>
    BY <1>5 DEF LateCompleted
  <2>2. Head(ready).who \in SUBSET Callers
    BY <2>1, QueueTail DEF Turn, IInv, TypeOK, Handles
  <2> QED BY <2>1, <2>2, CompletedCallers
<1>6. CASE UNCHANGED vars
  BY <1>6 DEF vars, queueVars, CallersFit
<1> QED BY <1>1, <1>2, <1>3, <1>4, <1>5, <1>6 DEF Next, LoopStep, LoopCallback

LEMMA CallersAlways == Spec => [](IInv /\ CallersFit)
<1>1. Init => CallersFit
  BY CallersAssumption DEF Init, CallersFit, Resumes, Outside
<1>2. IInv /\ CallersFit /\ [Next]_vars => IInv' /\ CallersFit'
  BY NextOK, CallersNext
<1> QED BY <1>1, <1>2, InitOK, PTL DEF Spec

--------------------------------------------------------------------------------
(* The handles that start tasks and bring results of transfers *)

StartsOrdered(q) ==
    \A i, j \in DOMAIN q :
        i < j /\ q[i].kind = "start" /\ q[j].kind = "start" => q[i].task < q[j].task

(* The two queues have the same handles of these kinds, in one order. *)
Keeps(q, r) ==
    /\ \A kind \in {"start", "usb"} : \A t : Absent(q, kind, t) <=> Absent(r, kind, t)
    /\ StartsOrdered(q) => StartsOrdered(r)

LEMMA KeepsAppend ==
    ASSUME NEW q \in Seq(Handles), NEW h \in Handles
    PROVE  /\ Append(q, h) \in Seq(Handles)
           /\ \A kind, t : Absent(Append(q, h), kind, t) <=>
                 Absent(q, kind, t) /\ ~(h.kind = kind /\ h.task = t)
           /\ /\ StartsOrdered(q)
              /\ h.kind = "start" =>
                    \A i \in DOMAIN q : q[i].kind = "start" => q[i].task < h.task
              => StartsOrdered(Append(q, h))
           /\ h.kind \notin {"start", "usb"} => Keeps(q, Append(q, h))
<1>1. /\ Append(q, h) \in Seq(Handles) /\ Len(Append(q, h)) = Len(q) + 1
      /\ \A i \in 1..Len(q) : Append(q, h)[i] = q[i]
      /\ Append(q, h)[Len(q) + 1] = h
  BY AppendProperties
<1>2. DOMAIN q = 1..Len(q) /\ DOMAIN Append(q, h) = 1..(Len(q) + 1) /\ Len(q) \in Nat
  BY <1>1, LenProperties
<1>3. \A kind, t : Absent(Append(q, h), kind, t) <=>
         Absent(q, kind, t) /\ ~(h.kind = kind /\ h.task = t)
  BY <1>1, <1>2 DEF Absent
<1>4. ASSUME StartsOrdered(q),
             h.kind = "start" => \A i \in DOMAIN q : q[i].kind = "start" => q[i].task < h.task
      PROVE  StartsOrdered(Append(q, h))
  BY <1>1, <1>2, <1>4 DEF StartsOrdered
<1> QED BY <1>1, <1>3, <1>4 DEF Keeps

LEMMA KeepsTail ==
    ASSUME NEW q \in Seq(Handles), q # <<>>
    PROVE  /\ Head(q) \in Handles /\ Tail(q) \in Seq(Handles)
           /\ \A kind, t : Absent(q, kind, t) <=>
                 Absent(Tail(q), kind, t) /\ ~(Head(q).kind = kind /\ Head(q).task = t)
           /\ StartsOrdered(q) =>
                 /\ StartsOrdered(Tail(q))
                 /\ Head(q).kind = "start" =>
                       \A i \in DOMAIN Tail(q) :
                           Tail(q)[i].kind = "start" => Head(q).task < Tail(q)[i].task
           /\ Head(q).kind \notin {"start", "usb"} => Keeps(q, Tail(q))
<1>1. /\ Head(q) \in Handles /\ Tail(q) \in Seq(Handles) /\ Len(Tail(q)) = Len(q) - 1
      /\ \A i \in 1..Len(Tail(q)) : Tail(q)[i] = q[i + 1]
  BY HeadTailProperties
<1>2. DOMAIN q = 1..Len(q) /\ DOMAIN Tail(q) = 1..Len(Tail(q)) /\ Len(q) \in Nat /\ Len(q) >= 1
  BY <1>1, LenProperties, EmptySeq
<1>3. Head(q) = q[1]
  BY <1>2
<1>4. /\ \A i \in DOMAIN Tail(q) : i \in Nat /\ i + 1 \in DOMAIN q /\ Tail(q)[i] = q[i + 1]
      /\ \A i \in DOMAIN q : i # 1 => i - 1 \in DOMAIN Tail(q) /\ Tail(q)[i - 1] = q[i]
      /\ 1 \in DOMAIN q
  BY <1>1, <1>2
<1>5. \A kind, t : Absent(q, kind, t) <=>
         Absent(Tail(q), kind, t) /\ ~(Head(q).kind = kind /\ Head(q).task = t)
  <2> SUFFICES ASSUME NEW kind, NEW t
               PROVE  Absent(q, kind, t) <=>
                         Absent(Tail(q), kind, t) /\ ~(Head(q).kind = kind /\ Head(q).task = t)
    OBVIOUS
  <2>1. ASSUME Absent(q, kind, t)
        PROVE  Absent(Tail(q), kind, t) /\ ~(Head(q).kind = kind /\ Head(q).task = t)
    BY <1>3, <1>4, <2>1 DEF Absent
  <2>2. ASSUME Absent(Tail(q), kind, t), ~(Head(q).kind = kind /\ Head(q).task = t)
        PROVE  Absent(q, kind, t)
    <3>1. ASSUME NEW i \in DOMAIN q PROVE ~(q[i].kind = kind /\ q[i].task = t)
      <4>1. CASE i = 1
        BY <1>3, <2>2, <4>1
      <4>2. CASE i # 1
        BY <1>4, <2>2, <3>1, <4>2 DEF Absent
      <4> QED BY <4>1, <4>2
    <3> QED BY <3>1 DEF Absent
  <2> QED BY <2>1, <2>2
<1>6. ASSUME StartsOrdered(q)
      PROVE  /\ StartsOrdered(Tail(q))
             /\ Head(q).kind = "start" =>
                   \A i \in DOMAIN Tail(q) :
                       Tail(q)[i].kind = "start" => Head(q).task < Tail(q)[i].task
  <2>1. \A i \in DOMAIN Tail(q) : 1 < i + 1
    BY <1>4
  <2>2. \A i, j \in DOMAIN Tail(q) : i < j => i + 1 < j + 1
    BY <1>4
  <2> QED BY <1>3, <1>4, <1>6, <2>1, <2>2 DEF StartsOrdered
<1> QED BY <1>1, <1>5, <1>6 DEF Keeps

LEMMA KeepsCons ==
    ASSUME NEW q \in Seq(Handles), NEW h \in Handles, h.kind = "resume"
    PROVE  Keeps(q, <<h>> \o q)
<1> DEFINE s == <<h>> \o q
<1>1. <<h>> \in Seq(Handles) /\ Len(<<h>>) = 1 /\ <<h>>[1] = h
  OBVIOUS
<1>2. /\ s \in Seq(Handles) /\ Len(s) = Len(<<h>>) + Len(q)
      /\ \A i \in 1..(Len(<<h>>) + Len(q)) :
            s[i] = IF i <= Len(<<h>>) THEN <<h>>[i] ELSE q[i - Len(<<h>>)]
  BY <1>1, ConcatProperties
<1>3. Len(q) \in Nat /\ DOMAIN q = 1..Len(q) /\ DOMAIN s = 1..(1 + Len(q))
  BY <1>1, <1>2, LenProperties
<1> HIDE DEF s
<1>4. /\ \A i \in DOMAIN s : i \in Nat /\ IF i = 1 THEN s[i] = h
                                         ELSE i - 1 \in DOMAIN q /\ s[i] = q[i - 1]
      /\ \A i \in DOMAIN q : i + 1 \in DOMAIN s /\ s[i + 1] = q[i]
  BY <1>1, <1>2, <1>3
<1>5. \A kind \in {"start", "usb"} : \A t : Absent(q, kind, t) <=> Absent(s, kind, t)
  BY <1>4 DEF Absent
<1>6. ASSUME StartsOrdered(q) PROVE StartsOrdered(s)
  <2> SUFFICES ASSUME NEW i \in DOMAIN s, NEW j \in DOMAIN s, i < j,
                      s[i].kind = "start", s[j].kind = "start"
               PROVE  s[i].task < s[j].task
    BY DEF StartsOrdered
  <2>1. /\ i - 1 \in DOMAIN q /\ s[i] = q[i - 1] /\ j - 1 \in DOMAIN q /\ s[j] = q[j - 1]
        /\ i - 1 < j - 1
    BY <1>4
  <2> QED BY <1>6, <2>1 DEF StartsOrdered
<1> QED BY <1>5, <1>6 DEF Keeps, s

LEMMA KeepsTransitive ==
    ASSUME NEW q, NEW r, NEW s, Keeps(q, r), Keeps(r, s)
    PROVE  Keeps(q, s)
  BY DEF Keeps

(* The steps that leave the tasks and their transfers alone. *)
Quiet ==
    \/ \E c \in Callers :
          \/ CallerWakes(c) /\ UNCHANGED <<outside, arg, mark>>
          \/ Resume(c) /\ UNCHANGED restVars
          \/ Yields(c) \/ CallSend(c) \/ SendWait(c) \/ SendWrite(c) \/ SendReturn(c)
          \/ CallFlush(c) \/ FlushWait(c) \/ FlushDrain(c) \/ FlushReturn(c)
    \/ (TaskCallback \/ LateCompleted) /\ UNCHANGED <<tasks, urbs, restVars>>
    \/ UNCHANGED vars

LEMMA QuietSteps ==
    ASSUME IInv, Quiet
    PROVE  /\ UNCHANGED <<tasks, urbs, pos, taken, refused>> /\ Keeps(ready, ready')
           /\ \A c \in Callers : pc[c] = "cancel" <=> pc'[c] = "cancel"
<1> DEFINE CallerQuiet(c) ==
               \/ Yields(c) \/ CallSend(c) \/ SendWait(c) \/ SendWrite(c) \/ SendReturn(c)
               \/ CallFlush(c) \/ FlushWait(c) \/ FlushDrain(c) \/ FlushReturn(c)
<1>0. /\ ready \in Seq(Handles) /\ Keeps(ready, ready)
      /\ \A who \in SUBSET Callers : /\ Handle("resume", 0, who) \in Handles
                                     /\ Handle("resume", 0, who).kind = "resume"
                                     /\ Handle("completed", 0, who) \in Handles
                                     /\ Handle("completed", 0, who).kind = "completed"
  BY DEF IInv, TypeOK, Keeps, Handle, Handles, Kinds
<1>1. ASSUME NEW c \in Callers, CallerWakes(c), UNCHANGED <<outside, arg, mark>>
      PROVE  /\ UNCHANGED <<tasks, urbs, pos, taken, refused>> /\ Keeps(ready, ready')
             /\ \A d \in Callers : pc[d] = "cancel" <=> pc'[d] = "cancel"
  <2>1. {c} \in SUBSET Callers
    OBVIOUS
  <2>2. Keeps(ready, ready')
    BY <1>0, <1>1, <2>1, KeepsAppend DEF CallerWakes
  <2> QED BY <1>1, <2>2 DEF CallerWakes, outside, pipeVars, usbVars, IInv, TypeOK
<1>2. ASSUME NEW c \in Callers, Resume(c), UNCHANGED restVars
      PROVE  /\ UNCHANGED <<tasks, urbs, pos, taken, refused>> /\ Keeps(ready, ready')
             /\ \A d \in Callers : pc[d] = "cancel" <=> pc'[d] = "cancel"
  <2>1. ready # <<>> /\ Head(ready).kind = "resume"
    BY <1>2 DEF Resume, Turn
  <2>2. Head(ready) \in Handles /\ Tail(ready) \in Seq(Handles) /\ Keeps(ready, Tail(ready))
    BY <1>0, <2>1, KeepsTail
  <2> DEFINE who == Head(ready).who \ {c}
  <2>3. who \in SUBSET Callers
    BY <2>2 DEF Handles
  <2>4. ready' = Tail(ready) \/ ready' = <<Handle("resume", 0, who)>> \o Tail(ready)
    BY <1>2 DEF Resume, RestOfResume
  <2> HIDE DEF who
  <2>5. Keeps(Tail(ready), <<Handle("resume", 0, who)>> \o Tail(ready))
    BY <1>0, <2>2, <2>3, KeepsCons
  <2>6. Keeps(ready, <<Handle("resume", 0, who)>> \o Tail(ready))
    BY <2>2, <2>5, KeepsTransitive
  <2>7. Keeps(ready, ready')
    BY <2>2, <2>4, <2>6
  <2> QED BY <1>2, <2>7 DEF Resume, Poll, restVars, IInv, TypeOK
<1>3. ASSUME NEW c \in Callers, CallerQuiet(c)
      PROVE  /\ UNCHANGED <<tasks, urbs, pos, taken, refused>> /\ Keeps(ready, ready')
             /\ \A d \in Callers : pc[d] = "cancel" <=> pc'[d] = "cancel"
  <2>1. UNCHANGED <<tasks, urbs, pos, taken, refused>>
    BY <1>3 DEF Yields, CallSend, SendWait, SendWrite, SendReturn, CallFlush, FlushWait, FlushDrain,
                FlushReturn, outside, pipeVars, usbVars
  <2>2. ready' = ready \/ ready' = Append(ready, Handle("completed", 0, {c}))
    BY <1>3 DEF Yields, Yield, CallSend, SendWait, SendWrite, SendReturn, CallFlush, FlushWait,
                FlushDrain, FlushReturn, queueVars, WaitOne, AsyncioWait
  <2>3. {c} \in SUBSET Callers /\ "completed" \notin {"start", "usb"}
    OBVIOUS
  <2>4. Keeps(ready, ready')
    <3>1. Keeps(ready, Append(ready, Handle("completed", 0, {c})))
      BY <1>0, <2>3, KeepsAppend
    <3> QED BY <1>0, <2>2, <3>1
  <2>5. /\ pc[c] # "cancel"
        /\ pc' = pc \/ \E w \in {"idle", "run", "send", "flush", "submit"} : pc' = [pc EXCEPT ![c] = w]
    BY <1>3 DEF Yields, Yield, CallSend, Calls, SendWait, SendWrite, SendReturn, CallFlush,
                FlushWait,
                FlushDrain, FlushReturn, WaitOne, Poll
  <2>6. \A d \in Callers : pc[d] = "cancel" <=> pc'[d] = "cancel"
    BY <2>5 DEF IInv, TypeOK
  <2> QED BY <2>1, <2>4, <2>6
<1>4. ASSUME TaskCallback \/ LateCompleted, UNCHANGED <<tasks, urbs, restVars>>
      PROVE  /\ UNCHANGED <<tasks, urbs, pos, taken, refused>> /\ Keeps(ready, ready')
             /\ \A d \in Callers : pc[d] = "cancel" <=> pc'[d] = "cancel"
  <2>1. ready # <<>> /\ Head(ready).kind \in {"callback", "completed"}
    BY <1>4 DEF TaskCallback, LateCompleted, Turn
  <2>2. Head(ready) \in Handles /\ Tail(ready) \in Seq(Handles) /\ Keeps(ready, Tail(ready))
    BY <1>0, <2>1, KeepsTail
  <2>3. \E who \in SUBSET Callers : \/ ready' = Tail(ready)
                                    \/ ready' = Append(Tail(ready), Handle("resume", 0, who))
    <3>1. \E x : \E all \in SUBSET Callers : Completed(x, all)
      <4>1. Callers \in SUBSET Callers /\ Head(ready).who \in SUBSET Callers
        BY <2>2 DEF Handles
      <4>2. CASE TaskCallback
        BY <4>1, <4>2 DEF TaskCallback
      <4>3. CASE LateCompleted
        BY <4>1, <4>3 DEF LateCompleted
      <4> QED BY <1>4, <4>2, <4>3
    <3>2. \A x, all : all \in SUBSET Callers => WaitEnds(x, all) \in SUBSET Callers
      BY DEF WaitEnds
    <3> QED BY <3>1, <3>2 DEF Completed
  <2>4. PICK who \in SUBSET Callers : \/ ready' = Tail(ready)
                                     \/ ready' = Append(Tail(ready), Handle("resume", 0, who))
    BY <2>3
  <2>5. Keeps(ready, ready')
    <3> DEFINE h == Handle("resume", 0, who)
    <3>1. h \in Handles /\ h.kind \notin {"start", "usb"} /\ (ready' = Tail(ready) \/ ready' = Append(Tail(ready), h))
      BY <1>0, <2>4
    <3> HIDE DEF h
    <3>2. Keeps(Tail(ready), Append(Tail(ready), h))
      BY <2>2, <3>1, KeepsAppend
    <3>3. Keeps(ready, Append(Tail(ready), h))
      BY <2>2, <3>2, KeepsTransitive
    <3> QED BY <2>2, <3>1, <3>3
  <2> QED BY <1>4, <2>5 DEF restVars, TaskCallback, LateCompleted
<1>5. CASE UNCHANGED vars
  BY <1>0, <1>5 DEF vars, outside, pipeVars, usbVars
<1> QED BY <1>1, <1>2, <1>3, <1>4, <1>5 DEF Quiet

--------------------------------------------------------------------------------
(* What the other steps do to the tasks *)

(* A caller submits a task, or flush() has nothing to submit. *)
LEMMA CallerSubmits ==
    ASSUME IInv, NEW c \in Callers, SendSubmit(c) \/ FlushSubmit(c)
    PROVE  /\ running = c /\ pc[c] \in {"submit", "flush"} /\ pc'[c] # "cancel"
           /\ \A d \in Callers : d # c => pc'[d] = pc[d]
           /\ UNCHANGED <<running, waitFor, urbs, taken, refused, wtotal, mark>>
           /\ \/ UNCHANGED <<tasks, ready, pos>>
              \/ \E b \in (pos + 1)..wtotal :
                    Submit(b, tasks, 0, Append(ready, StartHandle(Len(tasks) + 1)))
<1>1. UNCHANGED <<running, waitFor, urbs, taken, refused, wtotal, mark>>
  BY DEF SendSubmit, FlushSubmit, usbVars
<1>2. /\ running = c /\ pc[c] \in {"submit", "flush"} /\ pc'[c] # "cancel"
      /\ \A d \in Callers : d # c => pc'[d] = pc[d]
  BY DEF SendSubmit, FlushSubmit, IInv, TypeOK
<1>3. CASE SendSubmit(c)
  <2>1. SliceEnd \in (pos + 1)..wtotal
    BY <1>3, SliceProperties DEF SendSubmit, MaySubmit
  <2> QED BY <1>1, <1>2, <1>3, <2>1 DEF SendSubmit
<1>4. CASE FlushSubmit(c)
  <2>1. CASE FlushFits /\ BufferLen > 0
    <3>1. wtotal \in (pos + 1)..wtotal
      BY <2>1 DEF IInv, TypeOK, BufferLen
    <3> QED BY <1>1, <1>2, <1>4, <2>1, <3>1 DEF FlushSubmit
  <2>2. CASE ~(FlushFits /\ BufferLen > 0)
    BY <1>1, <1>2, <1>4, <2>2 DEF FlushSubmit
  <2> QED BY <2>1, <2>2
<1> QED BY <1>3, <1>4

(* A new task at the end, in the place of one that may have ended. *)
LEMMA TaskSubmitted ==
    ASSUME IInv, NEW ts \in Seq(TaskRecords), Len(ts) = Len(tasks), NEW b \in (pos + 1)..wtotal,
           NEW acked, NEW q, Submit(b, ts, acked, q)
    PROVE  LET n == Len(tasks)
           IN  /\ n \in Nat /\ TaskIds = 1..n /\ TaskIds' = TaskIds \cup {n + 1}
               /\ n + 1 \notin TaskIds /\ Len(tasks') = n + 1
               /\ tasks'[n + 1] = Task(pos, b) /\ \A u \in TaskIds : tasks'[u] = ts[u]
               /\ pos' = b /\ ready' = q
<1>1. /\ tasks' = Append(ts, Task(pos, b)) /\ pos' = b /\ ready' = q
      /\ pos \in Nat /\ wtotal \in Nat /\ Len(tasks) \in Nat /\ tasks \in Seq(TaskRecords)
  BY LenProperties DEF Submit, IInv, TypeOK
<1>2. Task(pos, b) \in TaskRecords
  BY <1>1 DEF Task, TaskRecords, TaskState, UrbState, Outcomes
<1>3. /\ Len(tasks') = Len(ts) + 1 /\ tasks'[Len(ts) + 1] = Task(pos, b)
      /\ \A u \in 1..Len(ts) : tasks'[u] = ts[u]
  BY <1>1, <1>2, AppendProperties
<1> QED BY <1>1, <1>3 DEF TaskIds

(* A task that is woken goes on to cancel its transfer, or ends. *)
LEMMA TaskWakes ==
    ASSUME IInv, TaskWake
    PROVE  \E t \in TaskIds :
              /\ tasks[t].state \in {"completed", "cancelled", "retired"} /\ t \in Nat
              /\ ready # <<>> /\ Head(ready).kind = "wake" /\ ready \in Seq(Handles)
              /\ UNCHANGED <<running, pc, waitFor, urbs, taken, refused, wtotal, mark>>
              /\ \/ /\ HasToCancel(t) /\ SetTask(t, [tasks[t] EXCEPT !.state = "cancelling"])
                    /\ ready' = Tail(ready) /\ UNCHANGED pos
                 \/ /\ ~HasToCancel(t) /\ SetTask(t, Ended(Outcome(t)))
                    /\ ready' = Append(Tail(ready), CallbackHandle(t)) /\ UNCHANGED pos
                 \/ /\ ~HasToCancel(t) /\ Outcome(t) = "ok"
                    /\ \E b \in (pos + 1)..wtotal :
                          Submit(b, [tasks EXCEPT ![t] = Ended("ok")], Acked(t),
                                 Append(Append(Tail(ready), StartHandle(Len(tasks) + 1)),
                                        CallbackHandle(t)))
<1> SUFFICES ASSUME NEW t, t = Head(ready).task
             PROVE  /\ t \in TaskIds
                    /\ tasks[t].state \in {"completed", "cancelled", "retired"} /\ t \in Nat
                    /\ ready # <<>> /\ Head(ready).kind = "wake" /\ ready \in Seq(Handles)
                    /\ UNCHANGED <<running, pc, waitFor, urbs, taken, refused, wtotal, mark>>
                    /\ \/ /\ HasToCancel(t) /\ SetTask(t, [tasks[t] EXCEPT !.state = "cancelling"])
                          /\ ready' = Tail(ready) /\ UNCHANGED pos
                       \/ /\ ~HasToCancel(t) /\ SetTask(t, Ended(Outcome(t)))
                          /\ ready' = Append(Tail(ready), CallbackHandle(t)) /\ UNCHANGED pos
                       \/ /\ ~HasToCancel(t) /\ Outcome(t) = "ok"
                          /\ \E b \in (pos + 1)..wtotal :
                                Submit(b, [tasks EXCEPT ![t] = Ended("ok")], Acked(t),
                                       Append(Append(Tail(ready), StartHandle(Len(tasks) + 1)),
                                              CallbackHandle(t)))
  OBVIOUS
<1>1. /\ t \in TaskIds /\ t \in DOMAIN tasks /\ t \in Nat
      /\ HandleFits(Head(ready), tasks) /\ Head(ready).kind = "wake"
      /\ Tail(ready) \in Seq(Handles)
  BY TurnProperties DEF TaskWake
<1>2. tasks[t].state \in {"completed", "cancelled", "retired"}
  BY <1>1 DEF HandleFits
<1>3. /\ ready # <<>> /\ ready \in Seq(Handles) /\ Len(tasks) + 1 \in Nat
      /\ UNCHANGED <<running, pc, waitFor, urbs, taken, refused, wtotal, mark>>
  BY LenProperties DEF TaskWake, Turn, IInv, TypeOK, usbVars
<1>4. CASE HasToCancel(t)
  BY <1>1, <1>2, <1>3, <1>4 DEF TaskWake
<1>5. CASE ~HasToCancel(t) /\ Outcome(t) = "ok" /\ BufferLen >= Threshold
  <2> DEFINE s == StartHandle(Len(tasks) + 1)
             e == CallbackHandle(t)
  <2>1. SliceEnd \in (pos + 1)..wtotal
    BY <1>5, SliceProperties
  <2>2. Submit(SliceEnd, [tasks EXCEPT ![t] = Ended("ok")], Acked(t), Tail(ready) \o <<s, e>>)
    BY <1>5 DEF TaskWake
  <2>3. s \in Handles /\ e \in Handles
    BY <1>1, <1>3 DEF StartHandle, CallbackHandle, Handle, Handles, Kinds
  <2> HIDE DEF s, e
  <2>4. Tail(ready) \o <<s, e>> = Append(Append(Tail(ready), s), e)
    BY <1>1, <2>3, AppendTwo
  <2>5. Submit(SliceEnd, [tasks EXCEPT ![t] = Ended("ok")], Acked(t),
               Append(Append(Tail(ready), s), e))
    BY <2>2, <2>4
  <2> QED BY <1>1, <1>2, <1>3, <1>5, <2>1, <2>5 DEF s, e
<1>6. CASE ~HasToCancel(t) /\ ~(Outcome(t) = "ok" /\ BufferLen >= Threshold)
  BY <1>1, <1>2, <1>3, <1>6 DEF TaskWake, SetTask
<1> QED BY <1>4, <1>5, <1>6

--------------------------------------------------------------------------------
(* The transfers *)

(* The controller has a transfer once, and its task has not had the result. *)
UrbsInv ==
    /\ \A i \in DOMAIN urbs : tasks[urbs[i]].urb = "submitted"
    /\ \A i, j \in DOMAIN urbs : i # j => urbs[i] # urbs[j]
    /\ \A t \in TaskIds : tasks[t].urb = "submitted" =>
          /\ tasks[t].state \in {"inflight", "cancelled", "cancelling"}
          /\ Absent(ready, "usb", t)

LEMMA UrbsType ==
    ASSUME IInv
    PROVE  /\ urbs \in Seq(TaskIds) /\ DOMAIN urbs = 1..Len(urbs) /\ Len(urbs) \in Nat
           /\ \A i \in DOMAIN urbs : urbs[i] \in TaskIds /\ tasks[urbs[i]].state # "created"
           /\ tasks \in Seq(TaskRecords) /\ DOMAIN tasks = TaskIds /\ ready \in Seq(Handles)
           /\ \A t \in TaskIds : tasks[t] \in TaskRecords /\ t \in Nat
  BY LenProperties, ElementOfSeq DEF IInv, TypeOK, UrbsFit, TaskIds

(* Tasks move on, but their transfers stay where they are. *)
LEMMA UrbsKept ==
    ASSUME IInv, UrbsInv, UNCHANGED urbs,
           \A u \in TaskIds : /\ tasks'[u].urb = "submitted" <=> tasks[u].urb = "submitted"
                              /\ tasks'[u].urb = "submitted" =>
                                    tasks'[u].state \in {"inflight", "cancelled", "cancelling"},
           \A u \in TaskIds' : u \in TaskIds \/ tasks'[u].urb # "submitted",
           \A u \in TaskIds : Absent(ready, "usb", u) => Absent(ready', "usb", u)
    PROVE  UrbsInv'
<1>1. \A i \in DOMAIN urbs : urbs[i] \in TaskIds
  BY UrbsType
<1>2. \A i \in DOMAIN urbs' : tasks'[urbs'[i]].urb = "submitted"
  BY <1>1 DEF UrbsInv
<1>3. \A t \in TaskIds' : tasks'[t].urb = "submitted" =>
         /\ tasks'[t].state \in {"inflight", "cancelled", "cancelling"}
         /\ Absent(ready', "usb", t)
  BY DEF UrbsInv
<1>4. \A i, j \in DOMAIN urbs' : i # j => urbs'[i] # urbs'[j]
  BY DEF UrbsInv
<1> QED BY <1>2, <1>3, <1>4 DEF UrbsInv

LEMMA UrbsQuiet ==
    ASSUME IInv, UrbsInv, Quiet
    PROVE  UrbsInv'
<1>1. UNCHANGED <<tasks, urbs>> /\ Keeps(ready, ready')
  BY QuietSteps
<1>2. \A u \in TaskIds : Absent(ready, "usb", u) => Absent(ready', "usb", u)
  BY <1>1 DEF Keeps
<1>3. TaskIds' = TaskIds
  BY <1>1 DEF TaskIds
<1> QED BY <1>1, <1>2, <1>3, UrbsKept DEF UrbsInv

LEMMA UrbsCallers ==
    ASSUME IInv, UrbsInv, NEW c \in Callers,
           SendSubmit(c) \/ FlushSubmit(c) \/ CallReset(c) \/ EndCancel(c)
    PROVE  UrbsInv'
<1>1. CASE SendSubmit(c) \/ FlushSubmit(c)
  <2>1. UNCHANGED urbs
    BY <1>1, CallerSubmits
  <2>2. CASE UNCHANGED <<tasks, ready>>
    BY <2>1, <2>2, UrbsKept DEF UrbsInv, TaskIds
  <2>3. ASSUME NEW b \in (pos + 1)..wtotal,
               Submit(b, tasks, 0, Append(ready, StartHandle(Len(tasks) + 1)))
        PROVE  UrbsInv'
    <3> DEFINE n == Len(tasks)
               h == StartHandle(n + 1)
    <3>1. /\ n \in Nat /\ TaskIds' = TaskIds \cup {n + 1}
          /\ tasks'[n + 1] = Task(pos, b) /\ \A u \in TaskIds : tasks'[u] = tasks[u]
          /\ ready' = Append(ready, h)
      BY <2>3, UrbsType, TaskSubmitted
    <3>2. h \in Handles /\ h.kind = "start"
      BY <3>1 DEF StartHandle, Handle, Handles, Kinds
    <3>3. tasks'[n + 1].urb = "none"
      BY <3>1 DEF Task
    <3> HIDE DEF n, h
    <3>4. \A u \in TaskIds : Absent(ready, "usb", u) => Absent(ready', "usb", u)
      BY <3>1, <3>2, UrbsType, KeepsAppend
    <3>5. \A u \in TaskIds' : u \in TaskIds \/ tasks'[u].urb # "submitted"
      BY <3>1, <3>3
    <3> QED BY <2>1, <3>1, <3>4, <3>5, UrbsKept DEF UrbsInv
  <2> QED BY <1>1, <2>2, <2>3, CallerSubmits
<1>2. CASE CallReset(c)
  <2>1. tasks' = Cancelled /\ UNCHANGED urbs
    BY <1>2 DEF CallReset, CancelQueue
  <2>2. /\ TaskIds' = TaskIds
        /\ \A t \in TaskIds : /\ tasks'[t].urb = tasks[t].urb
                              /\ tasks'[t].state \in {"cancelled", tasks[t].state}
    BY <2>1, CancelledProperties DEF TaskIds
  <2>3. \A u \in TaskIds : Absent(ready, "usb", u) => Absent(ready', "usb", u)
    <3>1. CASE live = {}
      BY <1>2, <3>1 DEF CallReset, CancelQueue
    <3>2. CASE live # {}
      <4>1. PICK order \in Orders(Interrupted) :
               AsyncioWait(c, Over, ready \o [i \in DOMAIN order |-> WakeHandle(order[i])])
        BY <1>2, <3>2 DEF CallReset, CancelQueue
      <4> DEFINE q == ready \o [i \in DOMAIN order |-> WakeHandle(order[i])]
                 h == Handle("completed", 0, {c})
      <4>2. /\ q \in Seq(Handles) /\ AsyncioWait(c, Over, q)
            /\ \A i \in DOMAIN q : \/ i \in DOMAIN ready /\ q[i] = ready[i]
                                   \/ q[i].kind = "wake"
        BY <4>1, WakeUpHandles
      <4>3. h \in Handles /\ h.kind = "completed"
        BY DEF Handle, Handles, Kinds
      <4>4. ready' = q \/ ready' = Append(q, h)
        BY <4>2 DEF AsyncioWait
      <4> HIDE DEF q, h
      <4>5. \A u \in TaskIds : Absent(ready, "usb", u) => Absent(q, "usb", u)
        BY <4>2 DEF Absent
      <4>6. \A u \in TaskIds : Absent(q, "usb", u) => Absent(Append(q, h), "usb", u)
        BY <4>2, <4>3, KeepsAppend
      <4> QED BY <4>4, <4>5, <4>6
    <3> QED BY <3>1, <3>2
  <2> QED BY <2>1, <2>2, <2>3, UrbsKept DEF UrbsInv
<1>3. CASE EndCancel(c)
  BY <1>3, UrbsKept DEF UrbsInv, EndCancel, TaskIds
<1> QED BY <1>1, <1>2, <1>3

LEMMA UrbsEndsAtStart ==
    ASSUME IInv, UrbsInv, NEW outcome \in Outcomes, EndsAtStart(outcome)
    PROVE  UrbsInv'
<1> SUFFICES ASSUME NEW t, t = Head(ready).task PROVE UrbsInv'
  OBVIOUS
<1>1. /\ t \in TaskIds /\ t \in Nat /\ HandleFits(Head(ready), tasks) /\ Head(ready).kind = "start"
      /\ ready # <<>>
  BY TurnProperties DEF EndsAtStart, Turn
<1>2. tasks[t].urb # "submitted"
  BY <1>1 DEF UrbsInv, HandleFits
<1>3. /\ Tail(ready) \in Seq(Handles)
      /\ \A u : Absent(ready, "usb", u) => Absent(Tail(ready), "usb", u)
  BY <1>1, UrbsType, KeepsTail
<1>4. /\ SetTask(t, Ended(outcome)) /\ UNCHANGED urbs
      /\ ready' = Append(Tail(ready), CallbackHandle(t))
  BY DEF EndsAtStart
<1>5. CallbackHandle(t) \in Handles /\ CallbackHandle(t).kind = "callback"
  BY <1>1 DEF CallbackHandle, Handle, Handles, Kinds
<1>6. \A u \in TaskIds : Absent(ready, "usb", u) => Absent(ready', "usb", u)
  BY <1>3, <1>4, <1>5, KeepsAppend
<1>7. Ended(outcome) \in TaskRecords /\ Ended(outcome).urb = "none"
  BY EndedType DEF Ended, Task
<1>8. /\ TaskIds' = TaskIds /\ tasks'[t] = Ended(outcome)
      /\ \A u \in TaskIds : u # t => tasks'[u] = tasks[u]
  BY <1>1, <1>4, <1>7, UrbsType, SetTaskProperties
<1> QED BY <1>2, <1>4, <1>6, <1>7, <1>8, UrbsKept DEF UrbsInv

LEMMA UrbsRefused ==
    ASSUME IInv, UrbsInv, TaskRefused
    PROVE  UrbsInv'
<1>1. "error" \in Outcomes
  BY DEF Outcomes
<1> QED BY <1>1, StartEnds, UrbsEndsAtStart

LEMMA UrbsTaskStart ==
    ASSUME IInv, UrbsInv, TaskStart
    PROVE  UrbsInv'
<1> SUFFICES ASSUME NEW t, t = Head(ready).task PROVE UrbsInv'
  OBVIOUS
<1>1. /\ t \in TaskIds /\ t \in Nat /\ HandleFits(Head(ready), tasks) /\ Head(ready).kind = "start"
      /\ ready # <<>>
  BY TurnProperties DEF TaskStart, Turn
<1>2. tasks[t].state = "created" /\ tasks[t].urb # "submitted" /\ Absent(ready, "usb", t)
  <2>1. tasks[t].state = "created"
    BY <1>1 DEF HandleFits
  <2> QED BY <1>1, <2>1, AbsentHandles DEF UrbsInv, IInv
<1>3. /\ Tail(ready) \in Seq(Handles)
      /\ \A u : Absent(ready, "usb", u) => Absent(Tail(ready), "usb", u)
  BY <1>1, UrbsType, KeepsTail
<1>4. CASE tasks[t].mustCancel
  <2>1. "cancelled" \in Outcomes
    BY DEF Outcomes
  <2> QED BY <1>4, <2>1, StartEnds, UrbsEndsAtStart
<1>5. CASE ~tasks[t].mustCancel
  <2> DEFINE new == [tasks[t] EXCEPT !.state = "inflight", !.urb = "submitted"]
  <2>1. SetTask(t, new) /\ urbs' = Append(urbs, t) /\ ready' = Tail(ready)
    BY <1>5 DEF TaskStart
  <2>2. new \in TaskRecords /\ new.state = "inflight" /\ new.urb = "submitted"
    <3>1. tasks[t] \in TaskRecords
      BY <1>1, UrbsType
    <3> QED BY <3>1 DEF TaskRecords, TaskState, UrbState
  <2> HIDE DEF new
  <2>3. /\ TaskIds' = TaskIds /\ tasks'[t] = new
        /\ \A u \in TaskIds : u # t => tasks'[u] = tasks[u]
    BY <1>1, <2>1, <2>2, UrbsType, SetTaskProperties
  <2>4. \A u \in TaskIds' : tasks'[u].urb = "submitted" =>
           /\ tasks'[u].state \in {"inflight", "cancelled", "cancelling"}
           /\ Absent(ready', "usb", u)
    BY <1>2, <1>3, <2>1, <2>2, <2>3 DEF UrbsInv
  <2>5. /\ DOMAIN urbs' = 1..(Len(urbs) + 1) /\ urbs'[Len(urbs) + 1] = t
        /\ \A i \in 1..Len(urbs) : urbs'[i] = urbs[i]
        /\ DOMAIN urbs = 1..Len(urbs) /\ Len(urbs) \in Nat
    BY <1>1, <2>1, UrbsType, AppendProperties, LenProperties
  <2>6. \A i \in DOMAIN urbs : urbs[i] # t /\ urbs[i] \in TaskIds
    BY <1>2, UrbsType
  <2>7. \A i \in DOMAIN urbs' : tasks'[urbs'[i]].urb = "submitted"
    BY <2>2, <2>3, <2>5, <2>6 DEF UrbsInv
  <2>8. \A i, j \in DOMAIN urbs' : i # j => urbs'[i] # urbs'[j]
    BY <2>5, <2>6 DEF UrbsInv
  <2> QED BY <2>4, <2>7, <2>8 DEF UrbsInv
<1> QED BY <1>4, <1>5

LEMMA UrbsTaskWake ==
    ASSUME IInv, UrbsInv, TaskWake
    PROVE  UrbsInv'
<1>1. PICK t \in TaskIds :
         /\ tasks[t].state \in {"completed", "cancelled", "retired"} /\ t \in Nat
         /\ ready # <<>> /\ Head(ready).kind = "wake" /\ ready \in Seq(Handles)
         /\ UNCHANGED urbs
         /\ \/ /\ HasToCancel(t) /\ SetTask(t, [tasks[t] EXCEPT !.state = "cancelling"])
               /\ ready' = Tail(ready)
            \/ /\ ~HasToCancel(t) /\ SetTask(t, Ended(Outcome(t)))
               /\ ready' = Append(Tail(ready), CallbackHandle(t))
            \/ /\ ~HasToCancel(t) /\ Outcome(t) = "ok"
               /\ \E b \in (pos + 1)..wtotal :
                     Submit(b, [tasks EXCEPT ![t] = Ended("ok")], Acked(t),
                            Append(Append(Tail(ready), StartHandle(Len(tasks) + 1)),
                                   CallbackHandle(t)))
  BY TaskWakes
<1>2. /\ Tail(ready) \in Seq(Handles)
      /\ \A u : Absent(ready, "usb", u) => Absent(Tail(ready), "usb", u)
  BY <1>1, KeepsTail
<1>3. Outcome(t) \in Outcomes /\ (~HasToCancel(t) => tasks[t].urb # "submitted")
  BY <1>1 DEF Outcome, Outcomes, IInv, TaskFits, UrbsInv, HasToCancel
<1>4. CallbackHandle(t) \in Handles /\ CallbackHandle(t).kind = "callback"
  BY <1>1 DEF CallbackHandle, Handle, Handles, Kinds
<1>5. CASE HasToCancel(t) /\ SetTask(t, [tasks[t] EXCEPT !.state = "cancelling"])
           /\ ready' = Tail(ready)
  <2> DEFINE new == [tasks[t] EXCEPT !.state = "cancelling"]
  <2>1. new \in TaskRecords /\ new.state = "cancelling" /\ new.urb = tasks[t].urb
    <3>1. tasks[t] \in TaskRecords
      BY <1>1, UrbsType
    <3> QED BY <3>1 DEF TaskRecords, TaskState
  <2>2. SetTask(t, new)
    BY <1>5
  <2> HIDE DEF new
  <2>3. /\ TaskIds' = TaskIds /\ tasks'[t] = new
        /\ \A u \in TaskIds : u # t => tasks'[u] = tasks[u]
    BY <1>1, <2>1, <2>2, UrbsType, SetTaskProperties
  <2> QED BY <1>1, <1>2, <1>5, <2>1, <2>3, UrbsKept DEF UrbsInv
<1>6. CASE ~HasToCancel(t) /\ SetTask(t, Ended(Outcome(t)))
           /\ ready' = Append(Tail(ready), CallbackHandle(t))
  <2>1. Ended(Outcome(t)) \in TaskRecords /\ Ended(Outcome(t)).urb = "none"
    BY <1>3, EndedType DEF Ended, Task
  <2>2. /\ TaskIds' = TaskIds /\ tasks'[t] = Ended(Outcome(t))
        /\ \A u \in TaskIds : u # t => tasks'[u] = tasks[u]
    BY <1>1, <1>6, <2>1, UrbsType, SetTaskProperties
  <2>3. \A u \in TaskIds : Absent(ready, "usb", u) => Absent(ready', "usb", u)
    BY <1>2, <1>4, <1>6, KeepsAppend
  <2> QED BY <1>1, <1>3, <1>6, <2>1, <2>2, <2>3, UrbsKept DEF UrbsInv
<1>7. ASSUME ~HasToCancel(t), NEW b \in (pos + 1)..wtotal,
             Submit(b, [tasks EXCEPT ![t] = Ended("ok")], Acked(t),
                    Append(Append(Tail(ready), StartHandle(Len(tasks) + 1)), CallbackHandle(t)))
      PROVE  UrbsInv'
  <2> DEFINE n == Len(tasks)
             ts == [tasks EXCEPT ![t] = Ended("ok")]
             h == StartHandle(n + 1)
             e == CallbackHandle(t)
  <2>1. /\ ts \in Seq(TaskRecords) /\ Len(ts) = Len(tasks) /\ ts[t].urb = "none"
        /\ \A u \in TaskIds : u # t => ts[u] = tasks[u]
    <3>1. Ended("ok") \in TaskRecords /\ Ended("ok").urb = "none"
      BY EndedType DEF Ended, Task, Outcomes
    <3>2. tasks \in Seq(TaskRecords) /\ t \in 1..Len(tasks)
      BY <1>1, UrbsType DEF TaskIds
    <3> QED BY <3>1, <3>2, ExceptSeq DEF TaskIds
  <2>2. Submit(b, ts, Acked(t), Append(Append(Tail(ready), h), e))
    BY <1>7
  <2> HIDE DEF ts
  <2>3. /\ n \in Nat /\ TaskIds' = TaskIds \cup {n + 1}
        /\ tasks'[n + 1] = Task(pos, b) /\ \A u \in TaskIds : tasks'[u] = ts[u]
        /\ ready' = Append(Append(Tail(ready), h), e)
    BY <2>1, <2>2, TaskSubmitted
  <2>4. h \in Handles /\ h.kind = "start" /\ tasks'[n + 1].urb = "none"
    BY <2>3 DEF StartHandle, Handle, Handles, Kinds, Task
  <2> HIDE DEF n, h, e
  <2>5. /\ Append(Tail(ready), h) \in Seq(Handles)
        /\ \A u \in TaskIds : Absent(ready, "usb", u) => Absent(Append(Tail(ready), h), "usb", u)
    BY <1>2, <2>4, KeepsAppend
  <2>6. \A u \in TaskIds : Absent(ready, "usb", u) => Absent(ready', "usb", u)
    BY <1>4, <2>3, <2>5, KeepsAppend DEF e
  <2>7. \A u \in TaskIds' : u \in TaskIds \/ tasks'[u].urb # "submitted"
    BY <2>3, <2>4
  <2> QED BY <1>1, <1>3, <1>7, <2>1, <2>3, <2>6, <2>7, UrbsKept DEF UrbsInv
<1> QED BY <1>1, <1>5, <1>6, <1>7

LEMMA UrbsTransfer ==
    ASSUME IInv, UrbsInv, TransferCallback
    PROVE  UrbsInv'
<1> SUFFICES ASSUME NEW t, t = Head(ready).task PROVE UrbsInv'
  OBVIOUS
<1>1. t \in TaskIds /\ t \in Nat /\ Head(ready).kind = "usb" /\ ready # <<>> /\ UNCHANGED urbs
  BY TurnProperties DEF TransferCallback, Turn
<1>2. /\ Tail(ready) \in Seq(Handles) /\ ~Absent(ready, "usb", t)
      /\ \A u : Absent(ready, "usb", u) => Absent(Tail(ready), "usb", u)
  BY <1>1, UrbsType, KeepsTail
<1>3. tasks[t].urb # "submitted"
  BY <1>1, <1>2 DEF UrbsInv
<1>4. WakeHandle(t) \in Handles /\ WakeHandle(t).kind = "wake"
  BY <1>1 DEF WakeHandle, Handle, Handles, Kinds
<1>5. \A u : Absent(ready, "usb", u) => Absent(Append(Tail(ready), WakeHandle(t)), "usb", u)
  BY <1>2, <1>4, KeepsAppend
<1>6. ready' = Tail(ready) \/ ready' = Append(Tail(ready), WakeHandle(t))
  BY DEF TransferCallback
<1>7. \A u \in TaskIds : Absent(ready, "usb", u) => Absent(ready', "usb", u)
  BY <1>2, <1>5, <1>6
<1>8. /\ TaskIds' = TaskIds /\ tasks'[t].urb = tasks[t].urb
      /\ \A u \in TaskIds : u # t => tasks'[u] = tasks[u]
  <2>1. CASE UNCHANGED tasks
    BY <2>1 DEF TaskIds
  <2>2. ASSUME NEW state \in TaskState, SetTask(t, [tasks[t] EXCEPT !.state = state])
        PROVE  /\ TaskIds' = TaskIds /\ tasks'[t].urb = tasks[t].urb
               /\ \A u \in TaskIds : u # t => tasks'[u] = tasks[u]
    <3> DEFINE new == [tasks[t] EXCEPT !.state = state]
    <3>1. new \in TaskRecords /\ new.urb = tasks[t].urb /\ SetTask(t, new)
      <4>1. tasks[t] \in TaskRecords
        BY <1>1, UrbsType
      <4> QED BY <2>2, <4>1 DEF TaskRecords
    <3> HIDE DEF new
    <3> QED BY <1>1, <3>1, UrbsType, SetTaskProperties
  <2>3. "completed" \in TaskState /\ "retired" \in TaskState
    BY DEF TaskState
  <2> QED BY <2>1, <2>2, <2>3 DEF TransferCallback
<1> QED BY <1>1, <1>3, <1>7, <1>8, UrbsKept DEF UrbsInv

(* A transfer leaves the controller's queue, from any place in it. *)
LEMMA UrbsEnd ==
    ASSUME IInv, UrbsInv, NEW k \in DOMAIN urbs, NEW urb \in {"ok", "error", "cancelled"},
           SetTask(urbs[k], [tasks[urbs[k]] EXCEPT !.urb = urb]),
           ready' = Append(ready, Handle("usb", urbs[k], {})),
           urbs' \in Seq(TaskIds), Len(urbs') = Len(urbs) - 1,
           \A i \in DOMAIN urbs' : urbs'[i] = IF i < k THEN urbs[i] ELSE urbs[i + 1]
    PROVE  UrbsInv'
<1> SUFFICES ASSUME NEW t, t = urbs[k] PROVE UrbsInv'
  OBVIOUS
<1>1. t \in TaskIds /\ t \in Nat /\ k \in Nat
  BY UrbsType
<1> DEFINE new == [tasks[t] EXCEPT !.urb = urb]
<1>2. new \in TaskRecords /\ new.urb = urb /\ SetTask(t, new)
  <2>1. tasks[t] \in TaskRecords
    BY <1>1, UrbsType
  <2> QED BY <2>1 DEF TaskRecords, UrbState
<1> HIDE DEF new
<1>3. /\ TaskIds' = TaskIds /\ tasks'[t] = new
      /\ \A u \in TaskIds : u # t => tasks'[u] = tasks[u]
  BY <1>1, <1>2, UrbsType, SetTaskProperties
<1> DEFINE h == Handle("usb", t, {})
<1>4. h \in Handles /\ h.task = t /\ ready' = Append(ready, h)
  BY <1>1 DEF Handle, Handles, Kinds
<1> HIDE DEF h
<1>5. \A u \in TaskIds : u # t /\ Absent(ready, "usb", u) => Absent(ready', "usb", u)
  BY <1>4, UrbsType, KeepsAppend
<1>6. \A i \in DOMAIN urbs' : \E j \in DOMAIN urbs : j # k /\ urbs'[i] = urbs[j]
                                               /\ j = IF i < k THEN i ELSE i + 1
  <2>1. DOMAIN urbs' = 1..(Len(urbs) - 1) /\ DOMAIN urbs = 1..Len(urbs) /\ Len(urbs) \in Nat
    BY UrbsType, LenProperties
  <2>2. ASSUME NEW i \in 1..(Len(urbs) - 1)
        PROVE  /\ i \in 1..Len(urbs) /\ i + 1 \in 1..Len(urbs) /\ i \in Nat
               /\ i < k => i # k
               /\ ~(i < k) => i + 1 # k
    BY <1>1, <2>1
  <2> QED BY <2>1, <2>2
<1>7. \A i \in DOMAIN urbs : i # k => urbs[i] # t /\ urbs[i] \in TaskIds
  BY UrbsType DEF UrbsInv
<1>8. \A i \in DOMAIN urbs' : tasks'[urbs'[i]].urb = "submitted"
  <2> SUFFICES ASSUME NEW i \in DOMAIN urbs' PROVE tasks'[urbs'[i]].urb = "submitted"
    OBVIOUS
  <2>1. PICK j \in DOMAIN urbs : j # k /\ urbs'[i] = urbs[j]
    BY <1>6
  <2> QED BY <1>3, <1>7, <2>1 DEF UrbsInv
<1>9. \A i, j \in DOMAIN urbs' : i # j => urbs'[i] # urbs'[j]
  <2> SUFFICES ASSUME NEW i \in DOMAIN urbs', NEW j \in DOMAIN urbs', i # j
               PROVE  urbs'[i] # urbs'[j]
    OBVIOUS
  <2>0. i \in Nat /\ j \in Nat
    BY LenProperties
  <2>1. PICK a \in DOMAIN urbs : urbs'[i] = urbs[a] /\ a = IF i < k THEN i ELSE i + 1
    BY <1>6
  <2>2. PICK b \in DOMAIN urbs : urbs'[j] = urbs[b] /\ b = IF j < k THEN j ELSE j + 1
    BY <1>6
  <2>3. a # b
    BY <1>1, <2>0, <2>1, <2>2
  <2> QED BY <2>1, <2>2, <2>3 DEF UrbsInv
<1>10. \A u \in TaskIds' : tasks'[u].urb = "submitted" =>
          /\ tasks'[u].state \in {"inflight", "cancelled", "cancelling"}
          /\ Absent(ready', "usb", u)
  BY <1>2, <1>3, <1>5 DEF UrbsInv
<1> QED BY <1>8, <1>9, <1>10 DEF UrbsInv

(* The sequence without one of its elements. *)
LEMMA WithoutOne ==
    ASSUME NEW S, NEW s \in Seq(S), NEW k \in 1..Len(s)
    PROVE  LET r == SubSeq(s, 1, k - 1) \o SubSeq(s, k + 1, Len(s))
           IN  /\ r \in Seq(S) /\ Len(r) = Len(s) - 1
               /\ \A i \in 1..(Len(s) - 1) : r[i] = IF i < k THEN s[i] ELSE s[i + 1]
<1> DEFINE p == SubSeq(s, 1, k - 1)
           q == SubSeq(s, k + 1, Len(s))
<1>0. Len(s) \in Nat /\ k \in Nat /\ 1 <= k /\ k <= Len(s)
  BY LenProperties
<1>1. /\ p \in Seq(S) /\ Len(p) = k - 1 /\ \A i \in 1..(k - 1) : p[i] = s[i]
  <2>1. 1 \in Int /\ k - 1 \in Int /\ \A i \in 1..(k - 1) : s[i] \in S
    BY <1>0, ElementOfSeq
  <2>2. /\ p \in Seq(S) /\ Len(p) = IF 1 <= k - 1 THEN (k - 1) - 1 + 1 ELSE 0
        /\ \A i \in 1..((k - 1) - 1 + 1) : p[i] = s[1 + i - 1]
    BY <2>1, SubSeqProperties
  <2> HIDE DEF p
  <2>3. Len(p) = k - 1
    BY <1>0, <2>2
  <2>4. ASSUME NEW i \in 1..(k - 1) PROVE p[i] = s[i]
    <3>1. i \in 1..((k - 1) - 1 + 1) /\ 1 + i - 1 = i
      BY <1>0, <2>4
    <3> QED BY <2>2, <3>1
  <2> QED BY <2>2, <2>3, <2>4
<1>2. /\ q \in Seq(S) /\ Len(q) = Len(s) - k
      /\ \A i \in 1..(Len(s) - k) : q[i] = s[k + i]
  <2>1. k + 1 \in Int /\ Len(s) \in Int /\ \A i \in (k + 1)..Len(s) : s[i] \in S
    BY <1>0, ElementOfSeq
  <2>2. /\ q \in Seq(S)
        /\ Len(q) = IF k + 1 <= Len(s) THEN Len(s) - (k + 1) + 1 ELSE 0
        /\ \A i \in 1..(Len(s) - (k + 1) + 1) : q[i] = s[(k + 1) + i - 1]
    BY <2>1, SubSeqProperties
  <2> HIDE DEF q
  <2>3. Len(q) = Len(s) - k
    <3>1. \A n, j \in Nat : j <= n =>
             (IF j + 1 <= n THEN n - (j + 1) + 1 ELSE 0) = n - j
      OBVIOUS
    <3> QED BY <1>0, <2>2, <3>1
  <2>4. ASSUME NEW i \in 1..(Len(s) - k) PROVE q[i] = s[k + i]
    <3>1. i \in 1..(Len(s) - (k + 1) + 1) /\ (k + 1) + i - 1 = k + i
      BY <1>0, <2>4
    <3> QED BY <2>2, <3>1
  <2> QED BY <2>2, <2>3, <2>4
<1> HIDE DEF p, q
<1>3. /\ p \o q \in Seq(S) /\ Len(p \o q) = Len(p) + Len(q)
      /\ \A i \in 1..(Len(p) + Len(q)) : (p \o q)[i] = IF i <= Len(p) THEN p[i] ELSE q[i - Len(p)]
  BY <1>1, <1>2, ConcatProperties
<1>4. ASSUME NEW i \in 1..(Len(s) - 1)
      PROVE  (p \o q)[i] = IF i < k THEN s[i] ELSE s[i + 1]
  <2>1. i \in 1..(Len(p) + Len(q)) /\ i \in Nat
    BY <1>0, <1>1, <1>2
  <2>2. CASE i < k
    BY <1>0, <1>1, <1>3, <2>1, <2>2
  <2>3. CASE ~(i < k)
    <3>1. i - (k - 1) \in 1..(Len(s) - k) /\ k + (i - (k - 1)) = i + 1 /\ ~(i <= k - 1)
      BY <1>0, <2>1, <2>3
    <3>2. (p \o q)[i] = q[i - (k - 1)]
      BY <1>1, <1>3, <2>1, <3>1
    <3> QED BY <1>2, <2>3, <3>1, <3>2
  <2> QED BY <2>2, <2>3
<1>5. p \o q \in Seq(S) /\ Len(p \o q) = Len(s) - 1
  BY <1>0, <1>1, <1>2, <1>3
<1> QED BY <1>4, <1>5 DEF p, q

(* The first transfer is executed, or one is cancelled. *)
LEMMA UrbLeaves ==
    ASSUME IInv, UsbStep
    PROVE  \E k \in DOMAIN urbs, urb \in {"ok", "error", "cancelled"} :
              /\ SetTask(urbs[k], [tasks[urbs[k]] EXCEPT !.urb = urb])
              /\ ready' = Append(ready, Handle("usb", urbs[k], {}))
              /\ urbs' \in Seq(TaskIds) /\ Len(urbs') = Len(urbs) - 1
              /\ \A i \in DOMAIN urbs' : urbs'[i] = IF i < k THEN urbs[i] ELSE urbs[i + 1]
              /\ UNCHANGED <<running, pc, waitFor, pos, wtotal, mark, refused>>
              /\ \/ k = 1 /\ taken' = tasks[urbs[k]].to /\ failures' \in {failures, failures + 1}
                 \/ tasks[urbs[k]].state = "cancelling" /\ UNCHANGED failures
<1>0. urbs \in Seq(TaskIds) /\ DOMAIN urbs = 1..Len(urbs) /\ Len(urbs) \in Nat
  BY UrbsType
<1>1. CASE UsbComplete
  <2>1. urbs # <<>>
    BY <1>1 DEF UsbComplete, CanComplete
  <2>2. /\ Tail(urbs) \in Seq(TaskIds) /\ Len(Tail(urbs)) = Len(urbs) - 1
        /\ \A i \in 1..Len(Tail(urbs)) : Tail(urbs)[i] = urbs[i + 1]
        /\ 1 \in DOMAIN urbs /\ Head(urbs) = urbs[1]
    BY <1>0, <2>1, HeadTailProperties, EmptySeq
  <2>3. urbs' = Tail(urbs)
    BY <1>1 DEF UsbComplete
  <2>4. \A i \in DOMAIN urbs' : urbs'[i] = IF i < 1 THEN urbs[i] ELSE urbs[i + 1]
    BY <2>2, <2>3, LenProperties
  <2>5. PICK result \in {"ok", "error"} : SetTask(urbs[1], [tasks[urbs[1]] EXCEPT !.urb = result])
    BY <1>1, <2>2 DEF UsbComplete
  <2>6. /\ ready' = Append(ready, Handle("usb", urbs[1], {})) /\ taken' = tasks[urbs[1]].to
        /\ failures' \in {failures, failures + 1}
        /\ UNCHANGED <<running, pc, waitFor, pos, wtotal, mark, refused>>
    BY <1>1, <2>2 DEF UsbComplete
  <2> QED BY <2>2, <2>3, <2>4, <2>5, <2>6
<1>2. CASE UsbCancelled /\ UNCHANGED restVars
  <2>1. PICK k \in DOMAIN urbs :
          /\ tasks[urbs[k]].state = "cancelling"
          /\ SetTask(urbs[k], [tasks[urbs[k]] EXCEPT !.urb = "cancelled"])
          /\ ready' = Append(ready, Handle("usb", urbs[k], {}))
          /\ urbs' = SubSeq(urbs, 1, k - 1) \o SubSeq(urbs, k + 1, Len(urbs))
          /\ UNCHANGED <<running, pc, waitFor>>
    BY <1>2 DEF UsbCancelled
  <2>2. /\ urbs' \in Seq(TaskIds) /\ Len(urbs') = Len(urbs) - 1
        /\ \A i \in 1..(Len(urbs) - 1) : urbs'[i] = IF i < k THEN urbs[i] ELSE urbs[i + 1]
    BY <1>0, <2>1, WithoutOne
  <2>3. DOMAIN urbs' = 1..(Len(urbs) - 1)
    BY <2>2, LenProperties
  <2> QED BY <1>2, <2>1, <2>2, <2>3 DEF restVars
<1> QED BY <1>1, <1>2 DEF UsbStep

LEMMA StepKinds ==
    ASSUME [Next]_vars
    PROVE  \/ Quiet
           \/ \E c \in Callers : SendSubmit(c) \/ FlushSubmit(c) \/ CallReset(c) \/ EndCancel(c)
           \/ TaskStart \/ TaskRefused \/ TaskWake \/ UsbStep
           \/ TransferCallback /\ UNCHANGED restVars
  BY DEF Next, CallerStep, LoopStep, LoopCallback, Quiet

LEMMA UrbsNext == IInv /\ UrbsInv /\ [Next]_vars => UrbsInv'
<1> SUFFICES ASSUME IInv, UrbsInv, [Next]_vars PROVE UrbsInv'
  OBVIOUS
<1>1. CASE UsbStep
  BY <1>1, UrbLeaves, UrbsEnd
<1> QED BY <1>1, StepKinds, UrbsQuiet, UrbsCallers, UrbsTaskStart, UrbsRefused, UrbsTaskWake,
           UrbsTransfer

LEMMA UrbsAlways == Spec => []UrbsInv
<1>1. Init => UrbsInv
  BY DEF Init, UrbsInv, TaskIds
<1> QED BY <1>1, UrbsNext, Inductive, PTL DEF Spec

--------------------------------------------------------------------------------
(* What reset() waits for *)

(* A task that has been cancelled, whether or not it knows. *)
Doomed(t) == tasks[t].mustCancel \/ tasks[t].state \in {"cancelled", "cancelling", "retired"}

ResetInv ==
    /\ \A c \in Callers : pc[c] = "cancel" => \A t \in Unfinished : t \in waitFor[c] /\ Doomed(t)
    /\ (\A c \in Callers : pc[c] # "cancel") => \A t \in Unfinished : ~Doomed(t)

LEMMA ResetKept ==
    ASSUME ResetInv,
           \A c \in Callers : pc[c] = "cancel" <=> pc'[c] = "cancel",
           \A c \in Callers : pc[c] = "cancel" => \A t \in Unfinished : t \in waitFor'[c],
           \A t \in Unfinished' : \/ t \in Unfinished /\ (Doomed(t)' <=> Doomed(t))
                                  \/ (\A c \in Callers : pc[c] # "cancel") /\ ~Doomed(t)'
    PROVE  ResetInv'
<1>1. ASSUME NEW c \in Callers, pc'[c] = "cancel", NEW t \in Unfinished'
      PROVE  t \in waitFor'[c] /\ Doomed(t)'
  BY <1>1 DEF ResetInv
<1>2. ASSUME \A c \in Callers : pc'[c] # "cancel", NEW t \in Unfinished'
      PROVE  ~Doomed(t)'
  BY <1>2 DEF ResetInv
<1> QED BY <1>1, <1>2 DEF ResetInv

LEMMA ResetQuiet ==
    ASSUME IInv, ResetInv, Quiet
    PROVE  ResetInv'
<1>1. /\ UNCHANGED tasks /\ \A c \in Callers : pc[c] = "cancel" <=> pc'[c] = "cancel"
  BY QuietSteps
<1>2. Unfinished' = Unfinished /\ \A t : Doomed(t)' <=> Doomed(t)
  BY <1>1 DEF Unfinished, Over, TaskIds, Doomed
<1>3. ASSUME NEW c \in Callers, pc[c] = "cancel", NEW t \in Unfinished
      PROVE  t \in waitFor'[c]
  <2>0. t \in waitFor[c] /\ t \in TaskIds /\ t # Late /\ tasks[t].state # "over"
    BY <1>3 DEF ResetInv, Unfinished, Over, TaskIds, Late
  <2>1. CASE UNCHANGED waitFor
    BY <2>0, <2>1
  <2>2. CASE \E d \in Callers : d # c /\ AsyncioWait(d, Over, ready)
    BY <2>0, <2>2 DEF AsyncioWait, IInv, TypeOK
  <2>3. ASSUME NEW x, x # t, NEW who, Completed(x, who)
        PROVE  t \in waitFor'[c]
    <3>1. c \notin WaitEnds(x, who)
      BY <1>3, <2>0, <2>3 DEF WaitEnds, WaitsForAll
    <3> QED BY <2>0, <2>3, <3>1 DEF Completed
  <2>4. CASE TaskCallback
    <3>1. tasks[Head(ready).task].state = "over"
      BY <2>4, TurnProperties DEF TaskCallback, HandleFits
    <3> QED BY <2>0, <2>3, <2>4, <3>1 DEF TaskCallback
  <2>5. CASE LateCompleted
    BY <2>0, <2>3, <2>5 DEF LateCompleted
  <2>6. ASSUME NEW d \in Callers, SendWait(d) \/ FlushWait(d) \/ FlushDrain(d)
        PROVE  t \in waitFor'[c]
    <3>1. d # c
      BY <1>3, <2>6 DEF SendWait, FlushWait, FlushDrain
    <3>2. UNCHANGED waitFor \/ AsyncioWait(d, Over, ready)
      BY <2>6 DEF SendWait, FlushWait, FlushDrain, WaitOne
    <3> QED BY <2>1, <2>2, <3>1, <3>2
  <2>7. ASSUME NEW d \in Callers,
               \/ CallerWakes(d) \/ Resume(d) \/ Yields(d) \/ CallSend(d) \/ SendWrite(d)
               \/ SendReturn(d) \/ CallFlush(d) \/ FlushReturn(d)
        PROVE  t \in waitFor'[c]
    <3>1. UNCHANGED waitFor
      BY <2>7 DEF CallerWakes, Resume, Yields, Yield, CallSend, SendWrite, SendReturn, CallFlush,
                  FlushReturn, queueVars
    <3> QED BY <2>1, <3>1
  <2>8. CASE UNCHANGED vars
    BY <2>1, <2>8 DEF vars, queueVars
  <2> QED BY <2>4, <2>5, <2>6, <2>7, <2>8 DEF Quiet
<1> QED BY <1>1, <1>2, <1>3, ResetKept

(* A new task is not doomed, and there is none while reset() waits. *)
LEMMA NewTask ==
    ASSUME NEW n, TaskIds' = TaskIds \cup {n}, NEW a, NEW b, tasks'[n] = Task(a, b)
    PROVE  ~Doomed(n)'
  BY DEF Doomed, Task

LEMMA NobodyResets ==
    ASSUME CallersFit, NEW c \in Callers, pc[c] \in {"submit", "flush", "drain", "send"}
    PROVE  \A d \in Callers : pc[d] # "cancel"
  BY DEF CallersFit, Outside

LEMMA ResetCallers ==
    ASSUME IInv, CallersFit, ResetInv, NEW c \in Callers,
           SendSubmit(c) \/ FlushSubmit(c) \/ CallReset(c) \/ EndCancel(c)
    PROVE  ResetInv'
<1>1. CASE SendSubmit(c) \/ FlushSubmit(c)
  <2>1. /\ UNCHANGED waitFor /\ pc[c] \in {"submit", "flush"} /\ pc'[c] # "cancel"
        /\ \A d \in Callers : d # c => pc'[d] = pc[d]
        /\ \/ UNCHANGED tasks
           \/ \E b \in (pos + 1)..wtotal :
                 Submit(b, tasks, 0, Append(ready, StartHandle(Len(tasks) + 1)))
    BY <1>1, CallerSubmits
  <2>2. \A d \in Callers : pc[d] # "cancel"
    BY <2>1, NobodyResets
  <2>3. \A t \in Unfinished' : \/ t \in Unfinished /\ (Doomed(t)' <=> Doomed(t))
                               \/ ~Doomed(t)'
    <3>1. CASE UNCHANGED tasks
      BY <3>1 DEF Unfinished, Over, TaskIds, Doomed
    <3>2. ASSUME NEW b \in (pos + 1)..wtotal,
                 Submit(b, tasks, 0, Append(ready, StartHandle(Len(tasks) + 1))),
                 NEW t \in Unfinished'
          PROVE  \/ t \in Unfinished /\ (Doomed(t)' <=> Doomed(t))
                 \/ ~Doomed(t)'
      <4>1. /\ TaskIds' = TaskIds \cup {Len(tasks) + 1}
            /\ tasks'[Len(tasks) + 1] = Task(pos, b) /\ \A u \in TaskIds : tasks'[u] = tasks[u]
        BY <3>2, UrbsType, TaskSubmitted
      <4> QED BY <4>1, NewTask DEF Unfinished, Over, Doomed
    <3> QED BY <2>1, <3>1, <3>2
  <2> QED BY <2>1, <2>2, <2>3, ResetKept
<1>2. CASE CallReset(c)
  <2>1. /\ tasks' = Cancelled /\ UNCHANGED live /\ \A d \in Callers : pc[d] # "cancel"
        /\ pc'[c] = "cancel" /\ \A d \in Callers : d # c => pc'[d] = pc[d]
    BY <1>2 DEF CallReset, CancelQueue, Calls, IInv, TypeOK
  <2>2. /\ TaskIds' = TaskIds /\ Unfinished' = Unfinished
        /\ \A t \in Interrupted : t \in TaskIds /\ tasks[t].state = "inflight"
    BY <2>1, CancelledProperties DEF Unfinished, Over, TaskIds
  <2>3. ASSUME NEW t \in Unfinished PROVE t \in waitFor'[c] /\ Doomed(t)'
    <3>1. t \in TaskIds /\ TaskFits(t) /\ t \in live \ Over /\ live # {}
      BY <2>3 DEF IInv, TaskFits, Unfinished, Over
    <3>2. t \in waitFor'[c]
      BY <1>2, <3>1 DEF CallReset, CancelQueue, AsyncioWait, IInv, TypeOK
    <3>3. tasks'[t] = Cancel(tasks[t]) /\ tasks[t] \in TaskRecords
      BY <2>1, <3>1, UrbsType DEF Cancelled
    <3>4. tasks[t].state \notin {"over", "waiting", "notified"}
      BY <3>1 DEF TaskFits, Unfinished, Over
    <3>5. CASE tasks[t].state \in {"created", "completed"}
      <4>1. tasks'[t] = [tasks[t] EXCEPT !.mustCancel = TRUE]
        BY <3>3, <3>5 DEF Cancel
      <4> QED BY <3>2, <3>3, <4>1 DEF TaskRecords, Doomed
    <3>6. CASE tasks[t].state = "inflight"
      <4>1. tasks'[t] = [tasks[t] EXCEPT !.state = "cancelled"]
        BY <3>3, <3>6 DEF Cancel
      <4> QED BY <3>2, <3>3, <4>1 DEF TaskRecords, Doomed
    <3>7. CASE tasks[t].state \in {"cancelled", "cancelling", "retired"}
      <4>1. tasks'[t] = tasks[t]
        BY <3>3, <3>7 DEF Cancel
      <4> QED BY <3>2, <3>7, <4>1 DEF Doomed
    <3> QED BY <3>3, <3>4, <3>5, <3>6, <3>7 DEF TaskRecords, TaskState
  <2> QED BY <2>1, <2>2, <2>3 DEF ResetInv
<1>3. CASE EndCancel(c)
  <2>1. /\ running = c /\ pc[c] = "cancel" /\ UNCHANGED tasks
        /\ pc'[c] = "run" /\ \A d \in Callers : d # c => pc'[d] = pc[d]
    BY <1>3 DEF EndCancel, IInv, TypeOK
  <2>2. waitFor[c] = {} /\ Unfinished = {}
    BY <2>1 DEF CallersFit, ResetInv
  <2>3. Unfinished' = {}
    BY <2>1, <2>2 DEF Unfinished, Over, TaskIds
  <2> QED BY <2>3 DEF ResetInv
<1> QED BY <1>1, <1>2, <1>3

(* A task moves on, and is doomed if it was. *)
LEMMA ResetOneTask ==
    ASSUME IInv, ResetInv, UNCHANGED <<pc, waitFor>>, NEW t \in TaskIds, NEW new \in TaskRecords,
           SetTask(t, new), tasks[t].state # "over",
           \/ new.state = "over"
           \/ new.mustCancel = tasks[t].mustCancel /\
              (new.state \in {"cancelled", "cancelling", "retired"} <=>
               tasks[t].state \in {"cancelled", "cancelling", "retired"})
    PROVE  ResetInv'
<1>1. /\ TaskIds' = TaskIds /\ tasks'[t] = new /\ \A u \in TaskIds : u # t => tasks'[u] = tasks[u]
  BY UrbsType, SetTaskProperties
<1>2. \A u \in Unfinished' : u \in Unfinished /\ (Doomed(u)' <=> Doomed(u))
  BY <1>1 DEF Unfinished, Over, Doomed
<1> QED BY <1>2, ResetKept DEF ResetInv

LEMMA ResetTasks ==
    ASSUME IInv, ResetInv, TaskStart \/ TaskRefused \/ TransferCallback \/ UsbStep
    PROVE  ResetInv'
<1>0. ASSUME NEW outcome \in Outcomes, EndsAtStart(outcome) PROVE ResetInv'
  <2>1. /\ Head(ready).task \in TaskIds /\ tasks[Head(ready).task].state = "created"
        /\ SetTask(Head(ready).task, Ended(outcome)) /\ UNCHANGED <<pc, waitFor>>
    BY <1>0, TurnProperties DEF EndsAtStart, HandleFits
  <2>2. Ended(outcome) \in TaskRecords /\ Ended(outcome).state = "over"
    BY <1>0, EndedType
  <2> QED BY <2>1, <2>2, ResetOneTask
<1>4. CASE TaskRefused
  BY <1>0, <1>4, StartEnds DEF Outcomes
<1>1. CASE TaskStart
  <2> SUFFICES ASSUME NEW t, t = Head(ready).task PROVE ResetInv'
    OBVIOUS
  <2>1. /\ t \in TaskIds /\ tasks[t] \in TaskRecords /\ tasks[t].state = "created"
        /\ UNCHANGED <<pc, waitFor>>
    BY <1>1, TurnProperties DEF TaskStart, HandleFits
  <2>2. CASE tasks[t].mustCancel
    BY <1>0, <1>1, <2>2, StartEnds DEF Outcomes
  <2>3. CASE ~tasks[t].mustCancel
    <3> DEFINE new == [tasks[t] EXCEPT !.state = "inflight", !.urb = "submitted"]
    <3>1. SetTask(t, new)
      BY <1>1, <2>3 DEF TaskStart
    <3>2. new \in TaskRecords /\ new.state = "inflight" /\ new.mustCancel = tasks[t].mustCancel
      BY <2>1 DEF TaskRecords, TaskState, UrbState
    <3> HIDE DEF new
    <3> QED BY <2>1, <3>1, <3>2, ResetOneTask
  <2> QED BY <2>2, <2>3
<1>2. CASE TransferCallback
  <2> SUFFICES ASSUME NEW t, t = Head(ready).task PROVE ResetInv'
    OBVIOUS
  <2>1. t \in TaskIds /\ tasks[t] \in TaskRecords /\ UNCHANGED <<pc, waitFor>>
    BY <1>2, TurnProperties DEF TransferCallback
  <2>2. ASSUME NEW state \in {"completed", "retired"},
               tasks[t].state = IF state = "completed" THEN "inflight" ELSE "cancelling",
               SetTask(t, [tasks[t] EXCEPT !.state = state])
        PROVE  ResetInv'
    <3> DEFINE new == [tasks[t] EXCEPT !.state = state]
    <3>1. /\ new \in TaskRecords /\ new.state = state /\ new.mustCancel = tasks[t].mustCancel
          /\ SetTask(t, new)
      BY <2>1, <2>2 DEF TaskRecords, TaskState
    <3> HIDE DEF new
    <3> QED BY <2>1, <2>2, <3>1, ResetOneTask
  <2>3. CASE UNCHANGED tasks
    <3>1. Unfinished' = Unfinished /\ \A u : Doomed(u)' <=> Doomed(u)
      BY <2>3 DEF Unfinished, Over, TaskIds, Doomed
    <3> QED BY <2>1, <3>1, ResetKept DEF ResetInv
  <2> QED BY <1>2, <2>2, <2>3 DEF TransferCallback
<1>3. CASE UsbStep
  <2>1. PICK k \in DOMAIN urbs, urb \in {"ok", "error", "cancelled"} :
           /\ SetTask(urbs[k], [tasks[urbs[k]] EXCEPT !.urb = urb])
           /\ UNCHANGED <<pc, waitFor>>
    BY <1>3, UrbLeaves
  <2> SUFFICES ASSUME NEW t, t = urbs[k] PROVE ResetInv'
    OBVIOUS
  <2>2. t \in TaskIds /\ tasks[t] \in TaskRecords
    BY UrbsType
  <2> DEFINE new == [tasks[t] EXCEPT !.urb = urb]
  <2>3. /\ new \in TaskRecords /\ new.state = tasks[t].state
        /\ new.mustCancel = tasks[t].mustCancel /\ SetTask(t, new)
    BY <2>1, <2>2 DEF TaskRecords, UrbState
  <2> HIDE DEF new
  <2>4. /\ TaskIds' = TaskIds /\ tasks'[t] = new
        /\ \A u \in TaskIds : u # t => tasks'[u] = tasks[u]
    BY <2>2, <2>3, UrbsType, SetTaskProperties
  <2>5. \A u \in Unfinished' : u \in Unfinished /\ (Doomed(u)' <=> Doomed(u))
    BY <2>3, <2>4 DEF Unfinished, Over, Doomed
  <2> QED BY <2>1, <2>5, ResetKept DEF ResetInv
<1> QED BY <1>1, <1>2, <1>3, <1>4

LEMMA ResetTaskWake ==
    ASSUME IInv, ResetInv, TaskWake
    PROVE  ResetInv'
<1>1. PICK t \in TaskIds :
         /\ tasks[t].state \in {"completed", "cancelled", "retired"} /\ UNCHANGED <<pc, waitFor>>
         /\ \/ HasToCancel(t) /\ SetTask(t, [tasks[t] EXCEPT !.state = "cancelling"])
            \/ ~HasToCancel(t) /\ SetTask(t, Ended(Outcome(t)))
            \/ /\ Outcome(t) = "ok"
               /\ \E b \in (pos + 1)..wtotal :
                     Submit(b, [tasks EXCEPT ![t] = Ended("ok")], Acked(t),
                            Append(Append(Tail(ready), StartHandle(Len(tasks) + 1)),
                                   CallbackHandle(t)))
  BY TaskWakes
<1>2. CASE HasToCancel(t) /\ SetTask(t, [tasks[t] EXCEPT !.state = "cancelling"])
  <2> DEFINE new == [tasks[t] EXCEPT !.state = "cancelling"]
  <2>1. /\ new \in TaskRecords /\ new.state = "cancelling" /\ new.mustCancel = tasks[t].mustCancel
        /\ SetTask(t, new)
    <3>1. tasks[t] \in TaskRecords
      BY UrbsType
    <3> QED BY <1>2, <3>1 DEF TaskRecords, TaskState
  <2> HIDE DEF new
  <2>2. tasks[t].state = "cancelled"
    BY <1>2 DEF HasToCancel
  <2> QED BY <1>1, <2>1, <2>2, ResetOneTask
<1>3. CASE ~HasToCancel(t) /\ SetTask(t, Ended(Outcome(t)))
  <2>1. Outcome(t) \in Outcomes
    BY <1>1 DEF Outcome, Outcomes, IInv, TaskFits
  <2>2. Ended(Outcome(t)) \in TaskRecords /\ Ended(Outcome(t)).state = "over"
    BY <2>1, EndedType
  <2> QED BY <1>1, <1>3, <2>2, ResetOneTask
<1>4. ASSUME Outcome(t) = "ok", NEW b \in (pos + 1)..wtotal,
             Submit(b, [tasks EXCEPT ![t] = Ended("ok")], Acked(t),
                    Append(Append(Tail(ready), StartHandle(Len(tasks) + 1)), CallbackHandle(t)))
      PROVE  ResetInv'
  <2> SUFFICES ASSUME NEW n, n = Len(tasks) PROVE ResetInv'
    OBVIOUS
  <2> DEFINE ts == [tasks EXCEPT ![t] = Ended("ok")]
  <2>1. /\ ts \in Seq(TaskRecords) /\ Len(ts) = Len(tasks) /\ ts[t].state = "over"
        /\ \A u \in TaskIds : u # t => ts[u] = tasks[u]
    <3>1. Ended("ok") \in TaskRecords /\ Ended("ok").state = "over"
      BY EndedType DEF Outcomes
    <3>2. tasks \in Seq(TaskRecords) /\ t \in 1..Len(tasks)
      BY UrbsType DEF TaskIds
    <3> QED BY <3>1, <3>2, ExceptSeq DEF TaskIds
  <2>2. Submit(b, ts, Acked(t),
               Append(Append(Tail(ready), StartHandle(n + 1)), CallbackHandle(t)))
    BY <1>4
  <2> HIDE DEF ts
  <2>3. /\ TaskIds' = TaskIds \cup {n + 1}
        /\ tasks'[n + 1] = Task(pos, b) /\ \A u \in TaskIds : tasks'[u] = ts[u]
    BY <2>1, <2>2, TaskSubmitted
  <2>4. t \in Unfinished /\ ~Doomed(t)
    <3>1. tasks[t].state = "completed" /\ ~tasks[t].mustCancel
      BY <1>4 DEF Outcome
    <3> QED BY <3>1 DEF Unfinished, Over, Doomed
  <2>5. \A c \in Callers : pc[c] # "cancel"
    BY <2>4 DEF ResetInv
  <2>6. ~Doomed(n + 1)'
    BY <2>3 DEF Doomed, Task
  <2>7. ASSUME NEW u \in Unfinished'
        PROVE  \/ u \in Unfinished /\ (Doomed(u)' <=> Doomed(u))
               \/ ~Doomed(u)'
    <3>1. CASE u \in TaskIds
      <4>1. tasks'[u].state # "over" /\ u # t
        BY <2>1, <2>3, <2>7, <3>1 DEF Unfinished, Over
      <4>2. tasks'[u] = tasks[u]
        BY <2>1, <2>3, <3>1, <4>1
      <4> QED BY <3>1, <4>1, <4>2 DEF Unfinished, Over, Doomed
    <3>2. CASE u = n + 1
      BY <2>6, <3>2
    <3> QED BY <2>3, <2>7, <3>1, <3>2 DEF Unfinished
  <2> QED BY <1>1, <2>5, <2>7, ResetKept DEF ResetInv
<1> QED BY <1>1, <1>2, <1>3, <1>4

LEMMA ResetNext == IInv /\ CallersFit /\ ResetInv /\ [Next]_vars => ResetInv'
<1> SUFFICES ASSUME IInv, CallersFit, ResetInv, [Next]_vars PROVE ResetInv'
  OBVIOUS
<1>1. CASE Quiet
  BY <1>1, ResetQuiet
<1>2. CASE \E c \in Callers : SendSubmit(c) \/ FlushSubmit(c) \/ CallReset(c) \/ EndCancel(c)
  BY <1>2, ResetCallers
<1>3. CASE TaskStart \/ TaskRefused \/ TransferCallback \/ UsbStep
  BY <1>3, ResetTasks
<1>4. CASE TaskWake
  BY <1>4, ResetTaskWake
<1> QED BY <1>1, <1>2, <1>3, <1>4, StepKinds

LEMMA ResetAlways == Spec => []ResetInv
<1>1. Init => ResetInv
  BY DEF Init, ResetInv, Unfinished, TaskIds
<1> QED BY <1>1, ResetNext, CallersAlways, PTL DEF Spec

(* When reset() goes on, what it cancelled is over: the tasks, and the     *)
(* transfers they had with the controller, whatever arrived meanwhile.     *)
THEOREM ResetIsQuiet == Spec => ResetQuiesces
<1>1. ASSUME IInv, CallersFit, UrbsInv, ResetInv, NEW c \in Callers, EndCancel(c)
      PROVE  urbs = <<>> /\ Unfinished = {}
  <2>1. Unfinished = {}
    BY <1>1 DEF EndCancel, CallersFit, ResetInv
  <2>2. \A i \in DOMAIN urbs : FALSE
    BY <1>1, <2>1, UrbsType DEF UrbsInv, Unfinished, Over
  <2>3. urbs \in Seq(TaskIds) /\ DOMAIN urbs = 1..Len(urbs) /\ Len(urbs) \in Nat
    BY <1>1, UrbsType
  <2>4. 1 \notin 1..Len(urbs)
    BY <2>2, <2>3
  <2>5. Len(urbs) = 0
    BY <2>3, <2>4
  <2> QED BY <2>1, <2>3, <2>5, EmptySeq
<1>2. IInv /\ CallersFit /\ UrbsInv /\ ResetInv /\ [Next]_vars
         => [\A c \in Callers : EndCancel(c) => urbs = <<>> /\ Unfinished = {}]_vars
  BY <1>1
<1> QED BY <1>2, Inductive, CallersAlways, UrbsAlways, ResetAlways, PTL DEF Spec, ResetQuiesces

--------------------------------------------------------------------------------
(* The order of the data *)

UrbsOrdered ==
    /\ \A i, j \in DOMAIN urbs : i < j => urbs[i] < urbs[j]
    /\ \A i \in DOMAIN urbs, t \in TaskIds : tasks[t].state = "created" => urbs[i] < t

(* Tasks will be started in the order in which they were created. *)
StartsFit ==
    /\ StartsOrdered(ready)
    /\ \A t \in TaskIds : tasks[t].state = "created" => ~Absent(ready, "start", t)

OrderInv == (\A c \in Callers : pc[c] # "cancel") => UrbsOrdered /\ StartsFit

(* The handle that runs starts the first of the tasks to be started. *)
LEMMA HeadStarts ==
    ASSUME IInv, StartsFit, Turn("start"), NEW t, t = Head(ready).task
    PROVE  /\ StartsOrdered(Tail(ready)) /\ Tail(ready) \in Seq(Handles)
           /\ \A u \in TaskIds : u # t /\ tasks[u].state = "created"
                  => ~Absent(Tail(ready), "start", u) /\ t < u
<1>1. t \in TaskIds /\ Head(ready).kind = "start" /\ ready # <<>>
  BY TurnProperties DEF Turn
<1>2. /\ StartsOrdered(Tail(ready)) /\ Tail(ready) \in Seq(Handles)
      /\ \A i \in DOMAIN Tail(ready) : Tail(ready)[i].kind = "start" => t < Tail(ready)[i].task
      /\ \A u : Absent(ready, "start", u) <=> Absent(Tail(ready), "start", u) /\ u # t
  <2>1. ready \in Seq(Handles) /\ StartsOrdered(ready)
    BY UrbsType DEF StartsFit
  <2> QED BY <1>1, <2>1, KeepsTail
<1>3. ASSUME NEW u \in TaskIds, u # t, tasks[u].state = "created"
      PROVE  ~Absent(Tail(ready), "start", u) /\ t < u
  <2>1. ~Absent(Tail(ready), "start", u)
    BY <1>2, <1>3 DEF StartsFit
  <2> QED BY <1>2, <2>1 DEF Absent
<1> QED BY <1>2, <1>3

LEMMA OrderQuiet ==
    ASSUME IInv, OrderInv, Quiet
    PROVE  OrderInv'
<1>1. /\ UNCHANGED <<tasks, urbs>> /\ Keeps(ready, ready')
      /\ \A c \in Callers : pc[c] = "cancel" <=> pc'[c] = "cancel"
  BY QuietSteps
<1>2. TaskIds' = TaskIds
  BY <1>1 DEF TaskIds
<1>4. UrbsOrdered => UrbsOrdered'
  BY <1>1, <1>2 DEF UrbsOrdered
<1>5. StartsFit => StartsFit'
  BY <1>1, <1>2 DEF StartsFit, Keeps
<1> QED BY <1>1, <1>4, <1>5 DEF OrderInv

(* A task is submitted behind the others. *)
LEMMA OrderGrows ==
    ASSUME IInv, UrbsOrdered, UNCHANGED urbs, NEW n, n = Len(tasks),
           NEW ts \in Seq(TaskRecords), Len(ts) = n,
           \A t \in TaskIds : ts[t].state = "created" <=> tasks[t].state = "created",
           NEW b \in (pos + 1)..wtotal, NEW acked, NEW r, Submit(b, ts, acked, r),
           NEW q \in Seq(Handles), StartsOrdered(q), QueueFits(q, tasks),
           \A t \in TaskIds : tasks[t].state = "created" => ~Absent(q, "start", t),
           Keeps(Append(q, StartHandle(n + 1)), r)
    PROVE  UrbsOrdered' /\ StartsFit'
<1>1. /\ n \in Nat /\ TaskIds = 1..n /\ TaskIds' = TaskIds \cup {n + 1}
      /\ n + 1 \notin TaskIds /\ Len(tasks') = n + 1
      /\ tasks'[n + 1] = Task(pos, b) /\ \A u \in TaskIds : tasks'[u] = ts[u]
      /\ pos' = b /\ ready' = r
  BY TaskSubmitted
<1>2. tasks'[n + 1].state = "created"
  BY <1>1 DEF Task
<1>3. \A i \in DOMAIN urbs : urbs[i] \in TaskIds
  BY UrbsType
<1>6. UrbsOrdered'
  <2>1. \A i \in DOMAIN urbs : urbs[i] < n + 1
    BY <1>1, <1>3
  <2> QED BY <1>1, <2>1 DEF UrbsOrdered
<1>7. StartsFit'
  <2> DEFINE h == StartHandle(n + 1)
  <2>1. h \in Handles /\ h.kind = "start" /\ h.task = n + 1
    BY <1>1 DEF StartHandle, Handle, Handles, Kinds
  <2>2. DOMAIN tasks = TaskIds
    BY UrbsType
  <2>3. \A i \in DOMAIN q : q[i].kind = "start" => q[i].task < h.task
    BY <1>1, <2>1, <2>2 DEF QueueFits, HandleFits
  <2>4. Keeps(Append(q, h), r)
    OBVIOUS
  <2> HIDE DEF h
  <2>5. StartsOrdered(Append(q, h))
    BY <2>1, <2>3, KeepsAppend
  <2>6. \A t \in TaskIds' : tasks'[t].state = "created" => ~Absent(Append(q, h), "start", t)
    <3>1. \A t : Absent(Append(q, h), "start", t) <=> Absent(q, "start", t) /\ h.task # t
      BY <2>1, KeepsAppend
    <3> QED BY <1>1, <2>1, <3>1
  <2>7. StartsOrdered(r)
    BY <2>4, <2>5 DEF Keeps
  <2>8. \A t : Absent(Append(q, h), "start", t) <=> Absent(r, "start", t)
    BY <2>4 DEF Keeps
  <2> QED BY <1>1, <2>6, <2>7, <2>8 DEF StartsFit
<1> QED BY <1>6, <1>7

LEMMA OrderCallers ==
    ASSUME IInv, CallersFit, UrbsInv, ResetInv, OrderInv, NEW c \in Callers,
           SendSubmit(c) \/ FlushSubmit(c) \/ CallReset(c) \/ EndCancel(c)
    PROVE  OrderInv'
<1>1. CASE SendSubmit(c) \/ FlushSubmit(c)
  <2>1. /\ pc[c] \in {"submit", "flush"} /\ UNCHANGED urbs
        /\ \/ UNCHANGED <<tasks, ready>>
           \/ \E b \in (pos + 1)..wtotal :
                 Submit(b, tasks, 0, Append(ready, StartHandle(Len(tasks) + 1)))
    BY <1>1, CallerSubmits
  <2>2. UrbsOrdered /\ StartsFit
    BY <2>1, NobodyResets DEF OrderInv
  <2>3. CASE UNCHANGED <<tasks, ready>>
    <3>1. TaskIds' = TaskIds
      BY <2>3 DEF TaskIds
    <3>2. UrbsOrdered' /\ StartsFit'
      BY <2>1, <2>2, <2>3, <3>1 DEF UrbsOrdered, StartsFit
    <3> QED BY <3>2 DEF OrderInv
  <2>4. ASSUME NEW b \in (pos + 1)..wtotal,
               Submit(b, tasks, 0, Append(ready, StartHandle(Len(tasks) + 1)))
        PROVE  OrderInv'
    <3> SUFFICES ASSUME NEW n, n = Len(tasks) PROVE OrderInv'
      OBVIOUS
    <3>1. /\ Submit(b, tasks, 0, Append(ready, StartHandle(n + 1)))
          /\ Keeps(Append(ready, StartHandle(n + 1)), Append(ready, StartHandle(n + 1)))
      BY <2>4 DEF Keeps
    <3>2. /\ tasks \in Seq(TaskRecords) /\ ready \in Seq(Handles) /\ QueueFits(ready, tasks)
          /\ StartsOrdered(ready)
          /\ \A t \in TaskIds : tasks[t].state = "created" => ~Absent(ready, "start", t)
      BY <2>2 DEF IInv, TypeOK, StartsFit
    <3>3. UrbsOrdered' /\ StartsFit'
      BY <2>1, <2>2, <2>4, <3>1, <3>2, OrderGrows
    <3> QED BY <3>3 DEF OrderInv
  <2> QED BY <2>1, <2>3, <2>4
<1>2. CASE CallReset(c)
  <2>1. pc'[c] = "cancel"
    BY <1>2 DEF CallReset, CancelQueue, Calls, IInv, TypeOK
  <2> QED BY <2>1 DEF OrderInv
<1>3. CASE EndCancel(c)
  <2>1. Unfinished = {} /\ UNCHANGED <<tasks, urbs, ready>>
    BY <1>3 DEF EndCancel, CallersFit, ResetInv
  <2>2. \A t \in TaskIds : tasks[t].state = "over"
    BY <2>1 DEF Unfinished, Over
  <2>3. /\ \A i \in DOMAIN urbs : FALSE
        /\ \A i \in DOMAIN ready : ready[i].kind # "start"
    <3>1. \A i \in DOMAIN ready : HandleFits(ready[i], tasks)
      BY DEF IInv, QueueFits
    <3> QED BY <2>2, <3>1, UrbsType DEF HandleFits, UrbsInv
  <2>4. TaskIds' = TaskIds
    BY <2>1 DEF TaskIds
  <2>5. UrbsOrdered'
    BY <2>1, <2>3 DEF UrbsOrdered
  <2>6. StartsFit'
    BY <2>1, <2>2, <2>3, <2>4 DEF StartsFit, StartsOrdered
  <2> QED BY <2>5, <2>6 DEF OrderInv
<1> QED BY <1>1, <1>2, <1>3

LEMMA OrderTaskStart ==
    ASSUME IInv, UrbsInv, ResetInv, OrderInv, TaskStart
    PROVE  OrderInv'
<1> SUFFICES ASSUME \A c \in Callers : pc[c] # "cancel"
             PROVE  UrbsOrdered' /\ StartsFit'
  BY DEF OrderInv, TaskStart
<1> SUFFICES ASSUME NEW t, t = Head(ready).task PROVE UrbsOrdered' /\ StartsFit'
  OBVIOUS
<1>1. /\ t \in TaskIds /\ t \in Nat /\ tasks[t].state = "created" /\ tasks[t] \in TaskRecords
      /\ Head(ready).kind = "start" /\ ready # <<>>
  BY TurnProperties DEF TaskStart, Turn, HandleFits
<1>2. ~tasks[t].mustCancel
  BY <1>1 DEF ResetInv, Unfinished, Over, Doomed
<1>3. UrbsOrdered /\ StartsFit
  BY DEF OrderInv
<1> DEFINE new == [tasks[t] EXCEPT !.state = "inflight", !.urb = "submitted"]
<1>4. SetTask(t, new) /\ urbs' = Append(urbs, t) /\ ready' = Tail(ready)
  BY <1>2 DEF TaskStart
<1>5. /\ new \in TaskRecords /\ new.state = "inflight"
      /\ new.from = tasks[t].from /\ new.to = tasks[t].to
  BY <1>1 DEF TaskRecords, TaskState, UrbState
<1> HIDE DEF new
<1>6. /\ tasks' = [tasks EXCEPT ![t] = new] /\ TaskIds' = TaskIds /\ tasks'[t] = new
      /\ \A u \in TaskIds : u # t => tasks'[u] = tasks[u]
  BY <1>1, <1>4, <1>5, UrbsType, SetTaskProperties
<1>7. /\ DOMAIN urbs' = 1..(Len(urbs) + 1) /\ urbs'[Len(urbs) + 1] = t
      /\ \A i \in 1..Len(urbs) : urbs'[i] = urbs[i]
      /\ DOMAIN urbs = 1..Len(urbs) /\ Len(urbs) \in Nat
      /\ \A i \in DOMAIN urbs : urbs[i] \in TaskIds
  BY <1>1, <1>4, UrbsType, AppendProperties, LenProperties
<1>8. StartsOrdered(Tail(ready))
  BY <1>3, HeadStarts DEF TaskStart
<1>9. \A u \in TaskIds : tasks'[u].state = "created" =>
          u # t /\ tasks[u].state = "created" /\ ~Absent(Tail(ready), "start", u) /\ t < u
  BY <1>3, <1>5, <1>6, HeadStarts DEF TaskStart
<1>10. UrbsOrdered'
  <2>1. \A i \in DOMAIN urbs : urbs[i] < t
    BY <1>1, <1>3 DEF UrbsOrdered
  <2>2. \A i, j \in DOMAIN urbs' : i < j => urbs'[i] < urbs'[j]
    BY <1>3, <1>7, <2>1 DEF UrbsOrdered
  <2>3. \A i \in DOMAIN urbs', u \in TaskIds' : tasks'[u].state = "created" => urbs'[i] < u
    BY <1>3, <1>6, <1>7, <1>9 DEF UrbsOrdered
  <2> QED BY <2>2, <2>3 DEF UrbsOrdered
<1>11. StartsFit'
  BY <1>4, <1>6, <1>8, <1>9 DEF StartsFit
<1> QED BY <1>10, <1>11

(* A task without a transfer leaves the others in their order. *)
LEMMA OrderRefused ==
    ASSUME IInv, OrderInv, TaskRefused
    PROVE  OrderInv'
<1> SUFFICES ASSUME \A c \in Callers : pc[c] # "cancel"
             PROVE  UrbsOrdered' /\ StartsFit'
  BY DEF OrderInv, TaskRefused
<1> SUFFICES ASSUME NEW t, t = Head(ready).task PROVE UrbsOrdered' /\ StartsFit'
  OBVIOUS
<1>1. UrbsOrdered /\ StartsFit /\ Turn("start") /\ UNCHANGED urbs
  BY DEF OrderInv, TaskRefused
<1>2. /\ t \in TaskIds /\ t \in Nat
      /\ SetTask(t, Ended("error")) /\ ready' = Append(Tail(ready), CallbackHandle(t))
  BY <1>1, TurnProperties DEF TaskRefused
<1>3. Ended("error") \in TaskRecords /\ Ended("error").state = "over"
  BY EndedType DEF Outcomes
<1>4. /\ TaskIds' = TaskIds /\ tasks'[t].state = "over"
      /\ \A u \in TaskIds : u # t => tasks'[u] = tasks[u]
  BY <1>2, <1>3, UrbsType, SetTaskProperties
<1>5. CallbackHandle(t) \in Handles /\ CallbackHandle(t).kind = "callback"
  BY <1>2 DEF CallbackHandle, Handle, Handles, Kinds
<1>6. Keeps(Tail(ready), ready') /\ StartsOrdered(Tail(ready))
  BY <1>1, <1>2, <1>5, HeadStarts, KeepsAppend
<1>7. UrbsOrdered'
  BY <1>1, <1>4 DEF UrbsOrdered
<1>8. \A u \in TaskIds : tasks'[u].state = "created" => ~Absent(Tail(ready), "start", u)
  BY <1>1, <1>4, HeadStarts
<1>9. StartsFit'
  BY <1>4, <1>6, <1>8 DEF StartsFit, Keeps
<1> QED BY <1>7, <1>9

(* A task moves on that is neither to be started nor with the controller. *)
LEMMA OrderOneTask ==
    ASSUME IInv, UrbsOrdered, StartsFit, UNCHANGED urbs, Keeps(ready, ready'),
           NEW t \in TaskIds, tasks[t].state # "created",
           NEW new \in TaskRecords, SetTask(t, new), new.state # "created"
    PROVE  UrbsOrdered' /\ StartsFit'
<1>1. /\ tasks' = [tasks EXCEPT ![t] = new] /\ TaskIds' = TaskIds /\ tasks'[t] = new
      /\ \A u \in TaskIds : u # t => tasks'[u] = tasks[u]
  BY UrbsType, SetTaskProperties
<1>3. \A u \in TaskIds : tasks'[u].state = "created" <=> tasks[u].state = "created"
  BY <1>1
<1>7. UrbsOrdered'
  BY <1>1, <1>3 DEF UrbsOrdered
<1>8. StartsFit'
  BY <1>1, <1>3 DEF StartsFit, Keeps
<1> QED BY <1>7, <1>8

LEMMA OrderTransfer ==
    ASSUME IInv, OrderInv, TransferCallback, UNCHANGED restVars
    PROVE  OrderInv'
<1> SUFFICES ASSUME \A c \in Callers : pc[c] # "cancel"
             PROVE  UrbsOrdered' /\ StartsFit'
  BY DEF OrderInv, TransferCallback
<1> SUFFICES ASSUME NEW t, t = Head(ready).task PROVE UrbsOrdered' /\ StartsFit'
  OBVIOUS
<1>1. /\ t \in TaskIds /\ t \in Nat /\ tasks[t] \in TaskRecords
      /\ Head(ready).kind = "usb" /\ ready # <<>> /\ UNCHANGED urbs
  BY TurnProperties DEF TransferCallback, Turn, restVars
<1>2. UrbsOrdered /\ StartsFit /\ ready \in Seq(Handles)
  BY UrbsType DEF OrderInv
<1>3. /\ StartsOrdered(Tail(ready)) /\ Tail(ready) \in Seq(Handles)
      /\ \A u : Absent(ready, "start", u) <=> Absent(Tail(ready), "start", u)
  BY <1>1, <1>2, KeepsTail DEF StartsFit
<1>4. WakeHandle(t) \in Handles /\ WakeHandle(t).kind = "wake"
  BY <1>1 DEF WakeHandle, Handle, Handles, Kinds
<1>5. /\ StartsOrdered(Append(Tail(ready), WakeHandle(t)))
      /\ \A u : Absent(ready, "start", u) <=> Absent(Append(Tail(ready), WakeHandle(t)), "start", u)
  BY <1>3, <1>4, KeepsAppend
<1>6. /\ StartsOrdered(ready')
      /\ \A u : Absent(ready, "start", u) <=> Absent(ready', "start", u)
  BY <1>3, <1>5 DEF TransferCallback
<1>7. /\ TaskIds' = TaskIds
      /\ \A u \in TaskIds : tasks'[u].state = "created" <=> tasks[u].state = "created"
  <2>1. CASE UNCHANGED tasks
    BY <2>1 DEF TaskIds
  <2>2. ASSUME NEW state \in {"completed", "retired"},
               tasks[t].state = IF state = "completed" THEN "inflight" ELSE "cancelling",
               SetTask(t, [tasks[t] EXCEPT !.state = state])
        PROVE  <1>7!:
    <3> DEFINE new == [tasks[t] EXCEPT !.state = state]
    <3>1. new \in TaskRecords /\ new.state = state /\ SetTask(t, new)
      BY <1>1, <2>2 DEF TaskRecords, TaskState
    <3> HIDE DEF new
    <3>2. /\ tasks' = [tasks EXCEPT ![t] = new] /\ TaskIds' = TaskIds /\ tasks'[t] = new
          /\ \A u \in TaskIds : u # t => tasks'[u] = tasks[u]
      BY <1>1, <3>1, UrbsType, SetTaskProperties
    <3> QED BY <2>2, <3>1, <3>2
  <2> QED BY <2>1, <2>2 DEF TransferCallback
<1>10. UrbsOrdered'
  BY <1>1, <1>2, <1>7 DEF UrbsOrdered
<1>11. StartsFit'
  BY <1>2, <1>6, <1>7 DEF StartsFit
<1> QED BY <1>10, <1>11

LEMMA OrderTaskWake ==
    ASSUME IInv, UrbsInv, ResetInv, OrderInv, TaskWake
    PROVE  OrderInv'
<1> SUFFICES ASSUME \A c \in Callers : pc[c] # "cancel"
             PROVE  UrbsOrdered' /\ StartsFit'
  BY DEF OrderInv, TaskWake
<1>1. PICK t \in TaskIds :
         /\ tasks[t].state \in {"completed", "cancelled", "retired"} /\ t \in Nat
         /\ ready # <<>> /\ Head(ready).kind = "wake" /\ ready \in Seq(Handles)
         /\ UNCHANGED urbs
         /\ \/ HasToCancel(t)
            \/ /\ SetTask(t, Ended(Outcome(t)))
               /\ ready' = Append(Tail(ready), CallbackHandle(t))
            \/ \E b \in (pos + 1)..wtotal :
                  Submit(b, [tasks EXCEPT ![t] = Ended("ok")], Acked(t),
                         Append(Append(Tail(ready), StartHandle(Len(tasks) + 1)),
                                CallbackHandle(t)))
  BY TaskWakes
<1>2. UrbsOrdered /\ StartsFit
  BY DEF OrderInv
<1>3. tasks[t].state = "completed" /\ ~HasToCancel(t)
  BY <1>1 DEF ResetInv, Unfinished, Over, Doomed, HasToCancel
<1>5. Keeps(ready, Tail(ready)) /\ Tail(ready) \in Seq(Handles)
  BY <1>1, KeepsTail
<1>6. CallbackHandle(t) \in Handles /\ CallbackHandle(t).kind = "callback"
  BY <1>1 DEF CallbackHandle, Handle, Handles, Kinds
<1>7. CASE /\ SetTask(t, Ended(Outcome(t)))
           /\ ready' = Append(Tail(ready), CallbackHandle(t))
  <2>1. Outcome(t) \in Outcomes
    BY <1>1 DEF Outcome, Outcomes, IInv, TaskFits
  <2>2. Ended(Outcome(t)) \in TaskRecords /\ Ended(Outcome(t)).state = "over"
    BY <2>1, EndedType
  <2>3. Keeps(Tail(ready), Append(Tail(ready), CallbackHandle(t)))
    BY <1>5, <1>6, KeepsAppend
  <2>4. Keeps(ready, ready')
    BY <1>5, <1>7, <2>3, KeepsTransitive
  <2> QED BY <1>1, <1>2, <1>3, <1>7, <2>2, <2>4, OrderOneTask
<1>8. ASSUME NEW b \in (pos + 1)..wtotal,
             Submit(b, [tasks EXCEPT ![t] = Ended("ok")], Acked(t),
                    Append(Append(Tail(ready), StartHandle(Len(tasks) + 1)), CallbackHandle(t)))
      PROVE  UrbsOrdered' /\ StartsFit'
  <2> SUFFICES ASSUME NEW n, n = Len(tasks) PROVE UrbsOrdered' /\ StartsFit'
    OBVIOUS
  <2> DEFINE ts == [tasks EXCEPT ![t] = Ended("ok")]
             s == StartHandle(n + 1)
  <2>1. /\ ts \in Seq(TaskRecords) /\ Len(ts) = n /\ ts[t].state = "over"
        /\ \A u \in TaskIds : u # t => ts[u] = tasks[u]
    <3>1. Ended("ok") \in TaskRecords /\ Ended("ok").state = "over"
      BY EndedType DEF Outcomes
    <3>2. tasks \in Seq(TaskRecords) /\ t \in 1..Len(tasks)
      BY UrbsType DEF TaskIds
    <3> QED BY <3>1, <3>2, ExceptSeq DEF TaskIds
  <2>2. \A u \in TaskIds : ts[u].state = "created" <=> tasks[u].state = "created"
    BY <1>3, <2>1
  <2>3. Submit(b, ts, Acked(t), Append(Append(Tail(ready), s), CallbackHandle(t)))
    BY <1>8
  <2>4. s \in Handles
    BY UrbsType, LenProperties DEF StartHandle, Handle, Handles, Kinds
  <2>5. Keeps(Append(Tail(ready), s), Append(Append(Tail(ready), s), CallbackHandle(t)))
    <3> HIDE DEF s
    <3>1. Append(Tail(ready), s) \in Seq(Handles)
      BY <1>5, <2>4, KeepsAppend
    <3> QED BY <1>6, <3>1, KeepsAppend
  <2> HIDE DEF ts
  <2>6. /\ StartsOrdered(Tail(ready)) /\ QueueFits(Tail(ready), tasks)
        /\ \A u \in TaskIds : tasks[u].state = "created" => ~Absent(Tail(ready), "start", u)
    <3>1. QueueFits(Tail(ready), tasks)
      BY <1>1, QueueTail DEF IInv
    <3> QED BY <1>2, <1>5, <3>1 DEF StartsFit, Keeps
  <2> QED BY <1>1, <1>2, <1>5, <2>1, <2>2, <2>3, <2>5, <2>6, OrderGrows
<1> QED BY <1>1, <1>3, <1>7, <1>8

LEMMA OrderUsb ==
    ASSUME IInv, UrbsInv, ResetInv, OrderInv, UsbStep
    PROVE  OrderInv'
<1>1. PICK k \in DOMAIN urbs, urb \in {"ok", "error", "cancelled"} :
         /\ SetTask(urbs[k], [tasks[urbs[k]] EXCEPT !.urb = urb])
         /\ ready' = Append(ready, Handle("usb", urbs[k], {}))
         /\ urbs' \in Seq(TaskIds) /\ Len(urbs') = Len(urbs) - 1
         /\ \A i \in DOMAIN urbs' : urbs'[i] = IF i < k THEN urbs[i] ELSE urbs[i + 1]
         /\ UNCHANGED pc
         /\ \/ k = 1
            \/ tasks[urbs[k]].state = "cancelling"
  BY UrbLeaves
<1> SUFFICES ASSUME \A c \in Callers : pc[c] # "cancel"
             PROVE  UrbsOrdered' /\ StartsFit'
  BY <1>1 DEF OrderInv
<1> SUFFICES ASSUME NEW t, t = urbs[k] PROVE UrbsOrdered' /\ StartsFit'
  OBVIOUS
<1>2. /\ UrbsOrdered /\ StartsFit
      /\ t \in TaskIds /\ t \in Nat /\ tasks[t] \in TaskRecords /\ tasks[t].state # "created"
      /\ DOMAIN urbs = 1..Len(urbs) /\ Len(urbs) \in Nat
      /\ \A i \in DOMAIN urbs : urbs[i] \in TaskIds /\ urbs[i] \in Nat
  BY UrbsType DEF OrderInv
<1>3. k = 1
  <2>1. tasks[t].urb = "submitted"
    BY DEF UrbsInv
  <2>2. tasks[t].state # "cancelling"
    BY <1>2 DEF ResetInv, Unfinished, Over, Doomed
  <2> QED BY <1>1, <2>2
<1> DEFINE new == [tasks[t] EXCEPT !.urb = urb]
<1>4. new \in TaskRecords /\ new.state = tasks[t].state /\ SetTask(t, new)
  BY <1>1, <1>2 DEF TaskRecords, UrbState
<1> HIDE DEF new
<1>5. /\ tasks' = [tasks EXCEPT ![t] = new] /\ TaskIds' = TaskIds /\ tasks'[t] = new
      /\ \A u \in TaskIds : u # t => tasks'[u] = tasks[u]
  BY <1>2, <1>4, UrbsType, SetTaskProperties
<1>6. \A u \in TaskIds : tasks'[u].state = "created" <=> tasks[u].state = "created"
  BY <1>4, <1>5
<1>7. DOMAIN urbs' = 1..(Len(urbs) - 1) /\ \A i \in DOMAIN urbs' : i \in Nat /\ urbs'[i] = urbs[i + 1]
  <2>1. DOMAIN urbs' = 1..(Len(urbs) - 1)
    BY <1>1, LenProperties
  <2>2. \A i \in 1..(Len(urbs) - 1) : i \in Nat /\ ~(i < 1)
    BY <1>2
  <2> QED BY <1>1, <1>3, <2>1, <2>2
<1>11. UrbsOrdered'
  <2>1. \A i \in DOMAIN urbs' : i + 1 \in DOMAIN urbs /\ i \in Nat
    BY <1>2, <1>7
  <2>2. \A i, j \in DOMAIN urbs' : i < j => i + 1 < j + 1
    BY <2>1
  <2> QED BY SMTT(30), ZenonT(30), <1>2, <1>5, <1>6, <1>7, <2>1, <2>2 DEF UrbsOrdered
<1>12. StartsFit'
  <2> DEFINE h == Handle("usb", t, {})
  <2>1. h \in Handles /\ h.kind = "usb" /\ ready' = Append(ready, h)
    BY <1>1, <1>2 DEF Handle, Handles, Kinds
  <2> HIDE DEF h
  <2>2. /\ StartsOrdered(Append(ready, h))
        /\ \A u : Absent(Append(ready, h), "start", u) <=> Absent(ready, "start", u)
    BY <1>2, <2>1, UrbsType, KeepsAppend DEF StartsFit
  <2> QED BY <1>2, <1>5, <1>6, <2>1, <2>2 DEF StartsFit
<1> QED BY <1>11, <1>12

LEMMA OrderNext == IInv /\ CallersFit /\ UrbsInv /\ ResetInv /\ OrderInv /\ [Next]_vars => OrderInv'
<1> SUFFICES ASSUME IInv, CallersFit, UrbsInv, ResetInv, OrderInv, [Next]_vars PROVE OrderInv'
  OBVIOUS
<1>1. CASE Quiet
  BY <1>1, OrderQuiet
<1>2. CASE \E c \in Callers : SendSubmit(c) \/ FlushSubmit(c) \/ CallReset(c) \/ EndCancel(c)
  BY <1>2, OrderCallers
<1>3. CASE TaskStart
  BY <1>3, OrderTaskStart
<1>4. CASE TaskWake
  BY <1>4, OrderTaskWake
<1>5. CASE UsbStep
  BY <1>5, OrderUsb
<1>6. CASE TransferCallback /\ UNCHANGED restVars
  BY <1>6, OrderTransfer
<1>7. CASE TaskRefused
  BY <1>7, OrderRefused
<1> QED BY <1>1, <1>2, <1>3, <1>4, <1>5, <1>6, <1>7, StepKinds

LEMMA OrderAlways == Spec => []OrderInv
<1>1. ASSUME Init PROVE OrderInv
  <2>1. TaskIds = {} /\ DOMAIN urbs = {} /\ DOMAIN ready = {}
    BY <1>1 DEF Init, TaskIds
  <2> QED BY <2>1 DEF OrderInv, UrbsOrdered, StartsFit, StartsOrdered
<1>2. Init => OrderInv
  BY <1>1
<1> QED BY <1>2, OrderNext, CallersAlways, UrbsAlways, ResetAlways, PTL DEF Spec

--------------------------------------------------------------------------------
(* What flush() has seen *)

(* Once flush() only waits, no byte sent before it is left in the buffer. *)
MarkInv == \A c \in Callers : mark[c] <= wtotal /\ (pc[c] = "drain" => mark[c] <= pos)

LEMMA MarkKept ==
    ASSUME IInv, MarkInv, TypeOK', wtotal <= wtotal', pos <= pos',
           \A c \in Callers : mark'[c] = mark[c] /\ (pc'[c] = "drain" => pc[c] = "drain")
    PROVE  MarkInv'
<1>1. ASSUME NEW c \in Callers PROVE (mark[c] <= wtotal)' /\ (pc[c] = "drain" => mark[c] <= pos)'
  <2>1. mark[c] \in Nat /\ mark[c] <= wtotal /\ (pc[c] = "drain" => mark[c] <= pos)
    BY DEF MarkInv, IInv, TypeOK
  <2>2. pos \in Nat /\ wtotal \in Nat /\ pos' \in Nat /\ wtotal' \in Nat
    BY DEF IInv, TypeOK
  <2> QED BY <2>1, <2>2
<1> QED BY <1>1 DEF MarkInv

(* The bytes of a flush() are counted, those of others are not forgotten. *)
LEMMA MarkMoves ==
    ASSUME IInv, MarkInv, UNCHANGED <<pos, wtotal>>, NEW c \in Callers, NEW w, w # "drain",
           pc' = [pc EXCEPT ![c] = w], NEW m \in 0..wtotal, mark' = [mark EXCEPT ![c] = m]
    PROVE  MarkInv'
<1>1. m <= wtotal
  BY DEF IInv, TypeOK
<1>2. \A d \in Callers : /\ d = c => pc'[d] = w /\ mark'[d] = m
                         /\ d # c => pc'[d] = pc[d] /\ mark'[d] = mark[d]
  BY DEF IInv, TypeOK
<1>3. ASSUME NEW d \in Callers PROVE (mark[d] <= wtotal)' /\ (pc[d] = "drain" => mark[d] <= pos)'
  BY <1>1, <1>2 DEF MarkInv
<1> QED BY <1>3 DEF MarkInv

LEMMA MarkQuiet ==
    ASSUME IInv, MarkInv, TypeOK', Quiet
    PROVE  MarkInv'
<1>0. pos \in Nat /\ wtotal \in Nat /\ pos <= pos /\ wtotal <= wtotal
  BY DEF IInv, TypeOK
<1>1. ASSUME NEW c \in Callers, CallerWakes(c), UNCHANGED <<outside, arg, mark>> PROVE MarkInv'
  <2>1. \A d \in Callers : mark'[d] = mark[d] /\ (pc'[d] = "drain" => pc[d] = "drain")
    BY <1>1 DEF CallerWakes, IInv, TypeOK
  <2> QED BY <1>0, <1>1, <2>1, MarkKept DEF outside, pipeVars
<1>2. ASSUME NEW c \in Callers, Resume(c), UNCHANGED restVars PROVE MarkInv'
  <2>1. \A d \in Callers : mark'[d] = mark[d] /\ (pc'[d] = "drain" => pc[d] = "drain")
    BY <1>2 DEF Resume, Poll, restVars, IInv, TypeOK
  <2> QED BY <1>0, <1>2, <2>1, MarkKept DEF restVars
<1>3. ASSUME NEW c \in Callers, Yields(c) PROVE MarkInv'
  <2>1. 0 \in 0..wtotal /\ "idle" # "drain"
    BY <1>0
  <2> QED BY <1>3, <2>1, MarkMoves DEF Yields, Yield, outside, pipeVars
<1>4. ASSUME NEW c \in Callers, CallFlush(c) PROVE MarkInv'
  <2>1. wtotal \in 0..wtotal /\ "flush" # "drain"
    BY <1>0
  <2> QED BY <1>4, <2>1, MarkMoves DEF CallFlush, Calls, outside, pipeVars
<1>5. ASSUME NEW c \in Callers,
             \/ CallSend(c) \/ SendWait(c) \/ SendWrite(c) \/ SendReturn(c)
             \/ FlushWait(c) \/ FlushDrain(c) \/ FlushReturn(c)
      PROVE  MarkInv'
  <2>1. /\ UNCHANGED <<pos, mark>>
        /\ pc' = pc \/ \E w \in {"run", "send", "submit"} : pc' = [pc EXCEPT ![c] = w]
    BY <1>5 DEF CallSend, Calls, SendWait, SendWrite, SendReturn, FlushWait, FlushDrain,
                FlushReturn,
                WaitOne, Poll, outside, pipeVars
  <2>2. wtotal <= wtotal'
    <3>1. CASE SendWrite(c)
      BY <1>0, <3>1 DEF SendWrite, IInv, TypeOK
    <3> QED BY <1>0, <1>5, <3>1 DEF CallSend, SendWait, SendReturn, FlushWait, FlushDrain,
                                    FlushReturn, outside, pipeVars
  <2>3. \A d \in Callers : mark'[d] = mark[d] /\ (pc'[d] = "drain" => pc[d] = "drain")
    BY <2>1 DEF IInv, TypeOK
  <2> QED BY <1>0, <2>1, <2>2, <2>3, MarkKept
<1>6. CASE (TaskCallback \/ LateCompleted) /\ UNCHANGED <<tasks, urbs, restVars>>
  BY <1>0, <1>6, MarkKept DEF TaskCallback, LateCompleted, restVars
<1>7. CASE UNCHANGED vars
  BY <1>0, <1>7, MarkKept DEF vars, outside, pipeVars
<1> QED BY <1>1, <1>2, <1>3, <1>4, <1>5, <1>6, <1>7 DEF Quiet

LEMMA MarkCallers ==
    ASSUME IInv, MarkInv, TypeOK', NEW c \in Callers,
           SendSubmit(c) \/ FlushSubmit(c) \/ CallReset(c) \/ EndCancel(c)
    PROVE  MarkInv'
<1>0. pos \in Nat /\ wtotal \in Nat /\ pos <= wtotal /\ mark \in [Callers -> Nat]
  BY DEF IInv, TypeOK, BufferFits
<1>1. CASE SendSubmit(c) \/ FlushSubmit(c)
  <2>1. /\ UNCHANGED <<wtotal, mark>> /\ \A d \in Callers : d # c => pc'[d] = pc[d]
        /\ pos <= pos'
    <3>1. \A b \in (pos + 1)..wtotal : pos <= b
      BY <1>0
    <3> QED BY <1>0, <1>1, <3>1, CallerSubmits DEF Submit
  <2>2. pc'[c] = "drain" => wtotal <= pos'
    <3>1. CASE SendSubmit(c)
      BY <3>1 DEF SendSubmit
    <3>2. CASE FlushSubmit(c)
      <4>1. CASE FlushFits /\ BufferLen > 0
        BY <1>0, <3>2, <4>1 DEF FlushSubmit, Submit
      <4>2. CASE ~FlushFits
        BY <3>2, <4>2 DEF FlushSubmit, IInv, TypeOK
      <4>3. CASE ~(BufferLen > 0)
        BY <1>0, <3>2, <4>3 DEF FlushSubmit, BufferLen
      <4> QED BY <4>1, <4>2, <4>3
    <3> QED BY <1>1, <3>1, <3>2
  <2>3. pos' \in Nat
    BY DEF TypeOK
  <2>4. ASSUME NEW d \in Callers PROVE (mark[d] <= wtotal)' /\ (pc[d] = "drain" => mark[d] <= pos)'
    <3>1. mark[d] \in Nat /\ mark[d] <= wtotal /\ (pc[d] = "drain" => mark[d] <= pos)
      BY <1>0 DEF MarkInv
    <3>2. CASE d = c
      BY <1>0, <2>1, <2>2, <2>3, <3>1, <3>2
    <3>3. CASE d # c
      BY <1>0, <2>1, <2>3, <3>1, <3>3
    <3> QED BY <3>2, <3>3
  <2> QED BY <2>4 DEF MarkInv
<1>2. CASE CallReset(c) \/ EndCancel(c)
  <2>1. /\ UNCHANGED <<wtotal, mark>> /\ pos' \in {pos, wtotal}
        /\ pc' = [pc EXCEPT ![c] = "cancel"] \/ pc' = [pc EXCEPT ![c] = "run"]
    BY <1>2 DEF CallReset, CancelQueue, Calls, EndCancel, Clear
  <2>2. \A d \in Callers : mark'[d] = mark[d] /\ (pc'[d] = "drain" => pc[d] = "drain")
    BY <2>1 DEF IInv, TypeOK
  <2>3. pos <= pos' /\ wtotal <= wtotal'
    BY <1>0, <2>1
  <2> QED BY <2>2, <2>3, MarkKept
<1> QED BY <1>1, <1>2

LEMMA MarkNext == IInv /\ MarkInv /\ [Next]_vars => MarkInv'
<1> SUFFICES ASSUME IInv, MarkInv, [Next]_vars PROVE MarkInv'
  OBVIOUS
<1>0. TypeOK' /\ pos \in Nat /\ wtotal \in Nat /\ pos <= pos /\ wtotal <= wtotal
  <2>1. TypeOK'
    BY NextOK DEF IInv
  <2>2. pos \in Nat /\ wtotal \in Nat /\ pos <= pos /\ wtotal <= wtotal
    BY DEF IInv, TypeOK
  <2> QED BY <2>1, <2>2
<1>1. CASE Quiet
  BY <1>0, <1>1, MarkQuiet
<1>2. CASE \E c \in Callers : SendSubmit(c) \/ FlushSubmit(c) \/ CallReset(c) \/ EndCancel(c)
  BY <1>0, <1>2, MarkCallers
<1>3. CASE TaskStart \/ TaskRefused \/ (TransferCallback /\ UNCHANGED restVars)
  BY <1>0, <1>3, MarkKept DEF TaskStart, TaskRefused, TransferCallback, restVars
<1>4. CASE TaskWake
  <2>1. UNCHANGED <<pc, wtotal, mark>> /\ (pos' = pos \/ \E b \in (pos + 1)..wtotal : pos' = b)
    BY <1>4, TaskWakes DEF Submit
  <2>2. \A b \in (pos + 1)..wtotal : pos <= b
    BY <1>0
  <2> QED BY <1>0, <2>1, <2>2, MarkKept
<1>5. CASE UsbStep
  <2>1. UNCHANGED <<pc, pos, wtotal, mark>>
    BY <1>5 DEF UsbStep, UsbComplete, UsbCancelled, restVars
  <2> QED BY <1>0, <2>1, MarkKept
<1> QED BY <1>1, <1>2, <1>3, <1>4, <1>5, StepKinds

LEMMA MarkAlways == Spec => []MarkInv
<1>1. Init => MarkInv
  BY DEF Init, MarkInv
<1> QED BY <1>1, MarkNext, Inductive, PTL DEF Spec

--------------------------------------------------------------------------------
(* The stream that is the abstract specification of the pipe *)

(* The data that the controller has still to get, and what holds of it also *)
(* while reset() cancels tasks: no byte is in two places, and the transfers *)
(* are in the order of their data.                                          *)
Cut ==
    /\ \A t \in Pending : tasks[t].from < tasks[t].to /\ tasks[t].to <= pos
    /\ \A t, u \in Pending : t < u => tasks[t].to <= tasks[u].from

StreamInv == UrbsOrdered /\ Cut

SameData(S) == \A t \in S : tasks'[t].from = tasks[t].from /\ tasks'[t].to = tasks[t].to

(* The three ways in which a step can change what is pending. *)
Stays == Pending' = Pending /\ SameData(Pending) /\ UNCHANGED pos

Leaves(t) == Pending' = Pending \ {t} /\ SameData(Pending \ {t}) /\ UNCHANGED pos

Grows(n, b) ==
    /\ n \in Nat /\ \A t \in Pending : t < n
    /\ Pending' = Pending \cup {n} /\ SameData(Pending)
    /\ tasks'[n].from = pos /\ tasks'[n].to = b
    /\ b \in (pos + 1)..wtotal /\ pos' = b

LEMMA PendingType ==
    ASSUME IInv
    PROVE  \A t \in Pending : /\ t \in TaskIds /\ t \in Nat /\ tasks[t] \in TaskRecords
                              /\ tasks[t].from \in Nat /\ tasks[t].to \in Nat
<1>1. \A t \in Pending : t \in TaskIds
  BY DEF Pending
<1>2. \A t \in TaskIds : tasks[t] \in TaskRecords /\ t \in Nat
  BY UrbsType
<1> QED BY <1>1, <1>2 DEF TaskRecords

LEMMA CutMoves ==
    ASSUME IInv, Cut, Stays \/ (\E t \in Pending : Leaves(t)) \/ (\E n, b : Grows(n, b))
    PROVE  Cut'
<1>1. pos \in Nat
  BY DEF IInv, TypeOK
<1>2. CASE Stays
  BY <1>2 DEF Stays, Cut, SameData
<1>3. ASSUME NEW t \in Pending, Leaves(t) PROVE Cut'
  BY <1>3 DEF Leaves, Cut, SameData
<1>4. ASSUME NEW n, NEW b, Grows(n, b) PROVE Cut'
  <2>1. /\ n \in Nat /\ Pending' = Pending \cup {n} /\ pos' = b /\ b \in Nat /\ pos < b
        /\ tasks'[n].from = pos /\ tasks'[n].to = b
        /\ \A t \in Pending : /\ t < n /\ tasks'[t].from = tasks[t].from
                              /\ tasks'[t].to = tasks[t].to
    BY <1>1, <1>4 DEF Grows, SameData, IInv, TypeOK
  <2>2. \A t \in Pending : /\ t \in Nat /\ tasks[t].from \in Nat /\ tasks[t].to \in Nat
                           /\ tasks[t].from < tasks[t].to /\ tasks[t].to <= pos
    BY PendingType DEF Cut
  <2>3. \A t \in Pending' : tasks'[t].from < tasks'[t].to /\ tasks'[t].to <= pos'
    BY <1>1, <2>1, <2>2
  <2>4. ASSUME NEW t \in Pending', NEW u \in Pending', t < u
        PROVE  tasks'[t].to <= tasks'[u].from
    <3>1. t \in Pending
      BY <2>1, <2>2, <2>4
    <3>2. CASE u \in Pending
      BY <2>1, <2>4, <3>1, <3>2 DEF Cut
    <3>3. CASE u = n
      BY <2>1, <2>2, <3>1, <3>3
    <3> QED BY <2>1, <3>2, <3>3
  <2> QED BY <2>3, <2>4 DEF Cut
<1> QED BY <1>2, <1>3, <1>4

(* Nothing is submitted, and who is left with the controller or is still to *)
(* be started is in the same order.                                         *)
LEMMA OrderStays ==
    ASSUME UrbsOrdered, UNCHANGED urbs,
           \A t \in TaskIds' : tasks'[t].state = "created" => t \in TaskIds /\ tasks[t].state = "created"
    PROVE  UrbsOrdered'
  BY DEF UrbsOrdered

(* A task that moves on without a transfer for the controller. *)
LEMMA StreamOneTask ==
    ASSUME IInv, UrbsOrdered, UNCHANGED <<urbs, pos>>,
           NEW t \in TaskIds, tasks[t].state # "created",
           NEW new \in TaskRecords, SetTask(t, new), new.state # "created",
           t \in Pending => new.from = tasks[t].from /\ new.to = tasks[t].to
    PROVE  UrbsOrdered' /\ Stays
<1>1. /\ TaskIds' = TaskIds /\ tasks'[t] = new
      /\ \A u \in TaskIds : u # t => tasks'[u] = tasks[u]
  BY UrbsType, SetTaskProperties
<1>2. \A u \in TaskIds : tasks'[u].state = "created" <=> tasks[u].state = "created"
  BY <1>1
<1>3. Pending' = Pending /\ \A u \in Pending : u \in TaskIds
  BY <1>1, <1>2 DEF Pending
<1>4. SameData(Pending)
  BY <1>1, <1>3 DEF SameData
<1> QED BY <1>1, <1>2, <1>3, <1>4, OrderStays DEF Stays

(* A task is submitted, in the same step in which another may have ended. *)
LEMMA StreamSubmit ==
    ASSUME IInv, UrbsOrdered, UNCHANGED urbs, NEW ts \in Seq(TaskRecords), Len(ts) = Len(tasks),
           \A t \in TaskIds : ts[t].state = "created" <=> tasks[t].state = "created",
           \A t \in Pending : ts[t] = tasks[t],
           NEW b \in (pos + 1)..wtotal, NEW acked, NEW r, Submit(b, ts, acked, r)
    PROVE  UrbsOrdered' /\ \E n : Grows(n, b)
<1> SUFFICES ASSUME NEW n, n = Len(tasks) PROVE UrbsOrdered' /\ Grows(n + 1, b)
  OBVIOUS
<1>1. /\ n \in Nat /\ TaskIds = 1..n /\ TaskIds' = TaskIds \cup {n + 1}
      /\ n + 1 \notin TaskIds
      /\ tasks'[n + 1] = Task(pos, b) /\ \A u \in TaskIds : tasks'[u] = ts[u]
      /\ pos' = b
  BY TaskSubmitted
<1>2. tasks'[n + 1].state = "created" /\ tasks'[n + 1].from = pos /\ tasks'[n + 1].to = b
  BY <1>1 DEF Task
<1>3. \A i \in DOMAIN urbs : urbs[i] \in TaskIds
  BY UrbsType
<1>4. Pending' = Pending \cup {n + 1}
  BY <1>1, <1>2, <1>3 DEF Pending
<1>5. UrbsOrdered'
  <2>1. \A i \in DOMAIN urbs : urbs[i] < n + 1
    BY <1>1, <1>3
  <2> QED BY <1>1, <2>1 DEF UrbsOrdered
<1>6. \A t \in Pending : t \in TaskIds /\ t < n + 1
  BY <1>1 DEF Pending
<1>7. SameData(Pending)
  BY <1>1, <1>6 DEF SameData
<1> QED BY <1>1, <1>2, <1>4, <1>5, <1>6, <1>7 DEF Grows

LEMMA StreamQuiet ==
    ASSUME IInv, UrbsOrdered, Quiet
    PROVE  UrbsOrdered' /\ Stays
<1>1. UNCHANGED <<tasks, urbs, pos>>
  BY QuietSteps
<1>2. TaskIds' = TaskIds /\ Pending' = Pending
  BY <1>1 DEF TaskIds, Pending
<1> QED BY <1>1, <1>2, OrderStays DEF Stays, SameData

LEMMA StreamCallers ==
    ASSUME IInv, UrbsOrdered, NEW c \in Callers, SendSubmit(c) \/ FlushSubmit(c)
    PROVE  UrbsOrdered' /\ (Stays \/ \E n, b : Grows(n, b))
<1>1. /\ UNCHANGED urbs
      /\ \/ UNCHANGED <<tasks, pos>>
         \/ \E b \in (pos + 1)..wtotal :
               Submit(b, tasks, 0, Append(ready, StartHandle(Len(tasks) + 1)))
  BY CallerSubmits
<1>2. CASE UNCHANGED <<tasks, pos>>
  <2>1. TaskIds' = TaskIds /\ Pending' = Pending
    BY <1>1, <1>2 DEF TaskIds, Pending
  <2> QED BY <1>1, <1>2, <2>1, OrderStays DEF Stays, SameData
<1>3. ASSUME NEW b \in (pos + 1)..wtotal,
             Submit(b, tasks, 0, Append(ready, StartHandle(Len(tasks) + 1)))
      PROVE  UrbsOrdered' /\ \E n : Grows(n, b)
  BY <1>1, <1>3, UrbsType, StreamSubmit
<1> QED BY <1>1, <1>2, <1>3

LEMMA StreamReset ==
    ASSUME IInv, UrbsOrdered, NEW c \in Callers, CallReset(c)
    PROVE  UrbsOrdered' /\ Stays
<1>1. tasks' = Cancelled /\ UNCHANGED <<urbs, pos>>
  BY DEF CallReset, CancelQueue
<1>2. /\ TaskIds' = TaskIds
      /\ \A t \in TaskIds : /\ tasks'[t].from = tasks[t].from /\ tasks'[t].to = tasks[t].to
                            /\ tasks'[t].state = "created" <=> tasks[t].state = "created"
  BY <1>1, CancelledProperties DEF TaskIds
<1>3. Pending' = Pending /\ \A t \in Pending : t \in TaskIds
  BY <1>1, <1>2 DEF Pending
<1> QED BY <1>1, <1>2, <1>3, OrderStays DEF Stays, SameData

(* When reset() has waited for its tasks, nothing is pending. *)
LEMMA StreamEnd ==
    ASSUME IInv, CallersFit, UrbsInv, ResetInv, NEW c \in Callers, EndCancel(c)
    PROVE  /\ UrbsOrdered' /\ Cut' /\ Pending = {} /\ Pending' = {} /\ pc[c] = "cancel"
           /\ pos' = pos \/ pos' = wtotal
           /\ taken' = pos'
           /\ UNCHANGED <<wtotal, failures>> /\ \A d \in Callers : pc'[d] # "cancel"
<1>1. /\ Unfinished = {} /\ UNCHANGED <<tasks, urbs>> /\ (pos' = pos \/ pos' = wtotal)
      /\ taken' = pos'
      /\ pc[c] = "cancel" /\ UNCHANGED <<wtotal, failures>>
  BY DEF EndCancel, Clear, CallersFit, ResetInv
<1>2. \A t \in TaskIds : tasks[t].state = "over"
  BY <1>1 DEF Unfinished, Over
<1>3. \A i \in DOMAIN urbs : FALSE
  BY <1>2, UrbsType DEF UrbsInv
<1>4. TaskIds' = TaskIds /\ Pending = {} /\ Pending' = {}
  BY <1>1, <1>2, <1>3 DEF TaskIds, Pending
<1>5. UrbsOrdered' /\ Cut'
  BY <1>1, <1>3, <1>4 DEF UrbsOrdered, Cut
<1>6. \A d \in Callers : pc'[d] # "cancel"
  BY <1>1 DEF EndCancel, CallersFit, Outside, IInv, TypeOK
<1> QED BY <1>1, <1>4, <1>5, <1>6

(* A task that ends at its first step takes its data with it. *)
LEMMA StreamEndsAtStart ==
    ASSUME IInv, UrbsInv, UrbsOrdered, NEW outcome \in Outcomes, EndsAtStart(outcome),
           NEW t, t = Head(ready).task
    PROVE  UrbsOrdered' /\ t \in Pending /\ Leaves(t)
<1>1. t \in TaskIds /\ tasks[t].state = "created" /\ UNCHANGED pos
  BY TurnProperties DEF EndsAtStart, Turn, HandleFits
<1>2. t \in Pending /\ \A i \in DOMAIN urbs : urbs[i] # t
  BY <1>1, UrbsType DEF Pending
<1>3. SetTask(t, Ended(outcome)) /\ UNCHANGED urbs
  BY DEF EndsAtStart
<1>4. Ended(outcome) \in TaskRecords /\ Ended(outcome).state = "over"
  BY EndedType
<1>5. /\ TaskIds' = TaskIds /\ tasks'[t].state = "over"
      /\ \A u \in TaskIds : u # t => tasks'[u] = tasks[u]
  BY <1>1, <1>3, <1>4, UrbsType, SetTaskProperties
<1>6. Pending' = Pending \ {t}
  BY <1>2, <1>3, <1>5 DEF Pending
<1>7. SameData(Pending \ {t})
  BY <1>5 DEF SameData, Pending
<1>8. \A u \in TaskIds' : tasks'[u].state = "created" => u \in TaskIds /\ tasks[u].state = "created"
  BY <1>5
<1> QED BY <1>1, <1>2, <1>3, <1>6, <1>7, <1>8, OrderStays DEF Leaves

LEMMA StreamRefused ==
    ASSUME IInv, UrbsInv, UrbsOrdered, TaskRefused
    PROVE  UrbsOrdered' /\ \E t \in Pending :
              Leaves(t) /\ refused' = refused \cup (tasks[t].from + 1)..tasks[t].to
<1> SUFFICES ASSUME NEW t, t = Head(ready).task
             PROVE  /\ UrbsOrdered' /\ t \in Pending /\ Leaves(t)
                    /\ refused' = refused \cup (tasks[t].from + 1)..tasks[t].to
  OBVIOUS
<1>1. "error" \in Outcomes /\ EndsAtStart("error")
  BY StartEnds DEF Outcomes
<1> QED BY <1>1, StreamEndsAtStart DEF TaskRefused

(* A task that a reset has cancelled takes its data with it; outside a      *)
(* reset the first of those that have not started starts.                   *)
LEMMA StreamTaskStart ==
    ASSUME IInv, UrbsInv, ResetInv, OrderInv, UrbsOrdered, TaskStart
    PROVE  /\ UrbsOrdered' /\ UNCHANGED <<pc, wtotal, taken, refused, failures>>
           /\ \/ Stays
              \/ Resetting /\ \E t \in Pending : Leaves(t)
<1> SUFFICES ASSUME NEW t, t = Head(ready).task
             PROVE  UrbsOrdered' /\ (Stays \/ (Resetting /\ \E u \in Pending : Leaves(u)))
  BY DEF TaskStart
<1>1. /\ t \in TaskIds /\ t \in Nat /\ tasks[t].state = "created" /\ tasks[t] \in TaskRecords
      /\ Head(ready).kind = "start" /\ ready # <<>> /\ UNCHANGED pos
  BY TurnProperties DEF TaskStart, Turn, HandleFits
<1>3. CASE tasks[t].mustCancel
  <2>1. "cancelled" \in Outcomes /\ EndsAtStart("cancelled")
    BY <1>3, StartEnds DEF Outcomes
  <2>2. Resetting
    BY <1>1, <1>3 DEF Resetting, ResetInv, Unfinished, Over, Doomed
  <2> QED BY <2>1, <2>2, StreamEndsAtStart
<1>4. CASE ~tasks[t].mustCancel
  <2> DEFINE new == [tasks[t] EXCEPT !.state = "inflight", !.urb = "submitted"]
  <2>1. SetTask(t, new) /\ urbs' = Append(urbs, t) /\ UNCHANGED pc
    BY <1>4 DEF TaskStart
  <2>2. /\ new \in TaskRecords /\ new.state = "inflight"
        /\ new.from = tasks[t].from /\ new.to = tasks[t].to
    BY <1>1 DEF TaskRecords, TaskState, UrbState
  <2> HIDE DEF new
  <2>3. /\ TaskIds' = TaskIds /\ tasks'[t] = new
        /\ \A u \in TaskIds : u # t => tasks'[u] = tasks[u]
    BY <1>1, <2>1, <2>2, UrbsType, SetTaskProperties
  <2>4. /\ DOMAIN urbs' = 1..(Len(urbs) + 1) /\ urbs'[Len(urbs) + 1] = t
        /\ \A i \in 1..Len(urbs) : urbs'[i] = urbs[i]
        /\ DOMAIN urbs = 1..Len(urbs) /\ Len(urbs) \in Nat
        /\ \A i \in DOMAIN urbs : urbs[i] \in TaskIds
    BY <1>1, <2>1, UrbsType, AppendProperties, LenProperties
  <2>5. Pending' = Pending
    <3>1. \A u : (\E i \in DOMAIN urbs' : urbs'[i] = u)
                    <=> (u = t \/ \E i \in DOMAIN urbs : urbs[i] = u)
      <4>1. Len(urbs) + 1 \in DOMAIN urbs'
        BY <2>4
      <4>2. \A i \in DOMAIN urbs' : i \in DOMAIN urbs \/ i = Len(urbs) + 1
        BY <2>4
      <4>3. \A i \in DOMAIN urbs : i \in DOMAIN urbs'
        BY <2>4
      <4> QED BY <2>4, <4>1, <4>2, <4>3
    <3> QED BY <1>1, <2>2, <2>3, <3>1 DEF Pending
  <2>6. SameData(Pending)
    BY <2>2, <2>3 DEF SameData, Pending
  <2>7. UrbsOrdered'
    <3>1. \A c \in Callers : pc[c] # "cancel"
      BY <1>1, <1>4 DEF ResetInv, Unfinished, Over, Doomed
    <3>2. OrderInv'
      BY OrderTaskStart
    <3> QED BY <2>1, <3>1, <3>2 DEF OrderInv
  <2>8. Stays
    BY <1>1, <2>5, <2>6 DEF Stays
  <2> QED BY <2>7, <2>8
<1> QED BY <1>3, <1>4

LEMMA StreamTransfer ==
    ASSUME IInv, UrbsOrdered, TransferCallback, UNCHANGED restVars
    PROVE  UrbsOrdered' /\ Stays
<1> SUFFICES ASSUME NEW t, t = Head(ready).task PROVE UrbsOrdered' /\ Stays
  OBVIOUS
<1>1. t \in TaskIds /\ tasks[t] \in TaskRecords /\ UNCHANGED <<urbs, pos>>
  BY TurnProperties DEF TransferCallback, restVars
<1>2. CASE UNCHANGED tasks
  <2>1. TaskIds' = TaskIds /\ Pending' = Pending
    BY <1>1, <1>2 DEF TaskIds, Pending
  <2> QED BY <1>1, <1>2, <2>1, OrderStays DEF Stays, SameData
<1>3. ASSUME NEW state \in {"completed", "retired"}, tasks[t].state # "created",
             SetTask(t, [tasks[t] EXCEPT !.state = state])
      PROVE  UrbsOrdered' /\ Stays
  <2> DEFINE new == [tasks[t] EXCEPT !.state = state]
  <2>1. /\ new \in TaskRecords /\ new.state # "created" /\ SetTask(t, new)
        /\ new.from = tasks[t].from /\ new.to = tasks[t].to
    BY <1>1, <1>3 DEF TaskRecords, TaskState
  <2> HIDE DEF new
  <2> QED BY <1>1, <1>3, <2>1, StreamOneTask
<1>4. \/ UNCHANGED tasks
      \/ \E state \in {"completed", "retired"} :
            tasks[t].state # "created" /\ SetTask(t, [tasks[t] EXCEPT !.state = state])
  BY DEF TransferCallback
<1> QED BY <1>2, <1>3, <1>4

LEMMA StreamTaskWake ==
    ASSUME IInv, UrbsInv, UrbsOrdered, TaskWake
    PROVE  UrbsOrdered' /\ (Stays \/ \E n, b : Grows(n, b))
<1>1. PICK t \in TaskIds :
         /\ tasks[t].state \in {"completed", "cancelled", "retired"} /\ UNCHANGED urbs
         /\ \/ SetTask(t, [tasks[t] EXCEPT !.state = "cancelling"]) /\ UNCHANGED pos
            \/ ~HasToCancel(t) /\ SetTask(t, Ended(Outcome(t))) /\ UNCHANGED pos
            \/ /\ ~HasToCancel(t)
               /\ \E b \in (pos + 1)..wtotal :
                     Submit(b, [tasks EXCEPT ![t] = Ended("ok")], Acked(t),
                            Append(Append(Tail(ready), StartHandle(Len(tasks) + 1)),
                                   CallbackHandle(t)))
  BY TaskWakes
<1>2. ~HasToCancel(t) => t \notin Pending
  BY <1>1 DEF HasToCancel, Pending, UrbsInv
<1>3. CASE SetTask(t, [tasks[t] EXCEPT !.state = "cancelling"]) /\ UNCHANGED pos
  <2> DEFINE new == [tasks[t] EXCEPT !.state = "cancelling"]
  <2>1. /\ new \in TaskRecords /\ new.state # "created" /\ SetTask(t, new)
        /\ new.from = tasks[t].from /\ new.to = tasks[t].to
    <3>1. tasks[t] \in TaskRecords
      BY UrbsType
    <3> QED BY <1>3, <3>1 DEF TaskRecords, TaskState
  <2> HIDE DEF new
  <2> QED BY <1>1, <1>3, <2>1, StreamOneTask
<1>4. CASE ~HasToCancel(t) /\ SetTask(t, Ended(Outcome(t))) /\ UNCHANGED pos
  <2>1. Outcome(t) \in Outcomes
    BY <1>1 DEF Outcome, Outcomes, IInv, TaskFits
  <2>2. Ended(Outcome(t)) \in TaskRecords /\ Ended(Outcome(t)).state = "over"
    BY <2>1, EndedType
  <2> QED BY <1>1, <1>2, <1>4, <2>2, StreamOneTask
<1>5. ASSUME ~HasToCancel(t), NEW b \in (pos + 1)..wtotal,
             Submit(b, [tasks EXCEPT ![t] = Ended("ok")], Acked(t),
                    Append(Append(Tail(ready), StartHandle(Len(tasks) + 1)), CallbackHandle(t)))
      PROVE  UrbsOrdered' /\ \E n : Grows(n, b)
  <2> DEFINE ts == [tasks EXCEPT ![t] = Ended("ok")]
             r == Append(Append(Tail(ready), StartHandle(Len(tasks) + 1)), CallbackHandle(t))
  <2>1. /\ ts \in Seq(TaskRecords) /\ Len(ts) = Len(tasks) /\ ts[t].state = "over"
        /\ \A u \in TaskIds : u # t => ts[u] = tasks[u]
    <3>1. Ended("ok") \in TaskRecords /\ Ended("ok").state = "over"
      BY EndedType DEF Outcomes
    <3>2. tasks \in Seq(TaskRecords) /\ t \in 1..Len(tasks)
      BY UrbsType DEF TaskIds
    <3> QED BY <3>1, <3>2, ExceptSeq DEF TaskIds
  <2>2. Submit(b, ts, Acked(t), r)
    BY <1>5
  <2> HIDE DEF ts, r
  <2>3. /\ \A u \in TaskIds : ts[u].state = "created" <=> tasks[u].state = "created"
        /\ \A u \in Pending : ts[u] = tasks[u]
    BY <1>1, <1>2, <1>5, <2>1 DEF Pending
  <2> QED BY <1>1, <2>1, <2>2, <2>3, StreamSubmit
<1> QED BY <1>1, <1>3, <1>4, <1>5

(* The controller takes the first transfer, or gives one back that a reset *)
(* has cancelled.                                                          *)
LEMMA StreamUsb ==
    ASSUME IInv, UrbsInv, ResetInv, UrbsOrdered, UsbStep
    PROVE  /\ UrbsOrdered' /\ UNCHANGED <<pc, wtotal, refused>>
           /\ \E t \in Pending :
                 /\ Leaves(t)
                 /\ \/ Resetting /\ UNCHANGED failures
                    \/ /\ \A u \in Pending : t <= u
                       /\ taken' = tasks[t].to /\ failures' \in {failures, failures + 1}
<1>1. PICK k \in DOMAIN urbs, urb \in {"ok", "error", "cancelled"} :
         /\ SetTask(urbs[k], [tasks[urbs[k]] EXCEPT !.urb = urb])
         /\ urbs' \in Seq(TaskIds) /\ Len(urbs') = Len(urbs) - 1
         /\ \A i \in DOMAIN urbs' : urbs'[i] = IF i < k THEN urbs[i] ELSE urbs[i + 1]
         /\ UNCHANGED <<pc, pos, wtotal, refused>>
         /\ \/ k = 1 /\ taken' = tasks[urbs[k]].to /\ failures' \in {failures, failures + 1}
            \/ tasks[urbs[k]].state = "cancelling" /\ UNCHANGED failures
  BY UrbLeaves
<1> SUFFICES ASSUME NEW t, t = urbs[k]
             PROVE  /\ UrbsOrdered' /\ t \in Pending /\ Leaves(t)
                    /\ \/ Resetting /\ UNCHANGED failures
                       \/ /\ \A u \in Pending : t <= u
                          /\ taken' = tasks[t].to /\ failures' \in {failures, failures + 1}
  BY <1>1
<1>2. /\ t \in TaskIds /\ t \in Nat /\ tasks[t] \in TaskRecords /\ tasks[t].state # "created"
      /\ DOMAIN urbs = 1..Len(urbs) /\ Len(urbs) \in Nat /\ k \in 1..Len(urbs)
      /\ \A i \in DOMAIN urbs : urbs[i] \in TaskIds /\ urbs[i] \in Nat
  BY UrbsType
<1> DEFINE new == [tasks[t] EXCEPT !.urb = urb]
<1>3. /\ new \in TaskRecords /\ new.state = tasks[t].state
      /\ new.from = tasks[t].from /\ new.to = tasks[t].to /\ SetTask(t, new)
  BY <1>1, <1>2 DEF TaskRecords, UrbState
<1> HIDE DEF new
<1>4. /\ TaskIds' = TaskIds /\ tasks'[t] = new
      /\ \A u \in TaskIds : u # t => tasks'[u] = tasks[u]
  BY <1>2, <1>3, UrbsType, SetTaskProperties
<1>5. \A u \in TaskIds : /\ tasks'[u].from = tasks[u].from /\ tasks'[u].to = tasks[u].to
                         /\ tasks'[u].state = "created" <=> tasks[u].state = "created"
  BY <1>3, <1>4
<1>6. DOMAIN urbs' = 1..(Len(urbs) - 1)
  BY <1>1, LenProperties
<1>7. ASSUME NEW i \in DOMAIN urbs'
      PROVE  \E j \in DOMAIN urbs : /\ j # k /\ urbs'[i] = urbs[j] /\ j = IF i < k THEN i ELSE i + 1
  <2>1. i \in Nat /\ i \in DOMAIN urbs /\ i + 1 \in DOMAIN urbs
    BY <1>2, <1>6
  <2>2. CASE i < k
    BY <1>1, <1>2, <2>1, <2>2
  <2>3. CASE ~(i < k)
    <3>1. i + 1 # k
      BY <1>2, <2>1, <2>3
    <3> QED BY <1>1, <2>1, <2>3, <3>1
  <2> QED BY <2>2, <2>3
<1>8. Pending' = Pending \ {t}
  <2>1. ASSUME NEW u
        PROVE  (\E i \in DOMAIN urbs' : urbs'[i] = u) <=> (u # t /\ \E i \in DOMAIN urbs : urbs[i] = u)
    <3>1. ASSUME NEW i \in DOMAIN urbs', urbs'[i] = u
          PROVE  u # t /\ \E j \in DOMAIN urbs : urbs[j] = u
      BY <1>7, <3>1 DEF UrbsInv
    <3>2. ASSUME u # t, NEW j \in DOMAIN urbs, urbs[j] = u
          PROVE  \E i \in DOMAIN urbs' : urbs'[i] = u
      <4>1. j \in 1..Len(urbs) /\ j # k
        BY <1>2, <3>2
      <4>2. CASE j < k
        <5>1. j \in DOMAIN urbs'
          BY <1>2, <1>6, <4>1, <4>2
        <5> QED BY <1>1, <3>2, <4>2, <5>1
      <4>3. CASE k < j
        <5>1. j - 1 \in DOMAIN urbs' /\ ~(j - 1 < k) /\ (j - 1) + 1 = j
          BY <1>2, <1>6, <4>1, <4>3
        <5>2. urbs'[j - 1] = urbs[(j - 1) + 1]
          BY <1>1, <5>1
        <5> QED BY <3>2, <5>1, <5>2
      <4> QED BY <1>2, <4>1, <4>2, <4>3
    <3> QED BY <3>1, <3>2
  <2>2. /\ TaskIds' = TaskIds /\ tasks[t].state # "created"
        /\ \A u \in TaskIds : tasks'[u].state = "created" <=> tasks[u].state = "created"
    BY <1>2, <1>4, <1>5
  <2> QED BY ONLY <2>1, <2>2 DEF Pending
<1>9. t \in Pending /\ Leaves(t)
  <2>1. t \in Pending /\ \A u \in Pending : u \in TaskIds
    BY <1>2 DEF Pending
  <2>2. SameData(Pending \ {t})
    BY <1>5, <2>1 DEF SameData
  <2> QED BY <1>1, <1>8, <2>1, <2>2 DEF Leaves
<1>10. UrbsOrdered'
  <2>1. ASSUME NEW i \in DOMAIN urbs', NEW j \in DOMAIN urbs', i < j PROVE urbs'[i] < urbs'[j]
    <3>1. PICK m \in DOMAIN urbs : urbs'[i] = urbs[m] /\ m = IF i < k THEN i ELSE i + 1
      BY <1>7
    <3>2. PICK n \in DOMAIN urbs : urbs'[j] = urbs[n] /\ n = IF j < k THEN j ELSE j + 1
      BY <1>7
    <3>3. i \in Nat /\ j \in Nat
      BY <1>6
    <3>4. m < n
      BY <1>2, <2>1, <3>1, <3>2, <3>3
    <3> QED BY <3>1, <3>2, <3>4 DEF UrbsOrdered
  <2>2. \A i \in DOMAIN urbs', u \in TaskIds' : tasks'[u].state = "created" => urbs'[i] < u
    BY <1>4, <1>5, <1>7 DEF UrbsOrdered
  <2> QED BY <2>1, <2>2 DEF UrbsOrdered
<1>11. CASE tasks[t].state = "cancelling" /\ UNCHANGED failures
  <2>1. t \in Unfinished /\ Doomed(t)
    BY <1>2, <1>11 DEF Unfinished, Over, Doomed
  <2>2. Resetting
    BY <2>1 DEF ResetInv, Resetting
  <2> QED BY <1>9, <1>10, <1>11, <2>2
<1>12. CASE k = 1 /\ taken' = tasks[t].to /\ failures' \in {failures, failures + 1}
  <2>1. ASSUME NEW u \in Pending PROVE t <= u
    <3>1. CASE u \in TaskIds /\ tasks[u].state = "created"
      <4>1. t < u /\ u \in Nat
        BY <3>1, UrbsType DEF UrbsOrdered
      <4> QED BY <1>2, <4>1
    <3>2. ASSUME NEW j \in DOMAIN urbs, urbs[j] = u PROVE t <= u
      <4>1. j = 1 \/ 1 < j
        BY <1>2, <3>2
      <4>2. u \in Nat
        BY <1>2, <3>2
      <4> QED BY <1>2, <1>12, <3>2, <4>1, <4>2 DEF UrbsOrdered
    <3> QED BY <3>1, <3>2 DEF Pending
  <2> QED BY <1>9, <1>10, <1>12, <2>1
<1> QED BY <1>1, <1>11, <1>12

LEMMA StreamNext ==
    IInv /\ CallersFit /\ UrbsInv /\ ResetInv /\ OrderInv /\ StreamInv /\ [Next]_vars => StreamInv'
<1> SUFFICES ASSUME IInv, CallersFit, UrbsInv, ResetInv, OrderInv, UrbsOrdered, Cut, [Next]_vars
             PROVE  UrbsOrdered' /\ Cut'
  BY DEF StreamInv
<1> DEFINE Moves == Stays \/ (\E t \in Pending : Leaves(t)) \/ (\E n, b : Grows(n, b))
<1>1. CASE UrbsOrdered' /\ Moves
  BY <1>1, CutMoves
<1>2. ASSUME NEW c \in Callers, EndCancel(c) PROVE UrbsOrdered' /\ Cut'
  BY <1>2, StreamEnd
<1>3. \/ UrbsOrdered' /\ Moves
      \/ \E c \in Callers : EndCancel(c)
  <2>1. CASE Quiet
    BY <2>1, StreamQuiet
  <2>2. CASE \E c \in Callers : SendSubmit(c) \/ FlushSubmit(c)
    BY <2>2, StreamCallers
  <2>3. CASE \E c \in Callers : CallReset(c)
    BY <2>3, StreamReset
  <2>4. CASE TaskStart
    BY <2>4, StreamTaskStart
  <2>5. CASE TaskWake
    BY <2>5, StreamTaskWake
  <2>6. CASE UsbStep
    BY <2>6, StreamUsb
  <2>7. CASE TransferCallback /\ UNCHANGED restVars
    BY <2>7, StreamTransfer
  <2>8. CASE TaskRefused
    BY <2>8, StreamRefused
  <2> QED BY <2>1, <2>2, <2>3, <2>4, <2>5, <2>6, <2>7, <2>8, StepKinds
<1> QED BY <1>1, <1>2, <1>3

LEMMA StreamAlways == Spec => []StreamInv
<1>1. ASSUME Init PROVE StreamInv
  <2>1. TaskIds = {} /\ DOMAIN urbs = {} /\ Pending = {}
    BY <1>1 DEF Init, TaskIds, Pending
  <2> QED BY <2>1 DEF StreamInv, UrbsOrdered, Cut
<1>2. Init => StreamInv
  BY <1>1
<1> QED BY <1>2, StreamNext, Inductive, CallersAlways, UrbsAlways, ResetAlways, OrderAlways, PTL DEF Spec

--------------------------------------------------------------------------------
(* What the device has not taken *)

(* It is cut into the transfers still to be executed, without gaps but for *)
(* the transfers that were never submitted.                                *)
Tiled ==
    /\ taken <= pos
    /\ \A t \in Pending : taken <= tasks[t].from
    /\ \A n \in (taken + 1)..pos :
          n \in refused \/ \E t \in Pending : n \in (tasks[t].from + 1)..tasks[t].to

TiledInv == (\A c \in Callers : pc[c] # "cancel") => Tiled

LEMMA TiledStays ==
    ASSUME IInv, Tiled, UNCHANGED <<taken, refused>>, Stays \/ \E n, b : Grows(n, b)
    PROVE  Tiled'
<1>1. taken \in Nat /\ pos \in Nat
  BY DEF IInv, TypeOK
<1>2. CASE Stays
  BY <1>2 DEF Stays, SameData, Tiled
<1>3. ASSUME NEW n, NEW b, Grows(n, b) PROVE Tiled'
  <2>1. /\ Pending' = Pending \cup {n} /\ pos' = b /\ b \in Nat /\ pos < b
        /\ tasks'[n].from = pos /\ tasks'[n].to = b
        /\ \A t \in Pending : tasks'[t].from = tasks[t].from /\ tasks'[t].to = tasks[t].to
    BY <1>1, <1>3 DEF Grows, SameData, IInv, TypeOK
  <2>2. \A m \in (taken + 1)..b : m \in (taken + 1)..pos \/ m \in (pos + 1)..b
    BY <1>1, <2>1
  <2>3. ASSUME NEW m \in (taken + 1)..b
        PROVE  m \in refused \/ \E t \in Pending' : m \in (tasks'[t].from + 1)..tasks'[t].to
    <3>1. CASE m \in (pos + 1)..b
      BY <2>1, <3>1
    <3>2. CASE m \in (taken + 1)..pos
      <4>1. m \in refused \/ \E t \in Pending : m \in (tasks[t].from + 1)..tasks[t].to
        BY <3>2 DEF Tiled
      <4> QED BY <2>1, <4>1
    <3> QED BY <2>2, <3>1, <3>2
  <2>4. taken' <= pos' /\ \A t \in Pending' : taken' <= tasks'[t].from
    BY <1>1, <2>1 DEF Tiled
  <2> QED BY <2>1, <2>3, <2>4 DEF Tiled
<1> QED BY <1>2, <1>3

(* A transfer is not submitted, ... *)
LEMMA TiledRefused ==
    ASSUME IInv, Tiled, UNCHANGED taken, NEW t \in Pending, Leaves(t),
           refused' = refused \cup (tasks[t].from + 1)..tasks[t].to
    PROVE  Tiled'
<1>1. /\ Pending' = Pending \ {t} /\ UNCHANGED pos
      /\ \A u \in Pending \ {t} : tasks'[u].from = tasks[u].from /\ tasks'[u].to = tasks[u].to
  BY DEF Leaves, SameData
<1>2. ASSUME NEW n \in (taken + 1)..pos
      PROVE  n \in refused' \/ \E u \in Pending' : n \in (tasks'[u].from + 1)..tasks'[u].to
  <2>1. n \in refused \/ \E u \in Pending : n \in (tasks[u].from + 1)..tasks[u].to
    BY DEF Tiled
  <2> QED BY <1>1, <2>1
<1> QED BY <1>1, <1>2 DEF Tiled

(* ... or the device takes the first one. *)
LEMMA TiledTaken ==
    ASSUME IInv, Cut, Tiled, UNCHANGED refused, NEW t \in Pending, Leaves(t),
           \A u \in Pending : t <= u, taken' = tasks[t].to
    PROVE  Tiled'
<1>1. /\ Pending' = Pending \ {t} /\ UNCHANGED pos
      /\ \A u \in Pending \ {t} : tasks'[u].from = tasks[u].from /\ tasks'[u].to = tasks[u].to
  BY DEF Leaves, SameData
<1>2. /\ taken \in Nat /\ pos \in Nat /\ tasks[t].from \in Nat /\ tasks[t].to \in Nat
      /\ taken <= tasks[t].to /\ tasks[t].to <= pos
  <2>1. taken \in Nat /\ pos \in Nat /\ tasks[t].from \in Nat /\ tasks[t].to \in Nat
    BY PendingType DEF IInv, TypeOK
  <2>2. taken <= tasks[t].from /\ tasks[t].from < tasks[t].to /\ tasks[t].to <= pos
    BY DEF Tiled, Cut
  <2> QED BY <2>1, <2>2
<1>3. \A u \in Pending \ {t} : tasks[t].to <= tasks[u].from
  <2>1. \A u \in Pending \ {t} : t < u
    BY PendingType
  <2> QED BY <2>1 DEF Cut
<1>4. ASSUME NEW n \in (tasks[t].to + 1)..pos
      PROVE  n \in refused \/ \E u \in Pending' : n \in (tasks'[u].from + 1)..tasks'[u].to
  <2>1. n \in (taken + 1)..pos /\ n \notin (tasks[t].from + 1)..tasks[t].to
    BY <1>2
  <2>2. n \in refused \/ \E u \in Pending : n \in (tasks[u].from + 1)..tasks[u].to
    BY <2>1 DEF Tiled
  <2> QED BY <1>1, <2>1, <2>2
<1> QED BY <1>1, <1>2, <1>3, <1>4 DEF Tiled

LEMMA TiledNext ==
    IInv /\ CallersFit /\ UrbsInv /\ ResetInv /\ OrderInv /\ StreamInv /\ TiledInv /\ [Next]_vars
        => TiledInv'
<1> SUFFICES ASSUME IInv, CallersFit, UrbsInv, ResetInv, OrderInv, UrbsOrdered, Cut, TiledInv,
                    [Next]_vars
             PROVE  TiledInv'
  BY DEF StreamInv
<1>1. ASSUME NEW c \in Callers, CallReset(c) PROVE TiledInv'
  <2>1. pc'[c] = "cancel"
    BY <1>1 DEF CallReset, CancelQueue, Calls, IInv, TypeOK
  <2> QED BY <2>1 DEF TiledInv
<1>2. ASSUME NEW c \in Callers, EndCancel(c) PROVE TiledInv'
  <2>1. PICK p \in Nat : Pending' = {} /\ taken' = p /\ pos' = p
    BY <1>2, StreamEnd DEF IInv, TypeOK
  <2>2. p <= p /\ \A n \in (p + 1)..p : FALSE
    OBVIOUS
  <2> QED BY <2>1, <2>2 DEF TiledInv, Tiled
<1>3. ASSUME \A c \in Callers : ~CallReset(c) /\ ~EndCancel(c) PROVE TiledInv'
  <2>1. \A c \in Callers : pc[c] = "cancel" => pc'[c] = "cancel"
    <3>1. CASE Quiet
      BY <3>1, QuietSteps
    <3>2. ASSUME NEW c \in Callers, SendSubmit(c) \/ FlushSubmit(c)
          PROVE  \A d \in Callers : pc[d] = "cancel" => pc'[d] = "cancel"
      BY <3>2, CallerSubmits
    <3>3. CASE TaskStart \/ TaskRefused \/ TaskWake \/ UsbStep \/ TransferCallback
      BY <3>3 DEF TaskStart, TaskRefused, TaskWake, UsbStep, UsbComplete, UsbCancelled,
                  TransferCallback
    <3> QED BY <1>3, <3>1, <3>2, <3>3, StepKinds
  <2> SUFFICES ASSUME \A c \in Callers : pc[c] # "cancel" PROVE Tiled'
    BY <2>1 DEF TiledInv
  <2>2. Tiled /\ ~Resetting
    BY DEF TiledInv, Resetting
  <2>3. CASE Quiet
    BY <2>2, <2>3, QuietSteps, StreamQuiet, TiledStays
  <2>4. ASSUME NEW c \in Callers, SendSubmit(c) \/ FlushSubmit(c) PROVE Tiled'
    BY <2>2, <2>4, CallerSubmits, StreamCallers, TiledStays
  <2>5. CASE TaskStart
    BY <2>2, <2>5, StreamTaskStart, TiledStays
  <2>6. CASE TaskRefused
    <3>1. UNCHANGED taken
      BY <2>6 DEF TaskRefused
    <3> QED BY <2>2, <2>6, <3>1, StreamRefused, TiledRefused
  <2>7. CASE TaskWake
    BY <2>2, <2>7, TaskWakes, StreamTaskWake, TiledStays
  <2>8. CASE UsbStep
    BY <2>2, <2>8, StreamUsb, TiledTaken
  <2>9. CASE TransferCallback /\ UNCHANGED restVars
    <3>1. UNCHANGED <<taken, refused>>
      BY <2>9 DEF restVars
    <3> QED BY <2>2, <2>9, <3>1, StreamTransfer, TiledStays
  <2> QED BY <1>3, <2>3, <2>4, <2>5, <2>6, <2>7, <2>8, <2>9, StepKinds
<1> QED BY <1>1, <1>2, <1>3

LEMMA TiledAlways == Spec => []TiledInv
<1>1. ASSUME Init PROVE TiledInv
  <2>1. TaskIds = {} /\ DOMAIN urbs = {} /\ Pending = {} /\ pos = 0 /\ taken = 0
    BY <1>1 DEF Init, TaskIds, Pending
  <2>2. (0 + 1)..0 = {} /\ 0 <= 0
    OBVIOUS
  <2> QED BY <2>1, <2>2 DEF TiledInv, Tiled
<1>2. Init => TiledInv
  BY <1>1
<1> QED BY <1>2, TiledNext, Inductive, CallersAlways, UrbsAlways, ResetAlways, OrderAlways,
           StreamAlways, PTL DEF Spec

(* What the device has not taken is cut, in order, into the transfers      *)
(* still to be executed and the buffer behind them, whichever transfers    *)
(* fail; only those that could not be submitted leave a gap.               *)
THEOREM BytesInOrder == Spec => []InOrder
<1>1. OrderInv /\ StreamInv /\ TiledInv => InOrder
  BY DEF OrderInv, UrbsOrdered, StreamInv, Cut, TiledInv, Tiled, InOrder
<1> QED BY <1>1, OrderAlways, StreamAlways, TiledAlways, PTL

(* flush() returns when the queue is empty.  Then no task is left that     *)
(* holds data, all that was taken out of the buffer has been taken by the  *)
(* device or was never submitted, and that is all that had been sent when  *)
(* flush() was called.                                                     *)
THEOREM FlushIsDelivered == Spec => FlushDelivers
<1>1. ASSUME IInv, CallersFit, UrbsInv, TiledInv, MarkInv, NEW c \in Callers, FlushReturn(c)
      PROVE  (taken + 1)..mark[c] \subseteq refused
  <2>1. running = c /\ pc[c] = "drain" /\ live = {}
    BY <1>1 DEF FlushReturn, QueueBool
  <2>2. \A t \in TaskIds : tasks[t].state = "over"
    BY <1>1, <2>1 DEF IInv, TaskFits
  <2>3. Pending = {}
    BY <1>1, <2>2, UrbsType DEF UrbsInv, Pending
  <2>4. (taken + 1)..pos \subseteq refused
    BY <1>1, <2>1, <2>3, NobodyResets DEF TiledInv, Tiled
  <2>5. mark[c] <= pos /\ mark[c] \in Nat /\ pos \in Nat /\ taken \in Nat
    BY <1>1, <2>1 DEF MarkInv, IInv, TypeOK
  <2>6. (taken + 1)..mark[c] \subseteq (taken + 1)..pos
    BY <2>5
  <2> QED BY <2>4, <2>6
<1>2. IInv /\ CallersFit /\ UrbsInv /\ TiledInv /\ MarkInv /\ [Next]_vars
         => [\A c \in Callers : FlushReturn(c) => (taken + 1)..mark[c] \subseteq refused]_vars
  BY <1>1
<1> QED BY <1>2, Inductive, CallersAlways, UrbsAlways, TiledAlways, MarkAlways, PTL
        DEF Spec, FlushDelivers

--------------------------------------------------------------------------------
(* The steps of the abstract specification *)

(* The queue of the abstract specification lists the bytes sent that the   *)
(* controller has still to get.                                            *)
Queue == FlattenSeq([i \in DOMAIN Held |-> Carried(Held[i])]) \o Run(pos, wtotal)

Outstanding ==
    {b \in Nat : \/ pos < b /\ b <= wtotal
                 \/ \E t \in Pending : tasks[t].from < b /\ b <= tasks[t].to}

Listed == Lists(Queue, Outstanding)

LEMMA CreatedSorted ==
    ASSUME IInv
    PROVE  /\ Created \in Seq(TaskIds)
           /\ \A i \in 1..Len(Created) : tasks[Created[i]].state = "created"
           /\ \A t \in TaskIds : tasks[t].state = "created" => \E i \in 1..Len(Created) : Created[i] = t
           /\ \A i, j \in 1..Len(Created) : i < j => Created[i] < Created[j]
<1>0. PICK new : new = {t \in TaskIds : tasks[t].state = "created"}
  OBVIOUS
<1>1. PICK f : f = [t \in new |-> t]
  OBVIOUS
<1>2. new \subseteq TaskIds /\ TaskIds = 1..Len(tasks) /\ Len(tasks) \in Nat
  BY <1>0, LenProperties DEF IInv, TypeOK, TaskIds
<1>3. Numbers(f, new)
  <2>1. IsFiniteSet(1..Len(tasks))
    <3>1. PICK n \in Nat : n = Len(tasks)
      BY <1>2
    <3>2. IsFiniteSet(1..n)
      BY FS_Interval
    <3> QED BY <3>1, <3>2
  <2>2. IsFiniteSet(new)
    BY <1>2, <2>1, FS_Subset
  <2>3. \A t \in new : t \in Nat /\ f[t] = t
    BY <1>1, <1>2
  <2> QED BY <2>2, <2>3 DEF Numbers
<1>4. PICK s : Sorted(s, f, new)
  BY <1>3, SortedExists
<1>5. ASSUME NEW q
      PROVE  Sorted(q, f, new) <=> /\ q \in [1..Cardinality(new) -> new]
                                   /\ \A i, j \in DOMAIN q : i < j => q[i] < q[j]
  BY <1>1 DEF Sorted
<1>6. Created = CHOOSE q \in [1..Cardinality(new) -> new] : \A i, j \in DOMAIN q : i < j => q[i] < q[j]
  BY <1>0 DEF Created
<1>7. Sorted(Created, f, new)
  BY <1>4, <1>5, <1>6
<1>8. PICK q : q = Created
  OBVIOUS
<1>9. /\ q \in Seq(new) /\ \A x \in new : \E i \in 1..Len(q) : q[i] = x
      /\ \A i, j \in 1..Len(q) : i < j => f[q[i]] < f[q[j]]
  <2>1. Sorted(q, f, new)
    BY <1>7, <1>8
  <2> QED BY ONLY <1>3, <2>1, SortedAll
<1>10. Len(q) \in Nat /\ \A i \in 1..Len(q) : q[i] \in new
  BY <1>9, ElementOfSeq, LenProperties
<1>11. q \in Seq(TaskIds)
  BY <1>2, <1>9, SeqMonotonic
<1>12. \A i, j \in 1..Len(q) : i < j => q[i] < q[j]
  BY <1>1, <1>9, <1>10
<1>13. /\ \A i \in 1..Len(q) : tasks[q[i]].state = "created"
       /\ \A t \in TaskIds : tasks[t].state = "created" => \E i \in 1..Len(q) : q[i] = t
  BY <1>0, <1>9, <1>10
<1> QED BY <1>8, <1>11, <1>12, <1>13

LEMMA HeldSorted ==
    ASSUME IInv, UrbsOrdered
    PROVE  /\ Held \in Seq(TaskIds) /\ \A i \in 1..Len(Held) : Held[i] \in Pending
           /\ \A t \in Pending : \E i \in 1..Len(Held) : Held[i] = t
           /\ \A i, j \in 1..Len(Held) : i < j => Held[i] < Held[j]
<1>1. PICK p, q : p = urbs /\ q = Created
  OBVIOUS
<1>2. /\ p \in Seq(TaskIds) /\ q \in Seq(TaskIds) /\ Len(p) \in Nat /\ Len(q) \in Nat
      /\ DOMAIN p = 1..Len(p)
  BY <1>1, UrbsType, CreatedSorted, LenProperties
<1>3. /\ p \o q \in Seq(TaskIds) /\ Len(p \o q) = Len(p) + Len(q)
      /\ \A i \in 1..(Len(p) + Len(q)) : (p \o q)[i] = IF i <= Len(p) THEN p[i] ELSE q[i - Len(p)]
  BY <1>2, ConcatProperties
<1>4. \A i \in 1..Len(q) : q[i] \in TaskIds /\ tasks[q[i]].state = "created" /\ q[i] \in Pending
  <2>1. \A i \in 1..Len(q) : tasks[q[i]].state = "created"
    BY <1>1, CreatedSorted
  <2>2. \A i \in 1..Len(q) : q[i] \in TaskIds
    BY <1>2, ElementOfSeq
  <2> QED BY <2>1, <2>2 DEF Pending
<1>5. \A i \in 1..Len(p) : p[i] \in Pending
  BY <1>1, <1>2, UrbsType DEF Pending
<1>6. ASSUME NEW t \in Pending
      PROVE  (\E i \in 1..Len(p) : p[i] = t) \/ (\E i \in 1..Len(q) : q[i] = t)
  <2>1. CASE t \in TaskIds /\ tasks[t].state = "created"
    BY <1>1, <2>1, CreatedSorted
  <2>2. CASE \E i \in DOMAIN urbs : urbs[i] = t
    BY <1>1, <1>2, <2>2
  <2> QED BY <2>1, <2>2 DEF Pending
<1>7. ASSUME NEW i \in 1..Len(p \o q)
      PROVE  \/ i \in 1..Len(p) /\ (p \o q)[i] = p[i]
             \/ i - Len(p) \in 1..Len(q) /\ (p \o q)[i] = q[i - Len(p)] /\ ~(i <= Len(p))
  BY <1>2, <1>3
<1>8. ASSUME NEW t \in Pending PROVE \E i \in 1..Len(p \o q) : (p \o q)[i] = t
  <2>1. ASSUME NEW i \in 1..Len(p), p[i] = t PROVE \E j \in 1..Len(p \o q) : (p \o q)[j] = t
    <3>1. i \in 1..(Len(p) + Len(q)) /\ i <= Len(p)
      BY <1>2
    <3> QED BY <1>3, <2>1, <3>1
  <2>2. ASSUME NEW i \in 1..Len(q), q[i] = t PROVE \E j \in 1..Len(p \o q) : (p \o q)[j] = t
    <3>1. /\ Len(p) + i \in 1..(Len(p) + Len(q)) /\ ~(Len(p) + i <= Len(p))
          /\ (Len(p) + i) - Len(p) = i
      BY <1>2
    <3> QED BY <1>3, <2>2, <3>1
  <2> QED BY <1>6, <2>1, <2>2
<1>9. ASSUME NEW i \in 1..Len(p \o q), NEW j \in 1..Len(p \o q), i < j
      PROVE  (p \o q)[i] < (p \o q)[j]
  <2>1. CASE i \in 1..Len(p) /\ j \in 1..Len(p)
    <3>1. p[i] < p[j]
      BY <1>1, <1>2, <1>9, <2>1 DEF UrbsOrdered
    <3>2. (p \o q)[i] = p[i] /\ (p \o q)[j] = p[j]
      BY <1>2, <1>3, <2>1
    <3> QED BY <3>1, <3>2
  <2>2. CASE /\ i \in 1..Len(p) /\ j - Len(p) \in 1..Len(q)
             /\ (p \o q)[i] = p[i] /\ (p \o q)[j] = q[j - Len(p)]
    BY <1>1, <1>2, <1>4, <2>2 DEF UrbsOrdered
  <2>3. CASE /\ i - Len(p) \in 1..Len(q) /\ j - Len(p) \in 1..Len(q)
             /\ (p \o q)[i] = q[i - Len(p)] /\ (p \o q)[j] = q[j - Len(p)]
    <3>1. i - Len(p) < j - Len(p)
      BY <1>2, <1>9
    <3>2. \A m, n \in 1..Len(q) : m < n => q[m] < q[n]
      BY <1>1, CreatedSorted
    <3> QED BY <2>3, <3>1, <3>2
  <2>4. ~(j \in 1..Len(p)) \/ i \in 1..Len(p)
    BY <1>2, <1>9
  <2> QED BY <1>7, <2>1, <2>2, <2>3, <2>4
<1>10. Held = p \o q
  BY <1>1 DEF Held
<1>11. \A i \in 1..Len(p \o q) : (p \o q)[i] \in Pending
  BY <1>4, <1>5, <1>7
<1> QED BY <1>3, <1>8, <1>9, <1>10, <1>11

LEMMA StreamListed ==
    ASSUME IInv, StreamInv
    PROVE  Listed
<1>1. PICK h, n : h = Held /\ n = Len(Held)
  OBVIOUS
<1>2. /\ h \in Seq(TaskIds) /\ \A i \in 1..Len(h) : h[i] \in Pending
      /\ \A t \in Pending : \E i \in 1..Len(h) : h[i] = t
      /\ \A i, j \in 1..Len(h) : i < j => h[i] < h[j]
  BY <1>1, HeldSorted DEF StreamInv
<1>3. n \in Nat /\ Len(h) = n /\ DOMAIN h = 1..n
  BY <1>1, <1>2, LenProperties
<1>4. PICK lo, hi : /\ lo = [i \in 1..n |-> tasks[h[i]].from]
                    /\ hi = [i \in 1..n |-> tasks[h[i]].to]
  OBVIOUS
<1>5. /\ \A i \in 1..n : /\ lo[i] = tasks[h[i]].from /\ hi[i] = tasks[h[i]].to
                         /\ lo[i] \in Nat /\ hi[i] \in Nat /\ lo[i] < hi[i] /\ hi[i] <= pos
  BY <1>2, <1>3, <1>4, PendingType DEF StreamInv, Cut
<1>6. /\ lo \in [1..n -> Nat] /\ hi \in [1..n -> Nat]
      /\ \A i \in 1..n : lo[i] <= hi[i]
      /\ \A i, j \in 1..n : i < j => hi[i] <= lo[j]
  <2>1. \A i, j \in 1..n : i < j => hi[i] <= lo[j]
    BY <1>2, <1>3, <1>5 DEF StreamInv, Cut
  <2> QED BY <1>4, <1>5, <2>1
<1>7. PICK ss : ss = [i \in 1..n |-> [k \in 1..(hi[i] - lo[i]) |-> lo[i] + k]]
  OBVIOUS
<1>8. ss = [i \in DOMAIN Held |-> Carried(Held[i])]
  <2>1. DOMAIN Held = 1..n /\ Held = h
    BY <1>1, <1>3
  <2>2. \A i \in 1..n : Carried(h[i]) = [k \in 1..(hi[i] - lo[i]) |-> lo[i] + k]
    BY <1>5 DEF Carried, Run
  <2> QED BY <1>7, <2>1, <2>2
<1> DEFINE F == {x \in Nat : \E i \in 1..n : lo[i] < x /\ x <= hi[i]}
           R == {x \in Nat : pos < x /\ x <= wtotal}
<1>9. Lists(FlattenSeq(ss), F)
  BY <1>3, <1>6, <1>7, RunsLists
<1>10. Lists(Run(pos, wtotal), R) /\ pos \in Nat
  <2>1. PICK a \in Nat, b \in Nat : a = pos /\ b = wtotal /\ a <= b
    BY DEF IInv, TypeOK, BufferFits
  <2>2. Lists([i \in 1..(b - a) |-> a + i], (a + 1)..b)
    BY <2>1, ListsRun
  <2>3. R = (a + 1)..b
    BY <2>1
  <2> QED BY <2>1, <2>2, <2>3 DEF Run
<1>11. \A x \in F, y \in R : x < y
  BY <1>5, <1>10
<1>12. Lists(FlattenSeq(ss) \o Run(pos, wtotal), F \cup R)
  <2> HIDE DEF F, R
  <2>1. PICK s, t : s = FlattenSeq(ss) /\ t = Run(pos, wtotal)
    OBVIOUS
  <2>2. Lists(s, F) /\ Lists(t, R) /\ \A x \in F, y \in R : x < y
    BY <1>9, <1>10, <1>11, <2>1
  <2>3. Lists(s \o t, F \cup R)
    BY ONLY <2>2, ListsConcat
  <2> QED BY <2>1, <2>3
<1>13. F \cup R = Outstanding
  <2>1. ASSUME NEW x \in Nat
        PROVE  (\E i \in 1..n : lo[i] < x /\ x <= hi[i])
                  <=> (\E t \in Pending : tasks[t].from < x /\ x <= tasks[t].to)
    BY SMTT(30), ZenonT(30), <1>2, <1>3, <1>5
  <2> QED BY <2>1 DEF Outstanding
<1> QED BY <1>8, <1>12, <1>13 DEF Listed, Queue

LEMMA BytesStay ==
    ASSUME Listed, Listed', Outstanding' = Outstanding
    PROVE  Queue' = Queue
<1>1. PICK q, r, B : q = Queue /\ r = Queue' /\ B = Outstanding
  OBVIOUS
<1>2. Lists(q, B) /\ Lists(r, B)
  BY <1>1 DEF Listed
<1>3. q = r
  BY ONLY <1>2, ListsUnique
<1> QED BY <1>1, <1>3

LEMMA BytesMove ==
    ASSUME IInv, Cut, Listed, Listed', UNCHANGED wtotal, Stays \/ \E n, b : Grows(n, b)
    PROVE  Queue' = Queue
<1>1. CASE Stays
  <2>1. Outstanding' = Outstanding
    BY <1>1 DEF Stays, SameData, Outstanding
  <2> QED BY <2>1, BytesStay
<1>2. ASSUME NEW n, NEW b, Grows(n, b) PROVE Queue' = Queue
  <2>1. /\ Pending' = Pending \cup {n} /\ pos' = b /\ pos \in Nat /\ wtotal \in Nat
        /\ b \in (pos + 1)..wtotal /\ tasks'[n].from = pos /\ tasks'[n].to = b
        /\ \A t \in Pending : tasks'[t].from = tasks[t].from /\ tasks'[t].to = tasks[t].to
    BY <1>2 DEF Grows, SameData, IInv, TypeOK
  <2>2. ASSUME NEW x \in Nat
        PROVE  (b < x /\ x <= wtotal) \/ (pos < x /\ x <= b) <=> pos < x /\ x <= wtotal
    BY <2>1
  <2>3. ASSUME NEW x \in Nat
        PROVE  (\E t \in Pending' : tasks'[t].from < x /\ x <= tasks'[t].to)
                  <=> \/ pos < x /\ x <= b
                      \/ \E t \in Pending : tasks[t].from < x /\ x <= tasks[t].to
    BY <2>1
  <2>4. Outstanding' = Outstanding
    BY <2>1, <2>2, <2>3 DEF Outstanding
  <2> QED BY <2>4, BytesStay
<1> QED BY <1>1, <1>2

(* send() puts bytes behind the others. *)
LEMMA BytesSent ==
    ASSUME IInv, Cut, Listed, Listed', Stays, wtotal' \in Nat, wtotal < wtotal'
    PROVE  Queue' = Queue \o Run(wtotal, wtotal')
<1>1. PICK w \in Nat, v \in Nat : w = wtotal /\ v = wtotal' /\ w < v /\ pos \in Nat /\ pos <= w
  BY DEF IInv, TypeOK, BufferFits
<1>2. PICK q, r, B, C : q = Queue /\ r = Queue' /\ B = Outstanding /\ C = (w + 1)..v
  OBVIOUS
<1>3. Outstanding' = B \cup C
  <2>0. B = Outstanding
    BY <1>2
  <2>1. \A x \in Nat : (pos < x /\ x <= v) <=> (pos < x /\ x <= w) \/ x \in C
    BY <1>1, <1>2
  <2>2. C \subseteq Nat
    BY <1>1, <1>2
  <2> QED BY <1>1, <2>0, <2>1, <2>2 DEF Outstanding, Stays, SameData
<1>4. \A x \in B, y \in C : x < y
  <2>1. ASSUME NEW x \in B PROVE x \in Nat /\ x <= w
    <3>1. x \in Nat
      BY <1>2 DEF Outstanding
    <3>2. CASE \E t \in Pending : tasks[t].from < x /\ x <= tasks[t].to
      BY <1>1, <3>1, <3>2, PendingType DEF Cut
    <3> QED BY <1>1, <1>2, <3>1, <3>2 DEF Outstanding
  <2>2. \A y \in C : y \in Nat /\ w < y
    BY <1>1, <1>2
  <2> QED BY <1>1, <2>1, <2>2
<1>5. PICK s : s = [i \in 1..(v - w) |-> w + i]
  OBVIOUS
<1>6. Lists(s, C)
  <2>1. w <= v
    BY <1>1
  <2>2. Lists([i \in 1..(v - w) |-> w + i], (w + 1)..v)
    BY <2>1, ListsRun
  <2> QED BY <1>2, <1>5, <2>2
<1>7. Lists(q, B) /\ Lists(r, B \cup C)
  BY <1>1, <1>2, <1>3 DEF Listed
<1>8. Lists(q \o s, B \cup C)
  BY ONLY <1>4, <1>6, <1>7, ListsConcat
<1>9. r = q \o s
  BY ONLY <1>7, <1>8, ListsUnique
<1> QED BY <1>1, <1>2, <1>5, <1>9 DEF Run

(* A transfer that is executed takes the first bytes, ... *)
LEMMA BytesTaken ==
    ASSUME IInv, Cut, Listed, Listed', UNCHANGED wtotal, NEW t \in Pending, Leaves(t),
           \A u \in Pending : t <= u
    PROVE  \E n \in 0..Len(Queue) : Queue' = SubSeq(Queue, n + 1, Len(Queue))
<1>0. PICK k \in Nat : k = tasks[t].to
  BY PendingType
<1>1. PICK q, r, B : q = Queue /\ r = Queue' /\ B = Outstanding
  OBVIOUS
<1>2. Outstanding' = {x \in B : x > k}
  <2>1. pos \in Nat /\ k <= pos /\ wtotal \in Nat
    BY <1>0 DEF Cut, IInv, TypeOK
  <2>2. /\ Pending' = Pending \ {t} /\ pos' = pos /\ wtotal' = wtotal
        /\ \A u \in Pending \ {t} : tasks'[u].from = tasks[u].from /\ tasks'[u].to = tasks[u].to
    BY DEF Leaves, SameData
  <2>3. \A u \in Pending \ {t} : k <= tasks[u].from /\ tasks[u].from \in Nat /\ tasks[u].to \in Nat
    <3>1. \A u \in Pending \ {t} : t < u
      BY PendingType
    <3> QED BY <1>0, <3>1, PendingType DEF Cut
  <2>4. ASSUME NEW x \in Nat
        PROVE  (\E u \in Pending \ {t} : tasks[u].from < x /\ x <= tasks[u].to)
                  <=> x > k /\ \E u \in Pending : tasks[u].from < x /\ x <= tasks[u].to
    BY <1>0, <2>3
  <2>5. \A x \in Nat : pos < x => x > k
    BY <2>1
  <2>6. Outstanding' = {x \in Nat : \/ pos < x /\ x <= wtotal
                                    \/ \E u \in Pending \ {t} : tasks[u].from < x /\ x <= tasks[u].to}
    BY <2>2 DEF Outstanding
  <2> QED BY <1>1, <2>4, <2>5, <2>6 DEF Outstanding
<1>3. Lists(q, B) /\ Lists(r, {x \in B : x > k})
  BY <1>1, <1>2 DEF Listed
<1>4. \E n \in 0..Len(q) : r = SubSeq(q, n + 1, Len(q))
  BY <1>3, ListsAbove
<1> QED BY <1>1, <1>4

(* ... one that is lost takes its bytes out of the middle, ... *)
LEMMA BytesLost ==
    ASSUME IInv, Cut, Listed, Listed', UNCHANGED wtotal, NEW t \in Pending, Leaves(t)
    PROVE  \E m, n \in 0..Len(Queue) :
              m <= n /\ Queue' = SubSeq(Queue, 1, m) \o SubSeq(Queue, n + 1, Len(Queue))
<1>0. PICK a \in Nat, k \in Nat : a = tasks[t].from /\ k = tasks[t].to /\ a <= k /\ k <= pos
  BY PendingType DEF Cut
<1>1. PICK q, r, B : q = Queue /\ r = Queue' /\ B = Outstanding
  OBVIOUS
<1>2. Outstanding' = {x \in B : x <= a \/ x > k}
  <2>1. pos \in Nat /\ k <= pos /\ wtotal \in Nat
    BY <1>0 DEF IInv, TypeOK
  <2>2. /\ Pending' = Pending \ {t} /\ pos' = pos /\ wtotal' = wtotal
        /\ \A u \in Pending \ {t} : tasks'[u].from = tasks[u].from /\ tasks'[u].to = tasks[u].to
    BY DEF Leaves, SameData
  <2>3. \A u \in Pending \ {t} : /\ tasks[u].from \in Nat /\ tasks[u].to \in Nat
                                 /\ k <= tasks[u].from \/ tasks[u].to <= a
    <3>1. \A u \in Pending \ {t} : t < u \/ u < t
      BY PendingType
    <3> QED BY <1>0, <3>1, PendingType DEF Cut
  <2>4. ASSUME NEW x \in Nat
        PROVE  (\E u \in Pending \ {t} : tasks[u].from < x /\ x <= tasks[u].to)
                  <=> /\ x <= a \/ x > k
                      /\ \E u \in Pending : tasks[u].from < x /\ x <= tasks[u].to
    BY <1>0, <2>3
  <2>5. \A x \in Nat : pos < x => x > k
    BY <2>1
  <2>6. Outstanding' = {x \in Nat : \/ pos < x /\ x <= wtotal
                                    \/ \E u \in Pending \ {t} : tasks[u].from < x /\ x <= tasks[u].to}
    BY <2>2 DEF Outstanding
  <2> QED BY <1>1, <2>4, <2>5, <2>6 DEF Outstanding
<1>3. Lists(q, B) /\ Lists(r, {x \in B : x <= a \/ x > k})
  BY <1>1, <1>2 DEF Listed
<1>4. \E m, n \in 0..Len(q) : m <= n /\ r = SubSeq(q, 1, m) \o SubSeq(q, n + 1, Len(q))
  <2>1. a \in Nat /\ k \in Nat /\ a <= k
    BY <1>0
  <2> QED BY ONLY <1>3, <2>1, ListsGap
<1> QED BY <1>1, <1>4

(* ... and what a reset cancels or clears leaves the rest in order. *)
LEMMA BytesDropped ==
    ASSUME Listed, Listed', Outstanding' \subseteq Outstanding
    PROVE  /\ \A i, j \in DOMAIN Queue' : i < j => Queue'[i] < Queue'[j]
           /\ {Queue'[i] : i \in DOMAIN Queue'} \subseteq {Queue[i] : i \in DOMAIN Queue}
<1>1. PICK q, r, B, C : q = Queue /\ r = Queue' /\ B = Outstanding /\ C = Outstanding'
  OBVIOUS
<1>2. Lists(q, B) /\ Lists(r, C) /\ C \subseteq B
  BY <1>1 DEF Listed
<1>3. DOMAIN q = 1..Len(q) /\ DOMAIN r = 1..Len(r)
  BY <1>2, ListsFacts
<1>4. \A i, j \in DOMAIN r : i < j => r[i] < r[j]
  BY <1>2, <1>3 DEF Lists, Ascends
<1>5. {r[i] : i \in DOMAIN r} \subseteq {q[i] : i \in DOMAIN q}
  BY <1>2, <1>3 DEF Lists
<1> QED BY <1>1, <1>4, <1>5

(* The steps of the abstract specification, with its variables as the pipe *)
(* gives them.                                                             *)
LEMMA StreamActions ==
    /\ Stream!Init <=> Queue = <<>> /\ wtotal = 0 /\ failures = 0 /\ Resetting = FALSE
    /\ UNCHANGED Stream!vars <=> UNCHANGED <<Queue, wtotal, failures, Resetting>>
    /\ Stream!Send <=> /\ wtotal' > wtotal /\ Queue' = Queue \o Run(wtotal, wtotal')
                       /\ UNCHANGED <<failures, Resetting>>
    /\ Stream!Receive <=> /\ \E n \in 0..Len(Queue) : Queue' = SubSeq(Queue, n + 1, Len(Queue))
                          /\ UNCHANGED <<wtotal, failures, Resetting>>
    /\ Stream!Fail <=> /\ failures' = failures + 1 /\ wtotal' >= wtotal /\ UNCHANGED Resetting
                       /\ \E m, n \in 0..Len(Queue) : m <= n /\
                             Queue' = SubSeq(Queue, 1, m) \o SubSeq(Queue, n + 1, Len(Queue))
    /\ Stream!StartReset <=> ~Resetting /\ Resetting' = TRUE /\ UNCHANGED <<Queue, wtotal,
                                                                            failures>>
    /\ Stream!Drop <=> /\ Resetting /\ Resetting' \in BOOLEAN /\ UNCHANGED <<wtotal, failures>>
                       /\ \A i, j \in DOMAIN Queue' : i < j => Queue'[i] < Queue'[j]
                       /\ {Queue'[i] : i \in DOMAIN Queue'} \subseteq {Queue[i] : i \in DOMAIN Queue}
<1>1. Stream!Init <=> Queue = <<>> /\ wtotal = 0 /\ failures = 0 /\ Resetting = FALSE
  BY DEF Stream!Init, Queue
<1>2. UNCHANGED Stream!vars <=> UNCHANGED <<Queue, wtotal, failures, Resetting>>
  BY DEF Stream!vars, Queue
<1>3. Stream!Send <=> /\ wtotal' > wtotal /\ Queue' = Queue \o Run(wtotal, wtotal')
                      /\ UNCHANGED <<failures, Resetting>>
  BY DEF Stream!Send, Stream!Run, Queue, Run
<1>4. Stream!Receive <=> /\ \E n \in 0..Len(Queue) : Queue' = SubSeq(Queue, n + 1, Len(Queue))
                         /\ UNCHANGED <<wtotal, failures, Resetting>>
  BY DEF Stream!Receive, Stream!Suffix, Queue
<1>5. Stream!Fail <=> /\ failures' = failures + 1 /\ wtotal' >= wtotal /\ UNCHANGED Resetting
                      /\ \E m, n \in 0..Len(Queue) : m <= n /\
                            Queue' = SubSeq(Queue, 1, m) \o SubSeq(Queue, n + 1, Len(Queue))
  BY DEF Stream!Fail, Stream!Gap, Queue
<1>6. Stream!StartReset <=> ~Resetting /\ Resetting' = TRUE /\ UNCHANGED <<Queue, wtotal, failures>>
  BY DEF Stream!StartReset, Queue
<1>7. Stream!Drop <=> /\ Resetting /\ Resetting' \in BOOLEAN /\ UNCHANGED <<wtotal, failures>>
                      /\ \A i, j \in DOMAIN Queue' : i < j => Queue'[i] < Queue'[j]
                      /\ {Queue'[i] : i \in DOMAIN Queue'} \subseteq {Queue[i] : i \in DOMAIN Queue}
  BY DEF Stream!Drop, Stream!Ascending, Stream!Range, Queue
<1> QED BY <1>1, <1>2, <1>3, <1>4, <1>5, <1>6, <1>7

LEMMA QuietStream ==
    ASSUME IInv, Quiet
    PROVE  /\ UNCHANGED failures /\ (Resetting' <=> Resetting)
           /\ UNCHANGED wtotal \/ (wtotal' \in Nat /\ wtotal < wtotal')
<1>1. Resetting' <=> Resetting
  BY QuietSteps DEF Resetting
<1>2. ASSUME NEW c \in Callers, SendWrite(c)
      PROVE  UNCHANGED failures /\ (UNCHANGED wtotal \/ (wtotal' \in Nat /\ wtotal < wtotal'))
  <2>1. arg[c] \in Nat /\ 0 < arg[c] /\ wtotal \in Nat
    BY <1>2, OutPipeAssumption DEF SendWrite, IInv, TypeOK, ArgFits
  <2>2. UNCHANGED failures /\ wtotal' \in {wtotal, wtotal + arg[c]}
    BY <1>2 DEF SendWrite, usbVars
  <2> QED BY <2>1, <2>2
<1>3. ASSUME NEW c \in Callers,
             \/ CallerWakes(c) /\ UNCHANGED <<outside, arg, mark>>
             \/ Resume(c) /\ UNCHANGED restVars
             \/ Yields(c) \/ CallSend(c) \/ SendWait(c) \/ SendReturn(c)
             \/ CallFlush(c) \/ FlushWait(c) \/ FlushDrain(c) \/ FlushReturn(c)
      PROVE  UNCHANGED <<failures, wtotal>>
  BY <1>3 DEF Yields, CallSend, SendWait, SendReturn, CallFlush, FlushWait, FlushDrain, FlushReturn,
              outside, pipeVars, usbVars, restVars
<1>4. CASE (TaskCallback \/ LateCompleted) /\ UNCHANGED <<tasks, urbs, restVars>>
  BY <1>1, <1>4 DEF restVars
<1>5. CASE UNCHANGED vars
  BY <1>1, <1>5 DEF vars, outside, pipeVars, usbVars
<1>6. UNCHANGED failures /\ (UNCHANGED wtotal \/ (wtotal' \in Nat /\ wtotal < wtotal'))
  BY <1>2, <1>3, <1>4, <1>5 DEF Quiet
<1> QED BY <1>1, <1>6

(* Nothing happens to the abstract specification. *)
LEMMA StreamStutters ==
    ASSUME IInv, Cut, Listed, Listed', Stays \/ (\E n, b : Grows(n, b)),
           UNCHANGED <<wtotal, failures>>, Resetting' <=> Resetting
    PROVE  UNCHANGED Stream!vars
<1>1. Queue' = Queue
  BY BytesMove
<1>2. Resetting' = Resetting
  BY DEF Resetting
<1> QED BY <1>1, <1>2, StreamActions

(* What a reset takes away. *)
LEMMA StreamDrops ==
    ASSUME Listed, Listed', Outstanding' \subseteq Outstanding, Resetting, UNCHANGED <<wtotal,
                                                                                       failures>>
    PROVE  Stream!Drop
<1>1. Resetting' \in BOOLEAN
  BY DEF Resetting
<1> QED BY <1>1, BytesDropped, StreamActions

LEMMA LeavesFewer ==
    ASSUME NEW t, Leaves(t), UNCHANGED wtotal
    PROVE  Outstanding' \subseteq Outstanding
  BY DEF Leaves, SameData, Outstanding

LEMMA StreamFails ==
    ASSUME IInv, Cut, Listed, Listed', NEW t \in Pending, Leaves(t), UNCHANGED <<pc, wtotal>>,
           failures' = failures + 1
    PROVE  Stream!Fail
<1>1. Resetting' = Resetting
  BY DEF Resetting
<1>2. wtotal' >= wtotal
  <2>1. wtotal \in Nat
    BY DEF IInv, TypeOK
  <2> QED BY <2>1
<1>3. \E m, n \in 0..Len(Queue) :
         m <= n /\ Queue' = SubSeq(Queue, 1, m) \o SubSeq(Queue, n + 1, Len(Queue))
  BY BytesLost
<1> QED BY <1>1, <1>2, <1>3, StreamActions

LEMMA StreamStep ==
    IInv /\ CallersFit /\ UrbsInv /\ ResetInv /\ OrderInv /\ StreamInv /\ Listed /\ Listed' /\ [Next]_vars
        => [Stream!Next]_(Stream!vars)
<1> SUFFICES ASSUME IInv, CallersFit, UrbsInv, ResetInv, OrderInv, UrbsOrdered, Cut, Listed, Listed',
                    [Next]_vars
             PROVE  Stream!Next \/ UNCHANGED Stream!vars
  BY DEF StreamInv
<1>1. CASE Quiet
  <2>1. UNCHANGED failures /\ (Resetting' <=> Resetting) /\ Stays
    BY <1>1, QuietStream, StreamQuiet
  <2>2. CASE UNCHANGED wtotal
    BY <2>1, <2>2, StreamStutters
  <2>3. CASE wtotal' \in Nat /\ wtotal < wtotal'
    <3>1. Queue' = Queue \o Run(wtotal, wtotal')
      BY <2>1, <2>3, BytesSent
    <3>2. wtotal' > wtotal /\ Resetting' = Resetting
      BY <2>1, <2>3 DEF Resetting, IInv, TypeOK
    <3>3. Stream!Send
      BY <2>1, <3>1, <3>2, StreamActions
    <3> QED BY <3>3 DEF Stream!Next
  <2> QED BY <1>1, <2>2, <2>3, QuietStream
<1>2. ASSUME NEW c \in Callers, SendSubmit(c) \/ FlushSubmit(c) PROVE UNCHANGED Stream!vars
  <2>1. /\ UNCHANGED wtotal /\ pc[c] \in {"submit", "flush"} /\ pc'[c] # "cancel"
        /\ \A d \in Callers : d # c => pc'[d] = pc[d]
    BY <1>2, CallerSubmits
  <2>2. Resetting' <=> Resetting
    BY <2>1 DEF Resetting
  <2>3. UNCHANGED failures
    BY <1>2 DEF SendSubmit, FlushSubmit, usbVars
  <2> QED BY <1>2, <2>1, <2>2, <2>3, StreamCallers, StreamStutters
<1>3. ASSUME NEW c \in Callers, CallReset(c) PROVE Stream!Next
  <2>1. Queue' = Queue
    <3>1. UNCHANGED wtotal
      BY <1>3 DEF CallReset
    <3> QED BY <1>3, <3>1, StreamReset, BytesMove
  <2>2. ~Resetting
    BY <1>3 DEF CallReset, CancelQueue, Calls, Resetting
  <2>3. Resetting' = TRUE
    <3>1. pc'[c] = "cancel"
      BY <1>3 DEF CallReset, CancelQueue, Calls, IInv, TypeOK
    <3> QED BY <3>1 DEF Resetting
  <2>4. UNCHANGED <<wtotal, failures>>
    BY <1>3 DEF CallReset
  <2>5. Stream!StartReset
    BY <2>1, <2>2, <2>3, <2>4, StreamActions
  <2> QED BY <2>5 DEF Stream!Next
<1>4. ASSUME NEW c \in Callers, EndCancel(c) PROVE Stream!Next
  <2>1. /\ Pending = {} /\ Pending' = {} /\ pc[c] = "cancel" /\ (pos' = pos \/ pos' = wtotal)
        /\ UNCHANGED <<wtotal, failures>>
    BY <1>4, StreamEnd
  <2>2. Resetting
    BY <2>1 DEF Resetting
  <2>3. Outstanding' \subseteq Outstanding
    <3>1. wtotal \in Nat
      BY DEF IInv, TypeOK
    <3> QED BY <2>1, <3>1 DEF Outstanding
  <2> QED BY <2>1, <2>2, <2>3, StreamDrops DEF Stream!Next
<1>5. CASE TaskStart
  <2>1. /\ UNCHANGED <<wtotal, failures>> /\ (Resetting' <=> Resetting)
        /\ Stays \/ (Resetting /\ \E t \in Pending : Leaves(t))
    <3>1. UNCHANGED pc
      BY <1>5 DEF TaskStart
    <3> QED BY <1>5, <3>1, StreamTaskStart DEF Resetting
  <2>2. CASE Stays
    BY <2>1, <2>2, StreamStutters
  <2>3. CASE Resetting /\ \E t \in Pending : Leaves(t)
    BY <2>1, <2>3, LeavesFewer, StreamDrops DEF Stream!Next
  <2> QED BY <2>1, <2>2, <2>3
<1>6. CASE TaskWake
  <2>1. UNCHANGED <<pc, wtotal, failures>>
    BY <1>6 DEF TaskWake, usbVars
  <2>2. Resetting' <=> Resetting
    BY <2>1 DEF Resetting
  <2> QED BY <1>6, <2>1, <2>2, StreamTaskWake, StreamStutters
<1>7. CASE UsbStep
  <2>1. PICK t \in Pending :
           /\ Leaves(t) /\ UNCHANGED <<pc, wtotal>>
           /\ \/ Resetting /\ UNCHANGED failures
              \/ (\A u \in Pending : t <= u) /\ failures' \in {failures, failures + 1}
    BY <1>7, StreamUsb
  <2>2. CASE Resetting /\ UNCHANGED failures
    BY <2>1, <2>2, LeavesFewer, StreamDrops DEF Stream!Next
  <2>3. CASE (\A u \in Pending : t <= u) /\ failures' \in {failures, failures + 1}
    <3>1. \E n \in 0..Len(Queue) : Queue' = SubSeq(Queue, n + 1, Len(Queue))
      BY <2>1, <2>3, BytesTaken
    <3>2. Resetting' = Resetting
      BY <2>1 DEF Resetting
    <3>3. CASE failures' = failures
      BY <2>1, <3>1, <3>2, <3>3, StreamActions DEF Stream!Next
    <3>4. CASE failures' = failures + 1
      BY <2>1, <3>4, StreamFails DEF Stream!Next
    <3> QED BY <2>3, <3>3, <3>4
  <2> QED BY <2>1, <2>2, <2>3
<1>8. CASE TransferCallback /\ UNCHANGED restVars
  <2>1. UNCHANGED <<pc, wtotal, failures>>
    BY <1>8 DEF TransferCallback, restVars
  <2>2. Resetting' <=> Resetting
    BY <2>1 DEF Resetting
  <2> QED BY <1>8, <2>1, <2>2, StreamTransfer, StreamStutters
<1>9. CASE TaskRefused
  <2>1. UNCHANGED <<pc, wtotal>> /\ failures' = failures + 1
    BY <1>9 DEF TaskRefused
  <2> QED BY <1>9, <2>1, StreamRefused, StreamFails DEF Stream!Next
<1> QED BY <1>1, <1>2, <1>3, <1>4, <1>5, <1>6, <1>7, <1>8, <1>9, StepKinds

(* The refinement: whatever callers, tasks, cancellations and the host     *)
(* controller do, the pipe is a stream of bytes that reach the device in   *)
(* order and once, and only a reset loses any, or a transfer that fails    *)
(* or cannot be submitted.                                                 *)
THEOREM OutPipeIsStream == Spec => IsByteStream
<1>1. ASSUME Init PROVE Stream!Init
  <2>1. TaskIds = {} /\ urbs = <<>> /\ DOMAIN urbs = {} /\ pos = 0 /\ wtotal = 0 /\ failures = 0
    BY <1>1 DEF Init, TaskIds
  <2>2. Pending = {} /\ \A c \in Callers : pc[c] # "cancel"
    BY <1>1, <2>1 DEF Pending, Init
  <2>3. Outstanding = {}
    BY <2>1, <2>2 DEF Outstanding
  <2>4. Listed
    <3>1. StreamInv
      BY <2>1, <2>2 DEF StreamInv, UrbsOrdered, Cut
    <3>2. IInv
      BY <1>1, InitOK
    <3> QED BY <3>1, <3>2, StreamListed
  <2>5. Queue = <<>>
    BY <2>3, <2>4, ListsNothing DEF Listed
  <2>6. Resetting = FALSE
    BY <2>2 DEF Resetting
  <2> QED BY <2>1, <2>5, <2>6, StreamActions
<1>2. Init => Stream!Init
  BY <1>1
<1>3. IInv /\ StreamInv => Listed
  BY StreamListed
<1> QED BY <1>2, <1>3, StreamStep, Inductive, CallersAlways, UrbsAlways, ResetAlways, OrderAlways,
           StreamAlways, PTL DEF Spec, IsByteStream, Stream!Spec

================================================================================
