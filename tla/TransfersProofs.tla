---------------------------- MODULE TransfersProofs ----------------------------
(***************************************************************************)
(* What the proofs about both pipes rest on: the tasks of a pipe, their    *)
(* transfers and the handles that the event loop has scheduled for them.   *)
(*                                                                         *)
(* TransfersInv says what each scheduled handle may find when it runs, and *)
(* that it is scheduled once: this is what keeps the tasks and the host    *)
(* controller in step.  CallersFit says which callers may be resumed, and  *)
(* ResetInv what cancel() waits for.  Each operator of Transfers and of    *)
(* TaskQueue has a lemma that it keeps them.                               *)
(***************************************************************************)
EXTENDS Transfers, Totals, SequenceTheorems

TaskKinds == {"start", "usb", "wake", "callback"}

(* What the handle of a task finds in the task when it runs. *)
KindFits(kind, task) ==
    /\ kind = "start" => task.state = "created"
    /\ kind = "usb" => /\ task.state \in {"inflight", "cancelled", "cancelling", "over"}
                       /\ task.state # "over" => task.urb \in {"ok", "error", "cancelled"}
    /\ kind = "wake" => task.state \in {"notified", "completed", "cancelled", "retired"}
    /\ kind = "callback" => task.state = "over"

HandleFits(h, ts) == h.kind \in TaskKinds => h.task \in DOMAIN ts /\ KindFits(h.kind, ts[h.task])

Once(q) ==
    \A i, j \in DOMAIN q :
        i # j /\ q[i].kind = q[j].kind /\ q[i].kind \in TaskKinds => q[i].task # q[j].task

Absent(q, kind, t) == \A i \in DOMAIN q : ~(q[i].kind = kind /\ q[i].task = t)

(* A queue of handles that fits the tasks ts. *)
QueueOK(q, ts) == q \in Seq(Handles) /\ (\A i \in DOMAIN q : HandleFits(q[i], ts)) /\ Once(q)

(* How far a task is, and how far its transfer. *)
TaskFits(task) ==
    /\ task.state \in {"created", "waiting", "notified", "over"} => task.urb = "none"
    /\ task.state = "inflight" => task.urb \in {"submitted", "ok", "error"}
    /\ task.state = "completed" => task.urb \in {"ok", "error"}
    /\ task.state = "cancelling" => task.urb \in {"submitted", "cancelled"}
    /\ task.state = "retired" => task.urb = "cancelled"
    /\ task.outcome = "none" <=> task.state # "over"

UrbsFit ==
    /\ \A i \in DOMAIN urbs : tasks[urbs[i]].urb = "submitted"
    /\ \A i, j \in DOMAIN urbs : i # j => urbs[i] # urbs[j]

TransfersType ==
    /\ running \in Callers \cup {NoCaller}
    /\ live \subseteq TaskIds /\ done \in Seq(TaskIds)
    /\ waitFor \in [Callers -> SUBSET (TaskIds \cup {Late})]
    /\ tasks \in Seq(TaskRecords)
    /\ urbs \in Seq(TaskIds)

TransfersInv ==
    /\ TransfersType
    /\ QueueOK(ready, tasks)
    /\ \A t \in TaskIds : TaskFits(tasks[t])
    /\ UrbsFit

--------------------------------------------------------------------------------
(* Numbers and sequences *)

LEMMA FunctionIsSeq ==
    ASSUME NEW S, NEW n \in Nat, NEW f \in [1..n -> S]
    PROVE  f \in Seq(S) /\ Len(f) = n /\ DOMAIN f = 1..n
<1>1. f \in Seq(S) /\ DOMAIN f = 1..n
  BY SeqDef
<1>2. Len(f) \in Nat /\ DOMAIN f = 1..Len(f)
  BY <1>1, LenProperties
<1>3. Len(f) = n
  <2> SUFFICES ASSUME NEW m \in Nat, m = Len(f), 1..m = 1..n PROVE m = n
    BY <1>1, <1>2
  <2>1. m \in 1..m \/ m = 0
    OBVIOUS
  <2>2. n \in 1..n \/ n = 0
    OBVIOUS
  <2> QED BY <2>1, <2>2
<1> QED BY <1>1, <1>3

(* The elements of the sequences that a queue becomes. *)
LEMMA AppendParts ==
    ASSUME NEW S, NEW q \in Seq(S), NEW e \in S
    PROVE  /\ Append(q, e) \in Seq(S) /\ Len(Append(q, e)) = Len(q) + 1 /\ Len(q) \in Nat
           /\ DOMAIN q = 1..Len(q) /\ DOMAIN Append(q, e) = 1..(Len(q) + 1)
           /\ \A i \in DOMAIN q : Append(q, e)[i] = q[i] /\ q[i] \in S
           /\ Append(q, e)[Len(q) + 1] = e
           /\ DOMAIN Append(q, e) = DOMAIN q \cup {Len(q) + 1} /\ Len(q) + 1 \notin DOMAIN q
<1>1. /\ Append(q, e) \in Seq(S) /\ Len(Append(q, e)) = Len(q) + 1
      /\ \A i \in 1..Len(q) : Append(q, e)[i] = q[i]
      /\ Append(q, e)[Len(q) + 1] = e
  BY AppendProperties
<1>2. DOMAIN q = 1..Len(q) /\ DOMAIN Append(q, e) = 1..(Len(q) + 1) /\ Len(q) \in Nat
  BY <1>1, LenProperties
<1> QED BY <1>1, <1>2, ElementOfSeq

LEMMA TailParts ==
    ASSUME NEW S, NEW q \in Seq(S), q # <<>>
    PROVE  /\ Head(q) \in S /\ Head(q) = q[1] /\ Tail(q) \in Seq(S) /\ Len(Tail(q)) = Len(q) - 1
           /\ Len(q) \in Nat /\ Len(q) >= 1 /\ 1 \in DOMAIN q
           /\ DOMAIN q = 1..Len(q) /\ DOMAIN Tail(q) = 1..(Len(q) - 1)
           /\ \A i \in DOMAIN Tail(q) : /\ i \in Nat /\ i + 1 \in DOMAIN q /\ i + 1 # 1
                                        /\ Tail(q)[i] = q[i + 1]
           /\ \A i \in DOMAIN q : i # 1 => i - 1 \in DOMAIN Tail(q) /\ Tail(q)[i - 1] = q[i]
<1>1. /\ Head(q) \in S /\ Tail(q) \in Seq(S) /\ Len(Tail(q)) = Len(q) - 1
      /\ \A i \in 1..Len(Tail(q)) : Tail(q)[i] = q[i + 1]
  BY HeadTailProperties
<1>2. DOMAIN q = 1..Len(q) /\ DOMAIN Tail(q) = 1..Len(Tail(q)) /\ Len(q) \in Nat /\ Len(q) >= 1
  BY <1>1, LenProperties, EmptySeq
<1>3. Head(q) = q[1]
  BY <1>2
<1>4. ASSUME NEW i \in DOMAIN q, i # 1
      PROVE  i - 1 \in DOMAIN Tail(q) /\ Tail(q)[i - 1] = q[i]
  BY <1>1, <1>2, <1>4
<1> QED BY <1>1, <1>2, <1>3, <1>4

LEMMA ConcatParts ==
    ASSUME NEW S, NEW q \in Seq(S), NEW w \in Seq(S)
    PROVE  /\ q \o w \in Seq(S) /\ Len(q \o w) = Len(q) + Len(w)
           /\ Len(q) \in Nat /\ Len(w) \in Nat
           /\ DOMAIN q = 1..Len(q) /\ DOMAIN w = 1..Len(w)
           /\ DOMAIN (q \o w) = 1..(Len(q) + Len(w))
           /\ \A i \in DOMAIN (q \o w) :
                 \/ i \in DOMAIN q /\ (q \o w)[i] = q[i]
                 \/ /\ i \notin DOMAIN q /\ i - Len(q) \in DOMAIN w
                    /\ (q \o w)[i] = w[i - Len(q)]
           /\ \A i \in DOMAIN q : i \in DOMAIN (q \o w) /\ (q \o w)[i] = q[i]
           /\ \A i \in DOMAIN w : /\ Len(q) + i \in DOMAIN (q \o w)
                                  /\ (q \o w)[Len(q) + i] = w[i]
<1> SUFFICES ASSUME NEW s, s = q \o w, NEW m, m = Len(q), NEW n, n = Len(w)
    PROVE  /\ s \in Seq(S) /\ Len(s) = m + n /\ m \in Nat /\ n \in Nat
           /\ DOMAIN q = 1..m /\ DOMAIN w = 1..n /\ DOMAIN s = 1..(m + n)
           /\ \A i \in DOMAIN s : \/ i \in DOMAIN q /\ s[i] = q[i]
                                  \/ i \notin DOMAIN q /\ i - m \in DOMAIN w /\ s[i] = w[i - m]
           /\ \A i \in DOMAIN q : i \in DOMAIN s /\ s[i] = q[i]
           /\ \A i \in DOMAIN w : m + i \in DOMAIN s /\ s[m + i] = w[i]
  OBVIOUS
<1>1. /\ s \in Seq(S) /\ Len(s) = m + n
      /\ \A i \in 1..(m + n) : s[i] = IF i <= m THEN q[i] ELSE w[i - m]
  BY ConcatProperties
<1>2. DOMAIN q = 1..m /\ DOMAIN w = 1..n /\ DOMAIN s = 1..(m + n) /\ m \in Nat /\ n \in Nat
  BY <1>1, LenProperties
<1>3. ASSUME NEW i \in 1..(m + n)
      PROVE  \/ i \in 1..m /\ s[i] = q[i]
             \/ i \notin 1..m /\ i - m \in 1..n /\ s[i] = w[i - m]
  BY <1>1, <1>2, <1>3
<1>4. ASSUME NEW i \in 1..n PROVE m + i \in 1..(m + n) /\ s[m + i] = w[i]
  <2>1. m + i \in 1..(m + n) /\ ~(m + i <= m) /\ (m + i) - m = i
    BY <1>2, <1>4
  <2> QED BY <1>1, <2>1
<1>5. \A i \in 1..m : i \in 1..(m + n) /\ s[i] = q[i]
  BY <1>1, <1>2
<1> QED BY <1>1, <1>2, <1>3, <1>4, <1>5

(* Two elements at the end of a queue. *)
LEMMA AppendTwo ==
    ASSUME NEW S, NEW q \in Seq(S), NEW e \in S, NEW f \in S
    PROVE  q \o <<e, f>> = Append(Append(q, e), f)
<1>1. <<e>> \in Seq(S) /\ <<f>> \in Seq(S) /\ <<e, f>> = <<e>> \o <<f>>
  <2>1. /\ <<e>> \in Seq(S) /\ <<f>> \in Seq(S) /\ <<e, f>> \in Seq(S)
        /\ Len(<<e>>) = 1 /\ Len(<<f>>) = 1 /\ Len(<<e, f>>) = 2
        /\ <<e>>[1] = e /\ <<f>>[1] = f /\ <<e, f>>[1] = e /\ <<e, f>>[2] = f
    OBVIOUS
  <2>2. <<e, f>> = Append(<<e>>, f)
    OBVIOUS
  <2> QED BY <2>1, <2>2, AppendIsConcat
<1>2. Append(q, e) \in Seq(S)
  BY AppendProperties
<1>3. q \o <<e, f>> = (q \o <<e>>) \o <<f>>
  BY <1>1, ConcatAssociative
<1>4. q \o <<e>> = Append(q, e) /\ Append(q, e) \o <<f>> = Append(Append(q, e), f)
  BY <1>2, AppendIsConcat
<1> QED BY <1>3, <1>4

--------------------------------------------------------------------------------
(* The queue of handles *)

(* A handle may be scheduled if it fits its task and is not scheduled yet. *)
LEMMA QueueAppend ==
    ASSUME NEW q, NEW ts, QueueOK(q, ts), NEW h \in Handles, HandleFits(h, ts),
           h.kind \in TaskKinds => Absent(q, h.kind, h.task)
    PROVE  QueueOK(Append(q, h), ts)
<1>1. q \in Seq(Handles)
  BY DEF QueueOK
<1>2. /\ Append(q, h) \in Seq(Handles) /\ DOMAIN Append(q, h) = DOMAIN q \cup {Len(q) + 1}
      /\ \A i \in DOMAIN q : Append(q, h)[i] = q[i]
      /\ Append(q, h)[Len(q) + 1] = h
  BY <1>1, AppendParts
<1>3. Once(Append(q, h))
  BY <1>2 DEF Once, Absent, QueueOK
<1> QED BY <1>2, <1>3 DEF QueueOK

LEMMA QueueConcat ==
    ASSUME NEW q, NEW w, NEW ts, QueueOK(q, ts), QueueOK(w, ts),
           \A i \in DOMAIN w : w[i].kind \in TaskKinds => Absent(q, w[i].kind, w[i].task)
    PROVE  QueueOK(q \o w, ts)
<1> SUFFICES ASSUME NEW s, s = q \o w, NEW m, m = Len(q) PROVE QueueOK(s, ts)
  OBVIOUS
<1>1. q \in Seq(Handles) /\ w \in Seq(Handles)
  BY DEF QueueOK
<1>2. /\ s \in Seq(Handles) /\ m \in Nat
      /\ DOMAIN q = 1..m /\ DOMAIN w = 1..Len(w) /\ DOMAIN s = 1..(m + Len(w)) /\ Len(w) \in Nat
      /\ \A i \in DOMAIN s : \/ i \in DOMAIN q /\ s[i] = q[i]
                             \/ i \notin DOMAIN q /\ i - m \in DOMAIN w /\ s[i] = w[i - m]
  BY <1>1, ConcatParts
<1>3. \A i \in DOMAIN s : HandleFits(s[i], ts)
  BY <1>2 DEF QueueOK
<1>4. ASSUME NEW i \in DOMAIN s, NEW j \in DOMAIN s, i # j, s[i].kind = s[j].kind,
             s[i].kind \in TaskKinds
      PROVE  s[i].task # s[j].task
  <2>0. Once(q) /\ Once(w)
    BY DEF QueueOK
  <2>1. CASE i \in DOMAIN q /\ j \in DOMAIN q
    <3>1. s[i] = q[i] /\ s[j] = q[j]
      BY <1>2, <2>1
    <3> QED BY <1>4, <2>0, <2>1, <3>1 DEF Once
  <2>2. CASE i \in DOMAIN q /\ j \notin DOMAIN q
    <3>1. s[i] = q[i] /\ j - m \in DOMAIN w /\ s[j] = w[j - m]
      BY <1>2, <2>2
    <3> QED BY <1>4, <2>2, <3>1 DEF Absent
  <2>3. CASE i \notin DOMAIN q /\ j \in DOMAIN q
    <3>1. s[j] = q[j] /\ i - m \in DOMAIN w /\ s[i] = w[i - m]
      BY <1>2, <2>3
    <3> QED BY <1>4, <2>3, <3>1 DEF Absent
  <2>4. CASE i \notin DOMAIN q /\ j \notin DOMAIN q
    <3>1. /\ i - m \in DOMAIN w /\ s[i] = w[i - m] /\ j - m \in DOMAIN w /\ s[j] = w[j - m]
          /\ i - m # j - m
      BY <1>2, <1>4, <2>4
    <3> QED BY <1>4, <2>0, <3>1 DEF Once
  <2> QED BY <2>1, <2>2, <2>3, <2>4
<1>5. Once(s)
  BY <1>4 DEF Once
<1> QED BY <1>2, <1>3, <1>5 DEF QueueOK

(* The oldest handle runs. *)
LEMMA QueueTail ==
    ASSUME NEW q, NEW ts, QueueOK(q, ts), q # <<>>
    PROVE  /\ Head(q) \in Handles /\ HandleFits(Head(q), ts) /\ QueueOK(Tail(q), ts)
           /\ Head(q).kind \in TaskKinds => Absent(Tail(q), Head(q).kind, Head(q).task)
           /\ \A kind, t : Absent(q, kind, t) => Absent(Tail(q), kind, t)
<1>1. q \in Seq(Handles)
  BY DEF QueueOK
<1>2. /\ Head(q) \in Handles /\ Head(q) = q[1] /\ Tail(q) \in Seq(Handles) /\ 1 \in DOMAIN q
      /\ \A i \in DOMAIN Tail(q) : /\ i \in Nat /\ i + 1 \in DOMAIN q /\ i + 1 # 1
                                   /\ Tail(q)[i] = q[i + 1]
  BY <1>1, TailParts
<1>3. \A i, j \in DOMAIN Tail(q) : i # j => i + 1 # j + 1
  BY <1>2
<1>4. Once(Tail(q))
  BY <1>2, <1>3 DEF Once, QueueOK
<1>5. Head(q).kind \in TaskKinds => Absent(Tail(q), Head(q).kind, Head(q).task)
  BY <1>2 DEF Once, Absent, QueueOK
<1>6. \A kind, t : Absent(q, kind, t) => Absent(Tail(q), kind, t)
  BY <1>2 DEF Absent
<1> QED BY <1>2, <1>4, <1>5, <1>6 DEF QueueOK

(* A handle of no task is put back in front. *)
LEMMA QueueCons ==
    ASSUME NEW q, NEW ts, QueueOK(q, ts), NEW h \in Handles, h.kind \notin TaskKinds
    PROVE  QueueOK(<<h>> \o q, ts)
<1>1. <<h>> \in Seq(Handles) /\ DOMAIN <<h>> = {1} /\ <<h>>[1] = h
  OBVIOUS
<1>2. QueueOK(<<h>>, ts)
  BY <1>1 DEF QueueOK, Once, HandleFits
<1>3. \A i \in DOMAIN q : q[i].kind \in TaskKinds => Absent(<<h>>, q[i].kind, q[i].task)
  BY <1>1 DEF Absent
<1> QED BY <1>2, <1>3, QueueConcat

(* What the state of a task says about the handles that mention it. *)
LEMMA AbsentHandles ==
    ASSUME NEW q, NEW ts, QueueOK(q, ts), NEW t
    PROVE  /\ t \notin DOMAIN ts => \A kind \in TaskKinds : Absent(q, kind, t)
           /\ ts[t].state # "created" => Absent(q, "start", t)
           /\ \/ ts[t].state \notin {"inflight", "cancelled", "cancelling", "over"}
              \/ ts[t].state # "over" /\ ts[t].urb \in {"none", "submitted"}
              => Absent(q, "usb", t)
           /\ ts[t].state \notin {"notified", "completed", "cancelled", "retired"}
              => Absent(q, "wake", t)
           /\ ts[t].state # "over" => Absent(q, "callback", t)
<1>1. \A i \in DOMAIN q : q[i].kind \in TaskKinds =>
         q[i].task \in DOMAIN ts /\ KindFits(q[i].kind, ts[q[i].task])
  BY DEF QueueOK, HandleFits
<1>2. \A kind \in TaskKinds : ~Absent(q, kind, t) => t \in DOMAIN ts /\ KindFits(kind, ts[t])
  BY <1>1 DEF Absent
<1> QED BY <1>2 DEF KindFits, TaskKinds

(* A task moves on, and the handles that mention it still fit. *)
LEMMA TaskMoves ==
    ASSUME NEW ts \in Seq(TaskRecords), NEW t \in DOMAIN ts, NEW new, NEW q, QueueOK(q, ts),
           \A kind \in TaskKinds : Absent(q, kind, t) \/ KindFits(kind, new)
    PROVE  QueueOK(q, [ts EXCEPT ![t] = new])
<1> DEFINE us == [ts EXCEPT ![t] = new]
<1>1. /\ DOMAIN us = DOMAIN ts /\ us[t] = new
      /\ \A u \in DOMAIN ts : u # t => us[u] = ts[u]
  BY LenProperties
<1> HIDE DEF us
<1>2. ASSUME NEW i \in DOMAIN q PROVE HandleFits(q[i], us)
  <2>1. HandleFits(q[i], ts)
    BY DEF QueueOK
  <2>2. CASE q[i].task # t
    BY <1>1, <2>1, <2>2 DEF HandleFits
  <2>3. CASE q[i].task = t
    BY <1>1, <2>1, <2>3 DEF HandleFits, Absent
  <2> QED BY <2>2, <2>3
<1> QED BY <1>2 DEF QueueOK, us

(* Tasks are added, and the handles of the others still fit. *)
LEMMA TasksAdded ==
    ASSUME NEW ts, NEW us, NEW q, QueueOK(q, ts), DOMAIN ts \subseteq DOMAIN us,
           \A u \in DOMAIN ts : us[u] = ts[u]
    PROVE  QueueOK(q, us)
  BY DEF QueueOK, HandleFits

LEMMA HandlesFit ==
    ASSUME NEW t \in Nat, NEW ts, t \in DOMAIN ts
    PROVE  /\ StartHandle(t) \in Handles /\ StartHandle(t).kind = "start"
           /\ WakeHandle(t) \in Handles /\ WakeHandle(t).kind = "wake"
           /\ CallbackHandle(t) \in Handles /\ CallbackHandle(t).kind = "callback"
           /\ Handle("usb", t, {}) \in Handles /\ Handle("usb", t, {}).kind = "usb"
           /\ StartHandle(t).task = t /\ WakeHandle(t).task = t
           /\ CallbackHandle(t).task = t /\ Handle("usb", t, {}).task = t
           /\ KindFits("start", ts[t]) => HandleFits(StartHandle(t), ts)
           /\ KindFits("wake", ts[t]) => HandleFits(WakeHandle(t), ts)
           /\ KindFits("callback", ts[t]) => HandleFits(CallbackHandle(t), ts)
           /\ KindFits("usb", ts[t]) => HandleFits(Handle("usb", t, {}), ts)
  BY DEF StartHandle, WakeHandle, CallbackHandle, Handle, Handles, Kinds, HandleFits

(* The handles of no task. *)
LEMMA CallerHandles ==
    ASSUME NEW who \in SUBSET Callers
    PROVE  \A kind \in {"resume", "completed"} :
              /\ Handle(kind, 0, who) \in Handles /\ Handle(kind, 0, who).kind = kind
              /\ Handle(kind, 0, who).who = who
              /\ Handle(kind, 0, who).kind \notin TaskKinds
              /\ \A ts : HandleFits(Handle(kind, 0, who), ts)
  BY DEF Handle, Handles, Kinds, HandleFits, TaskKinds

--------------------------------------------------------------------------------
(* Steps that leave the tasks and their transfers alone *)

LEMMA TypeFacts ==
    ASSUME TransfersInv
    PROVE  /\ tasks \in Seq(TaskRecords) /\ Len(tasks) \in Nat
           /\ DOMAIN tasks = TaskIds /\ TaskIds = 1..Len(tasks) /\ TaskIds \subseteq Nat
           /\ \A t \in TaskIds : tasks[t] \in TaskRecords /\ TaskFits(tasks[t]) /\ t # Late
           /\ ready \in Seq(Handles) /\ QueueOK(ready, tasks)
           /\ urbs \in Seq(TaskIds) /\ DOMAIN urbs = 1..Len(urbs) /\ Len(urbs) \in Nat
           /\ \A i \in DOMAIN urbs : urbs[i] \in TaskIds /\ tasks[urbs[i]].urb = "submitted"
           /\ NoCaller \notin Callers
<1>1. tasks \in Seq(TaskRecords) /\ urbs \in Seq(TaskIds)
  BY DEF TransfersInv, TransfersType
<1>2. Len(tasks) \in Nat /\ DOMAIN tasks = TaskIds /\ TaskIds = 1..Len(tasks)
  BY <1>1, LenProperties DEF TaskIds
<1>3. \A t \in TaskIds : tasks[t] \in TaskRecords /\ t # Late
  BY <1>1, <1>2, ElementOfSeq DEF Late
<1>4. DOMAIN urbs = 1..Len(urbs) /\ Len(urbs) \in Nat /\ \A i \in DOMAIN urbs : urbs[i] \in TaskIds
  BY <1>1, LenProperties, ElementOfSeq
<1> QED BY <1>1, <1>2, <1>3, <1>4, CallersAssumption DEF TransfersInv, QueueOK, UrbsFit

LEMMA TasksKept ==
    ASSUME TransfersInv, UNCHANGED <<tasks, urbs>>,
           running' \in Callers \cup {NoCaller}, live' \subseteq TaskIds, done' \in Seq(TaskIds),
           waitFor' \in [Callers -> SUBSET (TaskIds \cup {Late})],
           QueueOK(ready', tasks)
    PROVE  TransfersInv'
<1>1. TaskIds' = TaskIds
  BY DEF TaskIds
<1>2. UrbsFit'
  BY DEF TransfersInv, UrbsFit
<1>3. \A t \in TaskIds : TaskFits(tasks[t])'
  BY DEF TransfersInv, TaskFits
<1> QED BY <1>1, <1>2, <1>3 DEF TransfersInv, TransfersType

LEMMA CallerWakesInv ==
    ASSUME TransfersInv, NEW c \in Callers, CallerWakes(c), UNCHANGED <<tasks, urbs>>
    PROVE  TransfersInv'
<1> DEFINE h == Handle("resume", 0, {c})
<1>1. h \in Handles /\ h.kind \notin TaskKinds /\ HandleFits(h, tasks)
  BY CallerHandles
<1>2. ready' = Append(ready, h) /\ UNCHANGED <<running, live, done, waitFor>>
  BY DEF CallerWakes
<1> HIDE DEF h
<1>3. QueueOK(ready', tasks)
  BY <1>1, <1>2, QueueAppend DEF TransfersInv
<1> QED BY <1>2, <1>3, TasksKept DEF TransfersInv, TransfersType

(* Steps of a caller that change neither the tasks nor the handles. *)
LEMMA CallerInv ==
    ASSUME TransfersInv, UNCHANGED <<ready, live, done, waitFor, tasks, urbs>>,
           running' \in Callers \cup {NoCaller}
    PROVE  TransfersInv'
  BY TasksKept DEF TransfersInv, TransfersType

LEMMA PollRestType ==
    ASSUME NEW bad, done \in Seq(TaskIds)
    PROVE  PollRest(bad) \in Seq(TaskIds)
<1> DEFINE hits == {i \in DOMAIN done : done[i] \in bad}
           first == CHOOSE i \in DOMAIN done :
                        done[i] \in bad /\ \A j \in 1..(i - 1) : done[j] \notin bad
<1>1. DOMAIN done = 1..Len(done) /\ Len(done) \in Nat
  BY LenProperties
<1>2. CASE PollRaises(bad)
  <2>0. hits \in SUBSET Nat /\ hits # {}
    BY <1>1, <1>2 DEF PollRaises
  <2>1. PICK m \in hits : \A n \in hits : m <= n
    <3> HIDE DEF hits
    <3> QED BY <2>0, LeastNatural
  <2>2. done[m] \in bad /\ \A j \in 1..(m - 1) : done[j] \notin bad
    BY <1>1, <2>1
  <2>3. first \in DOMAIN done
    BY <2>1, <2>2
  <2>4. SubSeq(done, first + 1, Len(done)) \in Seq(TaskIds)
    <3> HIDE DEF first
    <3> QED BY <1>1, <2>3, SubSeqProperties, ElementOfSeq
  <2> QED BY <1>2, <2>4 DEF PollRest
<1>3. CASE ~PollRaises(bad)
  BY <1>3, EmptySeq DEF PollRest
<1> QED BY <1>2, <1>3

LEMMA PollInv ==
    ASSUME TransfersInv, NEW c \in Callers, Poll(c),
           UNCHANGED <<ready, running, live, waitFor, tasks, urbs>>
    PROVE  TransfersInv'
<1>1. done' \in Seq(TaskIds)
  BY PollRestType DEF TransfersInv, TransfersType, Poll
<1> QED BY <1>1, TasksKept DEF TransfersInv, TransfersType

(* What asyncio.wait() does to a queue that fits. *)
LEMMA Suspends ==
    ASSUME NEW c \in Callers, NEW q, NEW ts, QueueOK(q, ts),
           live \subseteq TaskIds, waitFor \in [Callers -> SUBSET (TaskIds \cup {Late})],
           AsyncioWait(c, Over, q)
    PROVE  /\ QueueOK(ready', ts)
           /\ waitFor' \in [Callers -> SUBSET (TaskIds \cup {Late})]
           /\ running' = NoCaller
<1> DEFINE h == Handle("completed", 0, {c})
<1>1. h \in Handles /\ h.kind \notin TaskKinds /\ HandleFits(h, ts)
  BY CallerHandles
<1>2. ready' = q \/ ready' = Append(q, h)
  BY DEF AsyncioWait
<1>3. QueueOK(ready', ts)
  <2> HIDE DEF h
  <2> QED BY <1>1, <1>2, QueueAppend
<1> QED BY <1>3 DEF AsyncioWait

LEMMA AsyncioWaitInv ==
    ASSUME TransfersInv, NEW c \in Callers, AsyncioWait(c, Over, ready),
           UNCHANGED <<live, done, tasks, urbs>>
    PROVE  TransfersInv'
<1>1. /\ QueueOK(ready', tasks) /\ running' = NoCaller
      /\ waitFor' \in [Callers -> SUBSET (TaskIds \cup {Late})]
  BY Suspends DEF TransfersInv, TransfersType
<1> QED BY <1>1, TasksKept DEF TransfersInv, TransfersType

LEMMA WaitOneInv ==
    ASSUME TransfersInv, NEW c \in Callers, WaitOne(c), UNCHANGED <<live, tasks, urbs>>
    PROVE  TransfersInv'
<1>1. CASE done # <<>>
  BY <1>1, PollInv DEF WaitOne
<1>2. CASE done = <<>> /\ live = {}
  BY <1>2, CallerInv DEF WaitOne, TransfersInv, TransfersType
<1>3. CASE done = <<>> /\ live # {}
  BY <1>3, AsyncioWaitInv DEF WaitOne
<1> QED BY <1>1, <1>2, <1>3

(* Other callers may be left of the handle that resumes this one. *)
LEMMA ResumeInv ==
    ASSUME TransfersInv, NEW c \in Callers, Resume(c)
    PROVE  TransfersInv'
<1> DEFINE who == Head(ready).who \ {c}
           h == Handle("resume", 0, who)
<1>1. QueueOK(ready, tasks) /\ ready # <<>> /\ done \in Seq(TaskIds)
  BY DEF TransfersInv, TransfersType, Resume, Turn
<1>2. Head(ready) \in Handles /\ QueueOK(Tail(ready), tasks)
  BY <1>1, QueueTail
<1>3. h \in Handles /\ h.kind \notin TaskKinds
  <2>1. who \in SUBSET Callers
    BY <1>2 DEF Handles
  <2> HIDE DEF who
  <2> QED BY <2>1, CallerHandles
<1>4. ready' = Tail(ready) \/ ready' = <<h>> \o Tail(ready)
  BY DEF Resume, RestOfResume
<1> HIDE DEF h
<1>5. QueueOK(ready', tasks)
  BY <1>2, <1>3, <1>4, QueueCons
<1>6. done' \in Seq(TaskIds)
  BY <1>1, PollRestType DEF Resume, Poll
<1>7. UNCHANGED <<live, waitFor, tasks, urbs>> /\ running' = c
  BY DEF Resume
<1> QED BY <1>5, <1>6, <1>7, TasksKept DEF TransfersInv, TransfersType

(* A wait ends, or is left with less to wait for. *)
LEMMA CompletedProperties ==
    ASSUME TransfersInv, ready # <<>>, NEW x, NEW who \in SUBSET Callers, Completed(x, who)
    PROVE  /\ QueueOK(ready', tasks)
           /\ waitFor' \in [Callers -> SUBSET (TaskIds \cup {Late})]
<1> DEFINE woken == WaitEnds(x, who)
           h == Handle("resume", 0, woken)
<1>1. QueueOK(Tail(ready), tasks)
  BY QueueTail DEF TransfersInv
<1>2. woken \in SUBSET Callers
  BY DEF WaitEnds
<1>3. waitFor' \in [Callers -> SUBSET (TaskIds \cup {Late})]
  BY DEF Completed, TransfersInv, TransfersType
<1>4. ready' = Tail(ready) \/ ready' = Append(Tail(ready), h)
  BY DEF Completed
<1> HIDE DEF woken
<1>5. h \in Handles /\ h.kind \notin TaskKinds /\ HandleFits(h, tasks)
  BY <1>2, CallerHandles
<1> HIDE DEF h
<1> QED BY <1>1, <1>3, <1>4, <1>5, QueueAppend

LEMMA LateCompletedInv ==
    ASSUME TransfersInv, LateCompleted, UNCHANGED <<tasks, urbs>>
    PROVE  TransfersInv'
<1>1. ready # <<>> /\ Completed(Late, Head(ready).who) /\ UNCHANGED <<running, live, done>>
  BY DEF LateCompleted, Turn
<1>2. Head(ready).who \in SUBSET Callers
  BY <1>1, QueueTail DEF TransfersInv, Handles
<1>3. /\ QueueOK(ready', tasks)
      /\ waitFor' \in [Callers -> SUBSET (TaskIds \cup {Late})]
  BY <1>1, <1>2, CompletedProperties
<1> QED BY <1>1, <1>3, TasksKept DEF TransfersInv, TransfersType

(* The oldest handle, and what is left of the queue when it runs. *)
LEMMA TurnProperties ==
    ASSUME TransfersInv, NEW kind \in TaskKinds, Turn(kind)
    PROVE  /\ running = NoCaller /\ ready # <<>>
           /\ Head(ready) \in Handles /\ Head(ready).kind = kind
           /\ Head(ready).task \in TaskIds /\ Head(ready).task \in Nat
           /\ KindFits(kind, tasks[Head(ready).task])
           /\ QueueOK(Tail(ready), tasks) /\ Absent(Tail(ready), kind, Head(ready).task)
           /\ tasks[Head(ready).task] \in TaskRecords /\ TaskFits(tasks[Head(ready).task])
<1>1. /\ running = NoCaller /\ ready # <<>> /\ Head(ready).kind = kind /\ QueueOK(ready, tasks)
  BY DEF Turn, TransfersInv
<1>2. /\ Head(ready) \in Handles /\ HandleFits(Head(ready), tasks) /\ QueueOK(Tail(ready), tasks)
      /\ Absent(Tail(ready), kind, Head(ready).task)
  BY <1>1, QueueTail
<1>3. Head(ready).task \in TaskIds /\ KindFits(kind, tasks[Head(ready).task])
  BY <1>1, <1>2, TypeFacts DEF HandleFits
<1> QED BY <1>1, <1>2, <1>3, TypeFacts

LEMMA TaskCallbackInv ==
    ASSUME TransfersInv, TaskCallback, UNCHANGED <<tasks, urbs>>
    PROVE  TransfersInv'
<1> SUFFICES ASSUME NEW t, t = Head(ready).task PROVE TransfersInv'
  OBVIOUS
<1>1. t \in TaskIds /\ ready # <<>>
  BY TurnProperties DEF TaskCallback, TaskKinds
<1>2. /\ QueueOK(ready', tasks)
      /\ waitFor' \in [Callers -> SUBSET (TaskIds \cup {Late})]
  <2>1. Completed(t, Callers)
    BY DEF TaskCallback
  <2> QED BY <1>1, <2>1, CompletedProperties
<1>3. live' = live \ {t} /\ done' = Append(done, t) /\ UNCHANGED running
  BY DEF TaskCallback
<1>4. done' \in Seq(TaskIds)
  BY <1>1, <1>3, AppendProperties DEF TransfersInv, TransfersType
<1> QED BY <1>2, <1>3, <1>4, TasksKept DEF TransfersInv, TransfersType

--------------------------------------------------------------------------------
(* Steps of the tasks and of their transfers *)

LEMMA SetTaskProperties ==
    ASSUME tasks \in Seq(TaskRecords), NEW t \in TaskIds, NEW new \in TaskRecords,
           SetTask(t, new)
    PROVE  /\ tasks' = [tasks EXCEPT ![t] = new]
           /\ tasks' \in Seq(TaskRecords) /\ TaskIds' = TaskIds
           /\ DOMAIN tasks' = TaskIds /\ tasks'[t] = new
           /\ \A u \in TaskIds : u # t => tasks'[u] = tasks[u]
<1>1. tasks' = [tasks EXCEPT ![t] = new]
  BY DEF SetTask
<1>2. tasks' \in Seq(TaskRecords) /\ Len(tasks') = Len(tasks)
  BY <1>1, ExceptSeq DEF TaskIds
<1>3. DOMAIN tasks = TaskIds
  BY LenProperties DEF TaskIds
<1> QED BY <1>1, <1>2, <1>3 DEF TaskIds

LEMMA EndedType ==
    ASSUME NEW outcome \in Outcomes \ {"none"}
    PROVE  /\ Ended(outcome) \in TaskRecords /\ Ended(outcome).state = "over"
           /\ Ended(outcome).urb = "none" /\ Ended(outcome).outcome = outcome
           /\ Ended(outcome).from = 0 /\ Ended(outcome).to = 0
           /\ ~Ended(outcome).mustCancel /\ TaskFits(Ended(outcome))
  BY DEF Ended, Task, TaskRecords, TaskState, UrbState, TaskFits, Outcomes

LEMMA TaskType ==
    ASSUME NEW a \in Nat, NEW b \in Nat
    PROVE  /\ Task(a, b) \in TaskRecords /\ Task(a, b).state = "created"
           /\ Task(a, b).urb = "none" /\ Task(a, b).outcome = "none"
           /\ Task(a, b).from = a /\ Task(a, b).to = b
           /\ ~Task(a, b).mustCancel /\ TaskFits(Task(a, b))
  BY DEF Task, TaskRecords, TaskState, UrbState, TaskFits, Outcomes

(* One task moves on. *)
LEMMA OneTaskInv ==
    ASSUME TransfersInv, NEW t \in TaskIds, NEW new \in TaskRecords, SetTask(t, new),
           TaskFits(new), urbs' \in Seq(TaskIds), UrbsFit', QueueOK(ready', tasks'),
           UNCHANGED <<running, live, done, waitFor>>
    PROVE  TransfersInv'
<1>1. /\ tasks' \in Seq(TaskRecords) /\ TaskIds' = TaskIds /\ tasks'[t] = new
      /\ \A u \in TaskIds : u # t => tasks'[u] = tasks[u]
  BY SetTaskProperties DEF TransfersInv, TransfersType
<1>2. ASSUME NEW u \in TaskIds PROVE TaskFits(tasks'[u])
  BY <1>1, TypeFacts
<1>3. \A u \in TaskIds : TaskFits(tasks[u])'
  BY <1>2 DEF TaskFits
<1> QED BY <1>1, <1>3 DEF TransfersInv, TransfersType

(* A task that has no transfer with the controller moves on. *)
LEMMA UrbsKept ==
    ASSUME TransfersInv, NEW t \in TaskIds, NEW new \in TaskRecords, SetTask(t, new),
           tasks[t].urb # "submitted" \/ new.urb = "submitted", urbs' = urbs
    PROVE  urbs' \in Seq(TaskIds) /\ UrbsFit'
<1>1. /\ tasks'[t] = new /\ \A u \in TaskIds : u # t => tasks'[u] = tasks[u]
  BY SetTaskProperties DEF TransfersInv, TransfersType
<1>2. \A i \in DOMAIN urbs : tasks'[urbs[i]].urb = "submitted"
  BY <1>1, TypeFacts
<1> QED BY <1>2 DEF TransfersInv, TransfersType, UrbsFit

(* The task whose handle runs takes a step that leaves the rest of the     *)
(* queue alone, or schedules one more handle of the task.                  *)
LEMMA TurnTask ==
    ASSUME TransfersInv, NEW kind \in TaskKinds, Turn(kind), NEW t, t = Head(ready).task,
           NEW new \in TaskRecords, SetTask(t, new),
           \A k \in TaskKinds : Absent(Tail(ready), k, t) \/ KindFits(k, new),
           \/ ready' = Tail(ready)
           \/ \E k \in TaskKinds : /\ Absent(Tail(ready), k, t) /\ KindFits(k, new)
                                   /\ ready' = Append(Tail(ready), Handle(k, t, {}))
    PROVE  QueueOK(ready', tasks')
<1>1. /\ QueueOK(Tail(ready), tasks) /\ t \in TaskIds /\ t \in Nat /\ t \in DOMAIN tasks
      /\ tasks \in Seq(TaskRecords)
  BY TurnProperties, TypeFacts
<1>2. /\ tasks' = [tasks EXCEPT ![t] = new] /\ tasks'[t] = new /\ t \in DOMAIN tasks'
  BY <1>1, SetTaskProperties
<1>3. QueueOK(Tail(ready), tasks')
  BY <1>1, <1>2, TaskMoves
<1>4. ASSUME NEW k \in TaskKinds, Absent(Tail(ready), k, t), KindFits(k, new)
      PROVE  QueueOK(Append(Tail(ready), Handle(k, t, {})), tasks')
  <2> DEFINE h == Handle(k, t, {})
  <2>1. h \in Handles /\ h.kind = k /\ h.task = t /\ HandleFits(h, tasks')
    BY <1>1, <1>2, <1>4 DEF Handle, Handles, Kinds, HandleFits, TaskKinds
  <2> HIDE DEF h
  <2>2. QueueOK(Append(Tail(ready), h), tasks')
    BY <1>3, <1>4, <2>1, QueueAppend
  <2> QED BY <2>2 DEF h
<1> QED BY <1>3, <1>4

(* The coroutine of a task that has not submitted a transfer submits it. *)
LEMMA SubmitsInv ==
    ASSUME TransfersInv, NEW kind \in {"start", "wake"}, Turn(kind),
           NEW t, t = Head(ready).task, tasks[t].state \in {"created", "notified"},
           SetTask(t, [tasks[t] EXCEPT !.state = "inflight", !.urb = "submitted"]),
           ready' = Tail(ready), urbs' = Append(urbs, t),
           UNCHANGED <<running, live, done, waitFor>>
    PROVE  TransfersInv'
<1> DEFINE new == [tasks[t] EXCEPT !.state = "inflight", !.urb = "submitted"]
<1>1. /\ t \in TaskIds /\ tasks[t] \in TaskRecords /\ TaskFits(tasks[t]) /\ kind \in TaskKinds
  BY TurnProperties DEF TaskKinds
<1>2. /\ new \in TaskRecords /\ new.state = "inflight" /\ new.urb = "submitted"
      /\ new.outcome = tasks[t].outcome
  BY <1>1 DEF TaskRecords, TaskState, UrbState
<1>3. TaskFits(new)
  BY <1>1, <1>2 DEF TaskFits
<1>4. SetTask(t, new)
  OBVIOUS
<1> HIDE DEF new
<1>5. QueueOK(ready', tasks')
  <2>1. QueueOK(Tail(ready), tasks) /\ Absent(Tail(ready), kind, t)
    BY <1>1, TurnProperties
  <2>2. kind = IF tasks[t].state = "created" THEN "start" ELSE "wake"
    BY <1>1, TurnProperties DEF KindFits
  <2>3. \A k \in TaskKinds : Absent(Tail(ready), k, t)
    BY <1>1, <2>1, <2>2, AbsentHandles DEF TaskFits, TaskKinds
  <2> QED BY <1>1, <1>2, <1>4, <2>3, TurnTask
<1>6. urbs' \in Seq(TaskIds) /\ UrbsFit'
  <2>1. urbs \in Seq(TaskIds) /\ UrbsFit
    BY DEF TransfersInv, TransfersType
  <2>2. /\ urbs' \in Seq(TaskIds) /\ DOMAIN urbs' = DOMAIN urbs \cup {Len(urbs) + 1}
        /\ \A i \in DOMAIN urbs : urbs'[i] = urbs[i]
        /\ urbs'[Len(urbs) + 1] = t
    BY <1>1, <2>1, AppendParts
  <2>3. tasks'[t] = new /\ \A u \in TaskIds : u # t => tasks'[u] = tasks[u]
    BY <1>1, <1>2, <1>4, SetTaskProperties DEF TransfersInv, TransfersType
  <2>4. \A i \in DOMAIN urbs : urbs[i] # t /\ urbs[i] \in TaskIds /\ tasks[urbs[i]].urb = "submitted"
    BY <1>1, TypeFacts DEF TaskFits
  <2> QED BY <1>2, <2>1, <2>2, <2>3, <2>4 DEF UrbsFit
<1> QED BY <1>1, <1>2, <1>3, <1>4, <1>5, <1>6, OneTaskInv

(* The coroutine of a task that has no transfer with the controller ends. *)
LEMMA EndsInv ==
    ASSUME TransfersInv, NEW kind \in {"start", "wake"}, Turn(kind),
           NEW t, t = Head(ready).task, ~HasToCancel(t),
           NEW outcome \in Outcomes \ {"none"}, SetTask(t, Ended(outcome)),
           ready' = Append(Tail(ready), CallbackHandle(t)), urbs' = urbs,
           UNCHANGED <<running, live, done, waitFor>>
    PROVE  TransfersInv'
<1> DEFINE new == Ended(outcome)
<1>1. /\ t \in TaskIds /\ tasks[t] \in TaskRecords /\ TaskFits(tasks[t]) /\ kind \in TaskKinds
      /\ KindFits(kind, tasks[t])
  BY TurnProperties DEF TaskKinds
<1>2. new \in TaskRecords /\ new.state = "over" /\ TaskFits(new) /\ SetTask(t, new)
  BY EndedType
<1> HIDE DEF new
<1>3. tasks[t].urb # "submitted" /\ tasks[t].state # "over"
  BY <1>1 DEF KindFits, TaskFits, HasToCancel, TaskRecords
<1>4. QueueOK(ready', tasks')
  <2>1. QueueOK(Tail(ready), tasks) /\ Absent(Tail(ready), kind, t)
    BY <1>1, TurnProperties
  <2>2. Absent(Tail(ready), "callback", t)
    BY <1>3, <2>1, AbsentHandles
  <2>3. \A k \in TaskKinds : Absent(Tail(ready), k, t) \/ KindFits(k, new)
    BY <1>1, <1>2, <2>1, AbsentHandles DEF TaskKinds, KindFits
  <2>4. KindFits("callback", new) /\ CallbackHandle(t) = Handle("callback", t, {})
    BY <1>2 DEF KindFits, CallbackHandle
  <2>5. "callback" \in TaskKinds
    BY DEF TaskKinds
  <2> QED BY <1>1, <1>2, <2>2, <2>3, <2>4, <2>5, TurnTask
<1>5. urbs' \in Seq(TaskIds) /\ UrbsFit'
  BY <1>1, <1>2, <1>3, UrbsKept
<1> QED BY <1>1, <1>2, <1>4, <1>5, OneTaskInv

(* A task that has been cancelled requests the cancellation of its         *)
(* transfer, and awaits it.                                                *)
LEMMA CancelsInv ==
    ASSUME TransfersInv, Turn("wake"), NEW t, t = Head(ready).task, HasToCancel(t),
           SetTask(t, [tasks[t] EXCEPT !.state = "cancelling"]),
           ready' = Tail(ready), urbs' = urbs, UNCHANGED <<running, live, done, waitFor>>
    PROVE  TransfersInv'
<1> DEFINE new == [tasks[t] EXCEPT !.state = "cancelling"]
<1>1. /\ t \in TaskIds /\ tasks[t] \in TaskRecords /\ TaskFits(tasks[t]) /\ "wake" \in TaskKinds
  BY TurnProperties DEF TaskKinds
<1>2. tasks[t].state = "cancelled" /\ tasks[t].urb = "submitted"
  BY DEF HasToCancel
<1>3. /\ new \in TaskRecords /\ new.state = "cancelling" /\ new.urb = "submitted"
      /\ new.outcome = tasks[t].outcome /\ SetTask(t, new)
  BY <1>1, <1>2 DEF TaskRecords, TaskState
<1> HIDE DEF new
<1>4. TaskFits(new)
  BY <1>1, <1>2, <1>3 DEF TaskFits
<1>5. QueueOK(ready', tasks')
  <2>1. QueueOK(Tail(ready), tasks) /\ Absent(Tail(ready), "wake", t)
    BY <1>1, TurnProperties
  <2>2. \A k \in TaskKinds : Absent(Tail(ready), k, t)
    BY <1>1, <1>2, <2>1, AbsentHandles DEF TaskFits, TaskKinds
  <2> QED BY <1>1, <1>3, <2>2, TurnTask
<1>6. urbs' \in Seq(TaskIds) /\ UrbsFit'
  BY <1>1, <1>3, UrbsKept
<1> QED BY <1>1, <1>3, <1>4, <1>5, <1>6, OneTaskInv

LEMMA TransferCallbackInv ==
    ASSUME TransfersInv, TransferCallback
    PROVE  TransfersInv'
<1> SUFFICES ASSUME NEW t, t = Head(ready).task PROVE TransfersInv'
  OBVIOUS
<1>1. /\ t \in TaskIds /\ tasks[t] \in TaskRecords /\ TaskFits(tasks[t]) /\ "usb" \in TaskKinds
      /\ KindFits("usb", tasks[t]) /\ Turn("usb")
      /\ QueueOK(Tail(ready), tasks) /\ Absent(Tail(ready), "usb", t)
  BY TurnProperties DEF TaskKinds, TransferCallback
<1>2. UNCHANGED <<running, live, done, waitFor, urbs>>
  BY DEF TransferCallback
<1>3. ASSUME NEW state \in {"completed", "retired"},
             tasks[t].state = IF state = "completed" THEN "inflight" ELSE "cancelling",
             SetTask(t, [tasks[t] EXCEPT !.state = state]),
             ready' = Append(Tail(ready), WakeHandle(t))
      PROVE  TransfersInv'
  <2> DEFINE new == [tasks[t] EXCEPT !.state = state]
  <2>1. /\ new \in TaskRecords /\ new.state = state /\ new.urb = tasks[t].urb
        /\ new.outcome = tasks[t].outcome /\ SetTask(t, new)
    BY <1>1, <1>3 DEF TaskRecords, TaskState
  <2> HIDE DEF new
  <2>2. tasks[t].state \in {"inflight", "cancelling"} /\ tasks[t].urb \in {"ok", "error", "cancelled"}
    BY <1>1, <1>3 DEF KindFits
  <2>3. TaskFits(new)
    BY <1>1, <1>3, <2>1, <2>2 DEF TaskFits
  <2>4. \A k \in TaskKinds : Absent(Tail(ready), k, t)
    BY <1>1, <2>2, AbsentHandles DEF TaskKinds
  <2>5. QueueOK(ready', tasks')
    <3>1. "wake" \in TaskKinds /\ WakeHandle(t) = Handle("wake", t, {}) /\ KindFits("wake", new)
      BY <2>1 DEF TaskKinds, WakeHandle, KindFits
    <3> QED BY <1>1, <1>3, <2>1, <2>4, <3>1, TurnTask
  <2>6. urbs' \in Seq(TaskIds) /\ UrbsFit'
    BY <1>1, <1>2, <2>1, <2>2, UrbsKept
  <2> QED BY <1>1, <1>2, <2>1, <2>3, <2>5, <2>6, OneTaskInv
<1>4. CASE tasks[t].state = "inflight"
  BY <1>3, <1>4 DEF TransferCallback
<1>5. CASE tasks[t].state = "cancelling"
  BY <1>3, <1>5 DEF TransferCallback
<1>6. CASE tasks[t].state \notin {"inflight", "cancelling"}
  <2>1. ready' = Tail(ready) /\ UNCHANGED tasks
    BY <1>6 DEF TransferCallback
  <2> QED BY <1>1, <1>2, <2>1, TasksKept DEF TransfersInv, TransfersType
<1> QED BY <1>4, <1>5, <1>6

(* A transfer leaves the controller: its result is on its way to the loop. *)
LEMMA UrbEndsInv ==
    ASSUME TransfersInv, NEW i \in DOMAIN urbs, NEW t, t = urbs[i], NEW new \in TaskRecords,
           SetTask(t, new), new.state = tasks[t].state, new.outcome = tasks[t].outcome,
           new.urb = IF tasks[t].state = "cancelling" THEN "cancelled" ELSE new.urb,
           new.urb \in {"ok", "error", "cancelled"},
           new.urb = "cancelled" => tasks[t].state = "cancelling",
           ready' = Append(ready, Handle("usb", t, {})),
           urbs' \in Seq(TaskIds),
           \A k \in DOMAIN urbs' : urbs'[k] # t /\ \E j \in DOMAIN urbs : urbs'[k] = urbs[j],
           \A k, l \in DOMAIN urbs' : k # l => urbs'[k] # urbs'[l],
           UNCHANGED <<running, live, done, waitFor>>
    PROVE  TransfersInv'
<1>1. /\ t \in TaskIds /\ t \in Nat /\ tasks[t].urb = "submitted" /\ TaskFits(tasks[t])
      /\ tasks[t] \in TaskRecords /\ QueueOK(ready, tasks)
      /\ tasks \in Seq(TaskRecords) /\ DOMAIN tasks = TaskIds
  BY TypeFacts
<1>2. /\ tasks' = [tasks EXCEPT ![t] = new] /\ tasks'[t] = new /\ t \in DOMAIN tasks'
      /\ \A u \in TaskIds : u # t => tasks'[u] = tasks[u]
  BY <1>1, SetTaskProperties
<1>3. tasks[t].state \in {"inflight", "cancelled", "cancelling"}
  BY <1>1 DEF TaskFits, TaskRecords, TaskState
<1>4. TaskFits(new)
  BY <1>1, <1>3 DEF TaskFits
<1>5. Absent(ready, "usb", t) /\ Absent(ready, "start", t) /\ Absent(ready, "callback", t)
      /\ (Absent(ready, "wake", t) \/ tasks[t].state = "cancelled")
  BY <1>1, <1>3, AbsentHandles
<1>6. QueueOK(ready, tasks')
  <2>1. \A k \in TaskKinds : Absent(ready, k, t) \/ KindFits(k, new)
    BY <1>5 DEF TaskKinds, KindFits
  <2> QED BY <1>1, <1>2, <2>1, TaskMoves
<1>7. QueueOK(ready', tasks')
  <2> DEFINE h == Handle("usb", t, {})
  <2>1. h \in Handles /\ h.kind = "usb" /\ h.task = t /\ HandleFits(h, tasks')
    <3>1. KindFits("usb", tasks'[t])
      BY <1>2, <1>3 DEF KindFits
    <3> QED BY <1>1, <1>2, <3>1 DEF Handle, Handles, Kinds, HandleFits, TaskKinds
  <2> HIDE DEF h
  <2> QED BY <1>5, <1>6, <2>1, QueueAppend DEF h
<1>8. UrbsFit'
  <2>1. \A k \in DOMAIN urbs' : urbs'[k] \in TaskIds /\ tasks[urbs'[k]].urb = "submitted"
    BY TypeFacts
  <2>2. \A k \in DOMAIN urbs' : tasks'[urbs'[k]].urb = "submitted"
    BY <1>2, <2>1
  <2> QED BY <2>2 DEF UrbsFit
<1> QED BY <1>1, <1>4, <1>7, <1>8, OneTaskInv

(* A sequence without its i-th element. *)
LEMMA WithoutOne ==
    ASSUME NEW S, NEW q \in Seq(S), NEW i \in 1..Len(q)
    PROVE  LET r == SubSeq(q, 1, i - 1) \o SubSeq(q, i + 1, Len(q))
               m == Len(q)
           IN  /\ r \in Seq(S) /\ DOMAIN r = 1..(m - 1) /\ m \in Nat /\ DOMAIN q = 1..m
               /\ \A k \in 1..(m - 1) : r[k] = IF k < i THEN q[k] ELSE q[k + 1]
<1> SUFFICES ASSUME NEW m, m = Len(q),
                    NEW r, r = SubSeq(q, 1, i - 1) \o SubSeq(q, i + 1, m)
             PROVE  /\ r \in Seq(S) /\ DOMAIN r = 1..(m - 1) /\ m \in Nat /\ DOMAIN q = 1..m
                    /\ \A k \in 1..(m - 1) : r[k] = IF k < i THEN q[k] ELSE q[k + 1]
  BY Zenon
<1>1. DOMAIN q = 1..m /\ m \in Nat /\ \A k \in 1..m : q[k] \in S
  BY LenProperties, ElementOfSeq
<1>2. PICK p : p = SubSeq(q, 1, i - 1)
  OBVIOUS
<1>3. PICK s : s = SubSeq(q, i + 1, m)
  OBVIOUS
<1>4. /\ p \in Seq(S) /\ Len(p) = i - 1 /\ \A k \in 1..(i - 1) : p[k] = q[k]
  <2>1. 1 \in Int /\ i - 1 \in Int /\ \A k \in 1..(i - 1) : q[k] \in S
    BY <1>1
  <2>2. /\ p \in Seq(S) /\ Len(p) = IF 1 <= i - 1 THEN (i - 1) - 1 + 1 ELSE 0
        /\ \A k \in 1..((i - 1) - 1 + 1) : p[k] = q[1 + k - 1]
    BY <1>2, <2>1, SubSeqProperties
  <2> QED BY <1>1, <2>2
<1>5. /\ s \in Seq(S) /\ Len(s) = m - i
      /\ \A k \in 1..(m - i) : s[k] = q[i + k]
  <2>1. i + 1 \in Int /\ m \in Int /\ \A k \in (i + 1)..m : q[k] \in S
    BY <1>1
  <2>2. /\ s \in Seq(S)
        /\ Len(s) = IF i + 1 <= m THEN m - (i + 1) + 1 ELSE 0
        /\ \A k \in 1..(m - (i + 1) + 1) : s[k] = q[(i + 1) + k - 1]
    BY <1>3, <2>1, SubSeqProperties
  <2>3. Len(s) = m - i
    BY <1>1, <2>2
  <2>4. ASSUME NEW k \in 1..(m - i) PROVE s[k] = q[i + k]
    <3>1. k \in 1..(m - (i + 1) + 1) /\ (i + 1) + k - 1 = i + k
      BY <1>1, <2>4
    <3> QED BY <2>2, <3>1
  <2> QED BY <2>2, <2>3, <2>4
<1>6. r = p \o s
  BY <1>2, <1>3
<1>7. /\ r \in Seq(S) /\ Len(r) = m - 1
      /\ \A k \in 1..(m - 1) : r[k] = IF k <= i - 1 THEN p[k] ELSE s[k - (i - 1)]
  <2>1. /\ p \o s \in Seq(S) /\ Len(p \o s) = Len(p) + Len(s)
        /\ \A k \in 1..(Len(p) + Len(s)) :
               (p \o s)[k] = IF k <= Len(p) THEN p[k] ELSE s[k - Len(p)]
    <3>1. p \in Seq(S) /\ s \in Seq(S)
      BY <1>4, <1>5
    <3> QED BY <3>1, ConcatProperties
  <2>2. Len(p) + Len(s) = m - 1 /\ Len(p) = i - 1
    BY <1>1, <1>4, <1>5
  <2> QED BY <1>6, <2>1, <2>2, Zenon
<1>8. ASSUME NEW k \in 1..(m - 1) PROVE r[k] = IF k < i THEN q[k] ELSE q[k + 1]
  <2>1. CASE k < i
    <3>1. k \in 1..(i - 1) /\ k <= i - 1
      BY <1>1, <2>1
    <3>2. r[k] = p[k]
      BY <1>7, <3>1
    <3> QED BY <1>4, <2>1, <3>1, <3>2
  <2>2. CASE ~(k < i)
    <3>1. ~(k <= i - 1) /\ k - (i - 1) \in 1..(m - i) /\ i + (k - (i - 1)) = k + 1
      BY <1>1, <2>2
    <3>2. r[k] = s[k - (i - 1)]
      BY <1>7, <3>1
    <3>3. s[k - (i - 1)] = q[i + (k - (i - 1))]
      BY <1>5, <3>1
    <3>4. q[i + (k - (i - 1))] = q[k + 1]
      BY <3>1
    <3> QED BY <2>2, <3>2, <3>3, <3>4
  <2> QED BY <2>1, <2>2
<1>9. DOMAIN r = 1..(m - 1)
  BY <1>7, LenProperties
<1> QED BY <1>1, <1>7, <1>8, <1>9

Distinct(q) == \A k, l \in DOMAIN q : k # l => q[k] # q[l]

Without(q, i) == SubSeq(q, 1, i - 1) \o SubSeq(q, i + 1, Len(q))

(* What is left of a sequence has no element that was not there, nor the *)
(* one that is gone.                                                     *)
LEMMA WithoutOneElements ==
    ASSUME NEW S, NEW q \in Seq(S), NEW i \in DOMAIN q, Distinct(q)
    PROVE  /\ Without(q, i) \in Seq(S)
           /\ \A k \in DOMAIN Without(q, i) : /\ k \in Nat /\ Without(q, i)[k] # q[i]
                                              /\ \E j \in DOMAIN q : Without(q, i)[k] = q[j]
           /\ Distinct(Without(q, i))
<1> DEFINE m == Len(q)
           r == Without(q, i)
<1>1. /\ r \in Seq(S) /\ DOMAIN r = 1..(m - 1) /\ m \in Nat /\ DOMAIN q = 1..m /\ i \in 1..m
      /\ \A k \in 1..(m - 1) : r[k] = IF k < i THEN q[k] ELSE q[k + 1]
  <2>1. i \in 1..Len(q)
    BY LenProperties
  <2> QED BY <2>1, WithoutOne DEF Without
<1> HIDE DEF r, m
<1>2. ASSUME NEW k \in 1..(m - 1)
      PROVE  \E j \in 1..m : j # i /\ r[k] = q[j] /\ j = IF k < i THEN k ELSE k + 1
  <2>1. CASE k < i
    <3>1. k \in 1..m /\ k # i /\ r[k] = q[k]
      BY <1>1, <2>1
    <3> QED BY <2>1, <3>1
  <2>2. CASE ~(k < i)
    <3>1. k + 1 \in 1..m /\ k + 1 # i /\ r[k] = q[k + 1]
      BY <1>1, <2>2
    <3> QED BY <2>2, <3>1
  <2> QED BY <2>1, <2>2
<1>3. ASSUME NEW k \in 1..(m - 1), NEW l \in 1..(m - 1), k # l PROVE r[k] # r[l]
  <2>1. PICK j \in 1..m : r[k] = q[j] /\ j = IF k < i THEN k ELSE k + 1
    BY <1>2
  <2>2. PICK h \in 1..m : r[l] = q[h] /\ h = IF l < i THEN l ELSE l + 1
    BY <1>2
  <2>3. j # h
    BY <1>1, <1>3, <2>1, <2>2
  <2> QED BY <1>1, <2>1, <2>2, <2>3 DEF Distinct
<1>4. \A k \in 1..(m - 1) : k \in Nat /\ r[k] # q[i] /\ \E j \in 1..m : r[k] = q[j]
  <2> TAKE k \in 1..(m - 1)
  <2>1. PICK j \in 1..m : j # i /\ r[k] = q[j]
    BY <1>2
  <2>2. r[k] # q[i]
    BY <1>1, <2>1 DEF Distinct
  <2> QED BY <1>1, <2>1, <2>2
<1>5. /\ r \in Seq(S)
      /\ \A k \in DOMAIN r : k \in Nat /\ r[k] # q[i] /\ \E j \in DOMAIN q : r[k] = q[j]
      /\ Distinct(r)
  BY <1>1, <1>3, <1>4, Zenon DEF Distinct
<1> QED BY <1>5, Zenon DEF r

(* The urbs that are left when the controller is done with one of them. *)
LEMMA UrbsWithout ==
    ASSUME TransfersInv, NEW i \in DOMAIN urbs, urbs' = Without(urbs, i)
    PROVE  /\ urbs' \in Seq(TaskIds)
           /\ \A k \in DOMAIN urbs' : /\ k \in Nat /\ urbs'[k] # urbs[i]
                                      /\ \E j \in DOMAIN urbs : urbs'[k] = urbs[j]
           /\ \A k, l \in DOMAIN urbs' : k # l => urbs'[k] # urbs'[l]
<1>1. urbs \in Seq(TaskIds) /\ Distinct(urbs)
  BY TypeFacts DEF TransfersInv, UrbsFit, Distinct
<1>2. Without(urbs, i) \in Seq(TaskIds) /\ Distinct(Without(urbs, i))
  BY <1>1, WithoutOneElements
<1>3. ASSUME NEW k \in DOMAIN Without(urbs, i)
      PROVE  /\ k \in Nat /\ Without(urbs, i)[k] # urbs[i]
             /\ \E j \in DOMAIN urbs : Without(urbs, i)[k] = urbs[j]
  BY <1>1, WithoutOneElements
<1> QED BY <1>2, <1>3, Zenon DEF Distinct

(* The first transfer is done. *)
LEMMA UrbsTail ==
    ASSUME TransfersInv, urbs # <<>>, urbs' = Tail(urbs)
    PROVE  /\ 1 \in DOMAIN urbs /\ Head(urbs) = urbs[1] /\ Head(urbs) \in TaskIds
           /\ urbs' \in Seq(TaskIds)
           /\ \A k \in DOMAIN urbs' : /\ k \in Nat /\ urbs'[k] # urbs[1]
                                      /\ \E j \in DOMAIN urbs : urbs'[k] = urbs[j]
           /\ \A k, l \in DOMAIN urbs' : k # l => urbs'[k] # urbs'[l]
<1>1. urbs \in Seq(TaskIds) /\ UrbsFit
  BY TypeFacts DEF TransfersInv
<1>2. /\ Head(urbs) \in TaskIds /\ Head(urbs) = urbs[1] /\ Tail(urbs) \in Seq(TaskIds)
      /\ 1 \in DOMAIN urbs
      /\ \A k \in DOMAIN Tail(urbs) : /\ k \in Nat /\ k + 1 \in DOMAIN urbs /\ k + 1 # 1
                                      /\ Tail(urbs)[k] = urbs[k + 1]
  BY <1>1, TailParts
<1>3. \A k, l \in DOMAIN Tail(urbs) : k # l => k + 1 # l + 1
  BY <1>2
<1> QED BY <1>1, <1>2, <1>3 DEF UrbsFit

LEMMA UsbCancelledInv ==
    ASSUME TransfersInv, UsbCancelled
    PROVE  TransfersInv'
<1>1. PICK i \in DOMAIN urbs :
        /\ tasks[urbs[i]].state = "cancelling"
        /\ SetTask(urbs[i], [tasks[urbs[i]] EXCEPT !.urb = "cancelled"])
        /\ ready' = Append(ready, Handle("usb", urbs[i], {}))
        /\ urbs' = SubSeq(urbs, 1, i - 1) \o SubSeq(urbs, i + 1, Len(urbs))
        /\ UNCHANGED <<running, pc, live, done, waitFor>>
  BY DEF UsbCancelled
<1> SUFFICES ASSUME NEW t, t = urbs[i], NEW new, new = [tasks[t] EXCEPT !.urb = "cancelled"]
             PROVE  TransfersInv'
  OBVIOUS
<1>2. /\ new \in TaskRecords /\ new.state = tasks[t].state /\ new.outcome = tasks[t].outcome
      /\ new.urb = "cancelled"
  <2>1. tasks[t] \in TaskRecords
    BY TypeFacts
  <2> QED BY <2>1 DEF TaskRecords, UrbState
<1>3. /\ urbs' \in Seq(TaskIds)
      /\ \A k \in DOMAIN urbs' : urbs'[k] # t /\ \E j \in DOMAIN urbs : urbs'[k] = urbs[j]
      /\ \A k, l \in DOMAIN urbs' : k # l => urbs'[k] # urbs'[l]
  <2>1. urbs' = Without(urbs, i)
    BY <1>1 DEF Without
  <2> QED BY <2>1, UrbsWithout, Zenon
<1>4. SetTask(t, new) /\ tasks[t].state = "cancelling" /\ ready' = Append(ready, Handle("usb", t, {}))
  BY <1>1
<1>5. UNCHANGED <<running, live, done, waitFor>>
  BY <1>1
<1> QED BY ZenonT(30), SMTT(30), <1>2, <1>3, <1>4, <1>5, UrbEndsInv

--------------------------------------------------------------------------------
(* Steps that add tasks *)

(* More tasks, and everything said of the others stays. *)
LEMMA TasksGrow ==
    ASSUME TransfersInv, NEW n \in Nat, TaskIds \subseteq 1..n,
           tasks' \in Seq(TaskRecords), Len(tasks') = n,
           \A t \in TaskIds : tasks[t].urb = "submitted" => tasks'[t] = tasks[t],
           \A t \in 1..n : TaskFits(tasks'[t]),
           running' \in Callers \cup {NoCaller}, live' \subseteq 1..n,
           done' \in Seq(TaskIds), UNCHANGED <<waitFor, urbs>>, QueueOK(ready', tasks')
    PROVE  TransfersInv' /\ TaskIds' = 1..n
<1>1. TaskIds' = 1..n
  BY DEF TaskIds
<1>2. done' \in Seq(TaskIds') /\ urbs' \in Seq(TaskIds')
  <2>1. urbs \in Seq(TaskIds) /\ TaskIds \subseteq TaskIds'
    BY <1>1, TypeFacts
  <2>2. done' \in Seq(TaskIds') /\ urbs \in Seq(TaskIds')
    BY <2>1, SeqMonotonic, Zenon
  <2> QED BY <2>2
<1>3. waitFor' \in [Callers -> SUBSET (TaskIds' \cup {Late})]
  BY <1>1 DEF TransfersInv, TransfersType
<1>4. UrbsFit'
  <2>1. \A i \in DOMAIN urbs : urbs[i] \in TaskIds /\ tasks[urbs[i]].urb = "submitted"
    BY TypeFacts
  <2> QED BY <2>1 DEF TransfersInv, UrbsFit
<1>5. \A t \in TaskIds' : TaskFits(tasks[t])'
  BY <1>1 DEF TaskFits
<1> QED BY <1>1, <1>2, <1>3, <1>4, <1>5 DEF TransfersInv, TransfersType

(* A task ends and submits its successor. *)
LEMMA SucceedsTasks ==
    ASSUME TransfersInv, NEW t \in TaskIds,
           NEW outcome \in Outcomes \ {"none"}, NEW task \in TaskRecords
    PROVE  LET n  == Len(tasks) + 1
               ts == Append([tasks EXCEPT ![t] = Ended(outcome)], task)
           IN  /\ n \in Nat /\ n \notin TaskIds /\ n # t /\ 1..n = TaskIds \cup {n}
               /\ ts \in Seq(TaskRecords) /\ Len(ts) = n /\ DOMAIN ts = 1..n
               /\ ts[n] = task /\ ts[t] = Ended(outcome)
               /\ \A u \in TaskIds : u # t => ts[u] = tasks[u]
<1> DEFINE n  == Len(tasks) + 1
           us == [tasks EXCEPT ![t] = Ended(outcome)]
           ts == Append(us, task)
<1>1. tasks \in Seq(TaskRecords) /\ Len(tasks) \in Nat /\ TaskIds = 1..Len(tasks) /\ DOMAIN tasks = TaskIds
  BY TypeFacts
<1>2. /\ us \in Seq(TaskRecords) /\ Len(us) = Len(tasks) /\ us[t] = Ended(outcome)
      /\ \A u \in TaskIds : u # t => us[u] = tasks[u]
  BY <1>1, EndedType, ExceptSeq
<1> HIDE DEF us
<1>3. /\ ts \in Seq(TaskRecords) /\ Len(ts) = n /\ DOMAIN ts = 1..n
      /\ \A u \in DOMAIN us : ts[u] = us[u]
      /\ ts[n] = task /\ DOMAIN us = TaskIds
  BY <1>1, <1>2, AppendParts
<1>4. 1..n = TaskIds \cup {n} /\ n \notin TaskIds /\ n \in Nat
  <2>1. \A k \in Nat : 1..(k + 1) = (1..k) \cup {k + 1} /\ k + 1 \notin 1..k /\ k + 1 \in Nat
    OBVIOUS
  <2> QED BY <1>1, <2>1
<1> HIDE DEF n, ts
<1>5. /\ n \in Nat /\ n \notin TaskIds /\ n # t /\ 1..n = TaskIds \cup {n}
      /\ ts \in Seq(TaskRecords) /\ Len(ts) = n /\ DOMAIN ts = 1..n
      /\ ts[n] = task /\ ts[t] = Ended(outcome)
      /\ \A u \in TaskIds : u # t => ts[u] = tasks[u]
  BY <1>1, <1>2, <1>3, <1>4
<1> QED BY <1>5, Zenon DEF n, ts, us

LEMMA SucceedsInv ==
    ASSUME TransfersInv, Turn("wake"), NEW t, t = Head(ready).task, tasks[t].state = "completed",
           NEW n, n = Len(tasks) + 1,
           NEW outcome \in Outcomes \ {"none"}, NEW task \in TaskRecords,
           task.state = "created", task.urb = "none", task.outcome = "none",
           tasks' = Append([tasks EXCEPT ![t] = Ended(outcome)], task),
           live' = live \cup {n}, ready' = Tail(ready) \o <<StartHandle(n), CallbackHandle(t)>>,
           UNCHANGED <<running, done, waitFor, urbs>>
    PROVE  TransfersInv'
<1>1. /\ t \in TaskIds /\ t \in Nat /\ tasks[t] \in TaskRecords /\ TaskFits(tasks[t])
      /\ QueueOK(Tail(ready), tasks) /\ Absent(Tail(ready), "wake", t)
      /\ tasks \in Seq(TaskRecords) /\ DOMAIN tasks = TaskIds
  BY TurnProperties, TypeFacts DEF TaskKinds
<1>2. /\ n \in Nat /\ n \notin TaskIds /\ n # t /\ TaskIds' = TaskIds \cup {n}
      /\ tasks' \in Seq(TaskRecords) /\ Len(tasks') = n /\ DOMAIN tasks' = 1..n
      /\ tasks'[n] = task /\ tasks'[t] = Ended(outcome)
      /\ \A u \in TaskIds : u # t => tasks'[u] = tasks[u]
  <2>1. /\ n \in Nat /\ n \notin TaskIds /\ n # t /\ 1..n = TaskIds \cup {n}
        /\ tasks' \in Seq(TaskRecords) /\ Len(tasks') = n /\ DOMAIN tasks' = 1..n
        /\ tasks'[n] = task /\ tasks'[t] = Ended(outcome)
        /\ \A u \in TaskIds : u # t => tasks'[u] = tasks[u]
    BY <1>1, SucceedsTasks
  <2>2. TaskIds' = 1..n
    BY <2>1 DEF TaskIds
  <2> QED BY <2>1, <2>2
<1>3. TaskIds' = 1..n
  BY <1>2 DEF TaskIds
<1> DEFINE ts == [tasks EXCEPT ![t] = Ended(outcome)]
<1>4. QueueOK(Tail(ready), ts) /\ DOMAIN ts = TaskIds /\ \A u \in TaskIds : ts[u] = tasks'[u]
  <2>1. \A k \in TaskKinds : Absent(Tail(ready), k, t)
    BY <1>1, AbsentHandles DEF TaskKinds
  <2>2. QueueOK(Tail(ready), ts)
    BY <1>1, <2>1, TaskMoves
  <2> QED BY <1>1, <1>2, <2>2
<1> HIDE DEF ts
<1>5. QueueOK(Tail(ready), tasks')
  <2>1. DOMAIN ts \subseteq DOMAIN tasks' /\ \A u \in DOMAIN ts : tasks'[u] = ts[u]
    BY <1>2, <1>3, <1>4
  <2>2. QueueOK(Tail(ready), ts)
    BY <1>4
  <2> QED BY <2>1, <2>2, TasksAdded, Zenon
<1> DEFINE start == StartHandle(n)
           end   == CallbackHandle(t)
<1>6. /\ start \in Handles /\ start.kind = "start" /\ start.task = n /\ HandleFits(start, tasks')
      /\ Absent(Tail(ready), "start", n)
      /\ end \in Handles /\ end.kind = "callback" /\ end.task = t /\ HandleFits(end, tasks')
      /\ Absent(Tail(ready), "callback", t)
  <2>1. /\ KindFits("start", tasks'[n]) /\ KindFits("callback", tasks'[t])
        /\ n \in DOMAIN tasks' /\ t \in DOMAIN tasks'
    BY <1>1, <1>2, <1>3, EndedType DEF KindFits
  <2>2. Absent(Tail(ready), "start", n) /\ Absent(Tail(ready), "callback", t)
    BY <1>1, <1>2, AbsentHandles DEF TaskKinds
  <2> QED BY <1>1, <1>2, <2>1, <2>2, HandlesFit
<1>7. Absent(Append(Tail(ready), start), "callback", t)
  <2>1. Tail(ready) \in Seq(Handles)
    BY <1>1 DEF QueueOK
  <2>2. /\ DOMAIN Append(Tail(ready), start) = DOMAIN Tail(ready) \cup {Len(Tail(ready)) + 1}
        /\ \A i \in DOMAIN Tail(ready) : Append(Tail(ready), start)[i] = Tail(ready)[i]
        /\ Append(Tail(ready), start)[Len(Tail(ready)) + 1] = start
    <3> HIDE DEF start
    <3> QED BY <1>6, <2>1, AppendParts
  <2> HIDE DEF start
  <2> QED BY <1>6, <2>2 DEF Absent
<1>8. ready' = Append(Append(Tail(ready), start), end)
  <2>1. Tail(ready) \in Seq(Handles)
    BY <1>1 DEF QueueOK
  <2>2. ready' = Tail(ready) \o <<start, end>>
    OBVIOUS
  <2> HIDE DEF start, end
  <2> QED BY <1>6, <2>1, <2>2, AppendTwo
<1> HIDE DEF start, end
<1>9. QueueOK(ready', tasks')
  <2>1. QueueOK(Append(Tail(ready), start), tasks')
    BY <1>5, <1>6, QueueAppend
  <2> QED BY <1>6, <1>7, <1>8, <2>1, QueueAppend
<1>10. \A u \in 1..n : TaskFits(tasks'[u])
  <2>1. TaskFits(Ended(outcome)) /\ TaskFits(task)
    BY EndedType DEF TaskFits
  <2>2. \A u \in TaskIds : TaskFits(tasks[u])
    BY TypeFacts
  <2> QED BY <1>2, <1>3, <2>1, <2>2
<1>11. \A u \in TaskIds : tasks[u].urb = "submitted" => tasks'[u] = tasks[u]
  BY <1>1, <1>2 DEF TaskFits
<1>12. TaskIds \subseteq 1..n /\ live' \subseteq 1..n
  BY <1>2, <1>3 DEF TransfersInv, TransfersType
<1>13. running' \in Callers \cup {NoCaller} /\ done' \in Seq(TaskIds)
  BY DEF TransfersInv, TransfersType
<1> QED BY <1>2, <1>9, <1>10, <1>11, <1>12, <1>13, TasksGrow

--------------------------------------------------------------------------------
(* cancel() *)

LEMMA CancelledProperties ==
    ASSUME TransfersInv
    PROVE  /\ Cancelled \in Seq(TaskRecords) /\ Len(Cancelled) = Len(tasks)
           /\ DOMAIN Cancelled = TaskIds
           /\ \A t \in TaskIds :
                 /\ Cancelled[t].urb = tasks[t].urb /\ Cancelled[t].outcome = tasks[t].outcome
                 /\ Cancelled[t].from = tasks[t].from /\ Cancelled[t].to = tasks[t].to
                 /\ Cancelled[t].state = IF t \in Interrupted THEN "cancelled" ELSE tasks[t].state
                 /\ Cancelled[t].mustCancel =
                       (tasks[t].mustCancel \/
                        (t \in live /\ tasks[t].state \in {"created", "notified", "completed"}))
           /\ Interrupted \subseteq TaskIds
           /\ \A t \in Interrupted : tasks[t].state \in {"waiting", "inflight"}
<1>1. /\ tasks \in Seq(TaskRecords) /\ Len(tasks) \in Nat /\ live \subseteq TaskIds
      /\ \A t \in TaskIds : tasks[t] \in TaskRecords
      /\ TaskIds = 1..Len(tasks)
  BY TypeFacts DEF TransfersInv, TransfersType
<1>3. ASSUME NEW task \in TaskRecords
      PROVE  /\ Cancel(task) \in TaskRecords
             /\ Cancel(task).urb = task.urb /\ Cancel(task).outcome = task.outcome
             /\ Cancel(task).from = task.from /\ Cancel(task).to = task.to
             /\ Cancel(task).state = IF task.state \in {"waiting", "inflight"} THEN "cancelled"
                                     ELSE task.state
             /\ Cancel(task).mustCancel = (task.mustCancel \/
                                           task.state \in {"created", "notified", "completed"})
  <2>0. task.mustCancel \in BOOLEAN
    BY DEF TaskRecords
  <2>1. CASE task.state \in {"created", "notified", "completed"}
    <3>1. Cancel(task) = [task EXCEPT !.mustCancel = TRUE]
      BY <2>1 DEF Cancel
    <3> QED BY <2>1, <3>1 DEF TaskRecords
  <2>2. CASE task.state \in {"waiting", "inflight"}
    <3>1. Cancel(task) = [task EXCEPT !.state = "cancelled"]
      BY <2>2 DEF Cancel
    <3> QED BY <2>0, <2>2, <3>1 DEF TaskRecords, TaskState
  <2>3. CASE task.state \notin {"created", "notified", "completed", "waiting", "inflight"}
    <3>1. Cancel(task) = task
      BY <2>3 DEF Cancel
    <3> QED BY <2>0, <2>3, <3>1
  <2> QED BY <2>1, <2>2, <2>3
<1>4. \A t \in TaskIds : tasks[t].mustCancel \in BOOLEAN
  BY <1>1 DEF TaskRecords
<1>5. /\ \A t \in TaskIds : Cancelled[t] = IF t \in live THEN Cancel(tasks[t]) ELSE tasks[t]
      /\ DOMAIN Cancelled = TaskIds
  BY DEF Cancelled
<1>6. Cancelled \in Seq(TaskRecords) /\ Len(Cancelled) = Len(tasks)
  <2>1. Cancelled \in [1..Len(tasks) -> TaskRecords]
    BY <1>1, <1>3 DEF Cancelled
  <2> QED BY <1>1, <2>1
<1>7. /\ \A t \in TaskIds : t \in Interrupted <=> t \in live /\ tasks[t].state \in {"waiting", "inflight"}
      /\ Interrupted \subseteq TaskIds
      /\ \A t \in Interrupted : tasks[t].state \in {"waiting", "inflight"}
  BY <1>1 DEF Interrupted
<1>8. ASSUME NEW t \in TaskIds
      PROVE  /\ Cancelled[t].urb = tasks[t].urb /\ Cancelled[t].outcome = tasks[t].outcome
             /\ Cancelled[t].from = tasks[t].from /\ Cancelled[t].to = tasks[t].to
             /\ Cancelled[t].state = IF t \in Interrupted THEN "cancelled" ELSE tasks[t].state
             /\ Cancelled[t].mustCancel =
                   (tasks[t].mustCancel \/
                    (t \in live /\ tasks[t].state \in {"created", "notified", "completed"}))
  <2>1. CASE t \in live
    BY <1>1, <1>3, <1>5, <1>7, <2>1
  <2>2. CASE t \notin live
    BY <1>4, <1>5, <1>7, <2>2
  <2> QED BY <2>1, <2>2
<1> QED BY <1>5, <1>6, <1>7, <1>8

(* The wake-ups of the interrupted tasks, in whatever order. *)
LEMMA WakeUps ==
    ASSUME TransfersInv, NEW order \in Orders(Interrupted)
    PROVE  LET w == [i \in DOMAIN order |-> WakeHandle(order[i])]
           IN  /\ w \in Seq(Handles) /\ QueueOK(w, Cancelled)
               /\ \A i \in DOMAIN w : w[i].kind = "wake" /\ w[i].task \in Interrupted
<1> DEFINE k == Cardinality(Interrupted)
           w == [i \in DOMAIN order |-> WakeHandle(order[i])]
<1>1. /\ Len(tasks) \in Nat /\ Interrupted \subseteq TaskIds /\ DOMAIN Cancelled = TaskIds
      /\ \A t \in Interrupted : Cancelled[t].state = "cancelled"
      /\ TaskIds = 1..Len(tasks)
  BY CancelledProperties, TypeFacts
<1>2. k \in Nat
  <2>1. IsFiniteSet(TaskIds)
    BY <1>1, FS_Interval
  <2> QED BY <1>1, <2>1, FS_Subset, FS_CardinalityType
<1>3. /\ order \in [1..k -> Interrupted]
      /\ \A i, j \in 1..k : order[i] = order[j] => i = j
  BY DEF Orders
<1> HIDE DEF k
<1>4. ASSUME NEW i \in 1..k
      PROVE  /\ w[i] \in Handles /\ w[i].kind = "wake" /\ w[i].task = order[i]
             /\ HandleFits(w[i], Cancelled) /\ order[i] \in Interrupted
  <2>1. order[i] \in Interrupted /\ w[i] = WakeHandle(order[i])
    BY <1>3
  <2> HIDE DEF w
  <2>2. PICK t \in Interrupted : t = order[i]
    BY <2>1
  <2>3. t \in Nat /\ t \in DOMAIN Cancelled /\ KindFits("wake", Cancelled[t])
    BY <1>1 DEF KindFits
  <2>4. /\ WakeHandle(t) \in Handles /\ WakeHandle(t).kind = "wake"
        /\ WakeHandle(t).task = t /\ HandleFits(WakeHandle(t), Cancelled)
    BY <2>3, HandlesFit
  <2> QED BY <2>1, <2>2, <2>4
<1>5. w \in Seq(Handles) /\ DOMAIN w = 1..k
  <2>1. w \in [1..k -> Handles] /\ DOMAIN w = 1..k
    BY <1>3, <1>4
  <2> HIDE DEF w
  <2> QED BY <1>2, <2>1
<1> HIDE DEF w
<1>6. QueueOK(w, Cancelled)
  <2>1. Once(w)
    BY <1>3, <1>4, <1>5 DEF Once
  <2>2. \A i \in DOMAIN w : HandleFits(w[i], Cancelled)
    BY <1>4, <1>5
  <2> QED BY <1>5, <2>1, <2>2 DEF QueueOK
<1>7. \A i \in DOMAIN w : w[i].kind = "wake" /\ w[i].task \in Interrupted
  BY <1>4, <1>5
<1> QED BY <1>5, <1>6, <1>7, Zenon DEF w

(* The queue that cancel() leaves behind, before it waits. *)
WokenQueue(q) ==
    /\ QueueOK(q, Cancelled)
    /\ \A i \in DOMAIN q : (i \in DOMAIN ready /\ q[i] = ready[i]) \/ q[i].kind = "wake"

LEMMA WokenQueues ==
    ASSUME TransfersInv
    PROVE  /\ WokenQueue(ready)
           /\ \A order \in Orders(Interrupted) :
                 WokenQueue(ready \o [i \in DOMAIN order |-> WakeHandle(order[i])])
<1>1. /\ ready \in Seq(Handles) /\ QueueOK(ready, tasks) /\ DOMAIN Cancelled = TaskIds
      /\ DOMAIN tasks = TaskIds
      /\ \A t \in TaskIds :
            /\ tasks[t] \in TaskRecords
            /\ Cancelled[t].urb = tasks[t].urb
            /\ Cancelled[t].state = IF t \in Interrupted THEN "cancelled" ELSE tasks[t].state
      /\ \A t \in Interrupted : t \in TaskIds /\ tasks[t].state \in {"waiting", "inflight"}
  BY TypeFacts, CancelledProperties
<1>2. QueueOK(ready, Cancelled)
  <2>1. ASSUME NEW i \in DOMAIN ready PROVE HandleFits(ready[i], Cancelled)
    <3>1. HandleFits(ready[i], tasks)
      BY <1>1 DEF QueueOK
    <3>2. ready[i].task \in TaskIds => Cancelled[ready[i].task].urb = tasks[ready[i].task].urb
      BY <1>1
    <3>3. ready[i].task \in TaskIds =>
            \/ Cancelled[ready[i].task].state = tasks[ready[i].task].state
            \/ /\ Cancelled[ready[i].task].state = "cancelled"
               /\ tasks[ready[i].task].state \in {"waiting", "inflight"}
      BY <1>1
    <3> QED BY <1>1, <3>1, <3>2, <3>3 DEF HandleFits, KindFits
  <2> QED BY <1>1, <2>1 DEF QueueOK
<1>3. ASSUME NEW order \in Orders(Interrupted)
      PROVE  WokenQueue(ready \o [i \in DOMAIN order |-> WakeHandle(order[i])])
  <2> DEFINE w == [i \in DOMAIN order |-> WakeHandle(order[i])]
             q == ready \o w
  <2>1. /\ w \in Seq(Handles) /\ QueueOK(w, Cancelled)
        /\ \A i \in DOMAIN w : w[i].kind = "wake" /\ w[i].task \in Interrupted
    BY WakeUps
  <2> HIDE DEF w
  <2>2. \A i \in DOMAIN w : Absent(ready, w[i].kind, w[i].task)
    <3> SUFFICES ASSUME NEW i \in DOMAIN w, NEW t, t = w[i].task PROVE Absent(ready, "wake", t)
      BY <2>1
    <3>1. t \in TaskIds /\ tasks[t].state \in {"waiting", "inflight"}
      BY <1>1, <2>1
    <3>2. ~KindFits("wake", tasks[t])
      BY <3>1 DEF KindFits
    <3> QED BY <1>1, <3>2 DEF Absent, QueueOK, HandleFits, TaskKinds
  <2>3. QueueOK(q, Cancelled)
    BY <1>2, <2>1, <2>2, QueueConcat
  <2>4. \A i \in DOMAIN q : \/ i \in DOMAIN ready /\ q[i] = ready[i]
                            \/ i - Len(ready) \in DOMAIN w /\ q[i] = w[i - Len(ready)]
    BY <1>1, <2>1, ConcatParts
  <2> HIDE DEF q
  <2>5. WokenQueue(q)
    BY <2>1, <2>3, <2>4 DEF WokenQueue
  <2> QED BY <2>5 DEF q, w
<1>4. WokenQueue(ready)
  BY <1>2 DEF WokenQueue
<1> QED BY <1>3, <1>4

(* What cancel() does to the tasks and to the caller that called it. *)
LEMMA CancelQueueProperties ==
    ASSUME TransfersInv, NEW c \in Callers, CancelQueue(c)
    PROVE  /\ running = c /\ pc[c] = "run" /\ pc' = [pc EXCEPT ![c] = "cancel"]
           /\ \A d \in Callers : pc[d] # "cancel"
           /\ \A d \in Callers \ {c} : pc[d] \in {"idle", "called"}
           /\ tasks' = Cancelled /\ UNCHANGED <<live, done, urbs>>
           /\ \/ live = {} /\ UNCHANGED <<ready, running, waitFor>>
              \/ live # {} /\ \E q : WokenQueue(q) /\ AsyncioWait(c, Over, q)
<1>1. CASE live = {}
  BY <1>1 DEF CancelQueue, Calls
<1>2. CASE live # {}
  <2>1. PICK order \in Orders(Interrupted) :
           AsyncioWait(c, Over, ready \o [i \in DOMAIN order |-> WakeHandle(order[i])])
    BY <1>2 DEF CancelQueue
  <2>2. WokenQueue(ready \o [i \in DOMAIN order |-> WakeHandle(order[i])])
    BY WokenQueues
  <2>3. \E q : WokenQueue(q) /\ AsyncioWait(c, Over, q)
    BY <2>1, <2>2, Zenon
  <2> QED BY <1>2, <2>3 DEF CancelQueue, Calls
<1> QED BY <1>1, <1>2

LEMMA CancelQueueInv ==
    ASSUME TransfersInv, NEW c \in Callers, CancelQueue(c)
    PROVE  TransfersInv' /\ TaskIds' = TaskIds
<1>1. /\ tasks' = Cancelled /\ UNCHANGED <<live, done, urbs>> /\ running = c
      /\ \/ live = {} /\ UNCHANGED <<ready, running, waitFor>>
         \/ live # {} /\ \E q : WokenQueue(q) /\ AsyncioWait(c, Over, q)
  BY CancelQueueProperties
<1>2. /\ tasks' \in Seq(TaskRecords) /\ Len(tasks') = Len(tasks) /\ DOMAIN tasks' = TaskIds
      /\ \A t \in TaskIds :
            /\ tasks'[t].urb = tasks[t].urb /\ tasks'[t].outcome = tasks[t].outcome
            /\ tasks'[t].state = IF t \in Interrupted THEN "cancelled" ELSE tasks[t].state
      /\ \A t \in Interrupted : tasks[t].state \in {"waiting", "inflight"}
  BY <1>1, CancelledProperties
<1>3. TaskIds' = TaskIds
  BY <1>2 DEF TaskIds
<1>4. QueueOK(ready', tasks') /\ waitFor' \in [Callers -> SUBSET (TaskIds \cup {Late})]
      /\ running' \in Callers \cup {NoCaller}
  <2>1. live \subseteq TaskIds /\ waitFor \in [Callers -> SUBSET (TaskIds \cup {Late})]
    BY DEF TransfersInv, TransfersType
  <2>2. CASE live = {} /\ UNCHANGED <<ready, running, waitFor>>
    BY <1>1, <2>1, <2>2, WokenQueues DEF WokenQueue
  <2>3. ASSUME NEW q, WokenQueue(q), AsyncioWait(c, Over, q)
        PROVE  /\ QueueOK(ready', tasks') /\ waitFor' \in [Callers -> SUBSET (TaskIds \cup {Late})]
               /\ running' \in Callers \cup {NoCaller}
    <3>1. QueueOK(q, Cancelled)
      BY <2>3 DEF WokenQueue
    <3> QED BY <1>1, <2>1, <2>3, <3>1, Suspends
  <2> QED BY <1>1, <2>2, <2>3
<1>5. \A t \in TaskIds : TaskFits(tasks[t])'
  <2> SUFFICES ASSUME NEW t \in TaskIds PROVE TaskFits(tasks[t])'
    OBVIOUS
  <2>1. TaskFits(tasks[t])
    BY TypeFacts
  <2> QED BY <1>2, <2>1 DEF TaskFits
<1>6. UrbsFit'
  <2>1. \A i \in DOMAIN urbs : urbs[i] \in TaskIds /\ tasks[urbs[i]].urb = "submitted"
    BY TypeFacts
  <2> QED BY <1>1, <1>2, <2>1 DEF UrbsFit, TransfersInv
<1>7. TransfersType'
  BY <1>1, <1>2, <1>3, <1>4 DEF TransfersType, TransfersInv
<1> QED BY <1>3, <1>4, <1>5, <1>6, <1>7 DEF TransfersInv

--------------------------------------------------------------------------------
(* The callers *)

Outside == {"idle", "called", "run"}

Names(h, c) == h.kind = "resume" /\ c \in h.who

(* A caller that is about to be resumed waits for nothing any more, and is *)
(* resumed once.                                                           *)
Resumes(q, p, w, r) ==
    \A c \in Callers, i \in DOMAIN q : Names(q[i], c) =>
        /\ w[c] = {} /\ p[c] # "idle" /\ r # c
        /\ \A j \in DOMAIN q : Names(q[j], c) => j = i

CallersFit ==
    /\ Resumes(ready, pc, waitFor, running)
    /\ \A c \in Callers : /\ running = c => waitFor[c] = {} /\ pc[c] # "idle"
                          /\ pc[c] \in Outside => waitFor[c] = {}
    /\ \A c, d \in Callers : pc[c] = "cancel" /\ c # d => pc[d] \in Outside

(* A handle that resumes nobody, or somebody no other handle resumes. *)
LEMMA ResumesAppend ==
    ASSUME NEW q \in Seq(Handles), NEW h \in Handles, NEW p, NEW w, NEW r, Resumes(q, p, w, r),
           \A c \in Callers : Names(h, c) =>
               /\ w[c] = {} /\ p[c] # "idle" /\ r # c
               /\ \A i \in DOMAIN q : ~Names(q[i], c)
    PROVE  Append(q, h) \in Seq(Handles) /\ Resumes(Append(q, h), p, w, r)
<1>1. /\ Append(q, h) \in Seq(Handles) /\ Len(Append(q, h)) = Len(q) + 1
      /\ \A i \in 1..Len(q) : Append(q, h)[i] = q[i]
      /\ Append(q, h)[Len(q) + 1] = h
  BY AppendProperties
<1>2. DOMAIN q = 1..Len(q) /\ DOMAIN Append(q, h) = 1..(Len(q) + 1) /\ Len(q) \in Nat
  BY <1>1, LenProperties
<1>3. Resumes(Append(q, h), p, w, r)
  BY <1>1, <1>2 DEF Resumes
<1> QED BY <1>1, <1>3

LEMMA ResumesTail ==
    ASSUME NEW q \in Seq(Handles), q # <<>>, NEW p, NEW w, NEW r, Resumes(q, p, w, r)
    PROVE  /\ Head(q) \in Handles /\ Tail(q) \in Seq(Handles) /\ Resumes(Tail(q), p, w, r)
           /\ \A c \in Callers : Names(Head(q), c) =>
                 /\ w[c] = {} /\ p[c] # "idle" /\ r # c
                 /\ \A i \in DOMAIN Tail(q) : ~Names(Tail(q)[i], c)
           /\ \A c \in Callers : (\A i \in DOMAIN q : ~Names(q[i], c))
                 => \A i \in DOMAIN Tail(q) : ~Names(Tail(q)[i], c)
<1>1. /\ Head(q) \in Handles /\ Tail(q) \in Seq(Handles) /\ Len(Tail(q)) = Len(q) - 1
      /\ \A i \in 1..Len(Tail(q)) : Tail(q)[i] = q[i + 1]
  BY HeadTailProperties
<1>2. DOMAIN q = 1..Len(q) /\ DOMAIN Tail(q) = 1..Len(Tail(q)) /\ Len(q) \in Nat /\ Len(q) >= 1
  BY <1>1, LenProperties, EmptySeq
<1>3. Head(q) = q[1]
  BY <1>2
<1>4. \A i \in DOMAIN Tail(q) : i + 1 \in DOMAIN q /\ Tail(q)[i] = q[i + 1] /\ i + 1 # 1 /\ i \in Nat
  BY <1>1, <1>2
<1>5. Resumes(Tail(q), p, w, r)
  BY <1>4 DEF Resumes
<1>6. \A c \in Callers : Names(Head(q), c) =>
         /\ w[c] = {} /\ p[c] # "idle" /\ r # c
         /\ \A i \in DOMAIN Tail(q) : ~Names(Tail(q)[i], c)
  BY <1>2, <1>3, <1>4 DEF Resumes
<1> QED BY <1>1, <1>4, <1>5, <1>6

(* The rest of a handle that resumes several callers. *)
LEMMA ResumesCons ==
    ASSUME NEW q \in Seq(Handles), NEW h \in Handles, NEW p, NEW w, NEW r, Resumes(q, p, w, r),
           \A c \in Callers : Names(h, c) =>
               /\ w[c] = {} /\ p[c] # "idle" /\ r # c
               /\ \A i \in DOMAIN q : ~Names(q[i], c)
    PROVE  Resumes(<<h>> \o q, p, w, r)
<1> DEFINE s == <<h>> \o q
<1>1. <<h>> \in Seq(Handles) /\ Len(<<h>>) = 1 /\ <<h>>[1] = h
  OBVIOUS
<1>2. /\ s \in Seq(Handles) /\ Len(s) = Len(<<h>>) + Len(q)
      /\ \A i \in 1..(Len(<<h>>) + Len(q)) :
            s[i] = IF i <= Len(<<h>>) THEN <<h>>[i] ELSE q[i - Len(<<h>>)]
  BY <1>1, ConcatProperties
<1>3. Len(q) \in Nat /\ DOMAIN q = 1..Len(q) /\ DOMAIN s = 1..(1 + Len(q))
  BY <1>1, <1>2, LenProperties
<1> HIDE DEF s
<1>4. \A i \in DOMAIN s : i \in Nat /\ IF i = 1 THEN s[i] = h ELSE i - 1 \in DOMAIN q /\ s[i] = q[i - 1]
  BY <1>1, <1>2, <1>3
<1>5. Resumes(s, p, w, r)
  BY <1>3, <1>4 DEF Resumes
<1> QED BY <1>5 DEF s

(* Most handles resume nobody. *)
LEMMA OtherHandles ==
    ASSUME NEW q \in Seq(Handles), NEW h \in Handles, h.kind # "resume",
           Resumes(q, pc, waitFor, running)
    PROVE  /\ Append(q, h) \in Seq(Handles) /\ Resumes(Append(q, h), pc, waitFor, running)
           /\ q # <<>> => Tail(q) \in Seq(Handles) /\ Resumes(Tail(q), pc, waitFor, running)
  BY ResumesAppend, ResumesTail DEF Names

LEMMA ResumesConcat ==
    ASSUME NEW q \in Seq(Handles), NEW w \in Seq(Handles), NEW p, NEW f, NEW r,
           Resumes(q, p, f, r), \A i \in DOMAIN w : w[i].kind # "resume"
    PROVE  Resumes(q \o w, p, f, r)
<1> DEFINE s == q \o w
<1>1. \A i \in DOMAIN s : \/ i \in DOMAIN q /\ s[i] = q[i]
                          \/ i - Len(q) \in DOMAIN w /\ s[i] = w[i - Len(q)]
  BY ConcatParts
<1> HIDE DEF s
<1>2. \A i \in DOMAIN s : \A c \in Callers : Names(s[i], c) => i \in DOMAIN q /\ s[i] = q[i]
  BY <1>1 DEF Names
<1>3. Resumes(s, p, f, r)
  BY <1>2 DEF Resumes
<1> QED BY <1>3 DEF s

(* A caller that runs moves on. *)
LEMMA RunnerMoves ==
    ASSUME CallersFit, NEW c \in Callers, running = c, UNCHANGED <<running, waitFor>>,
           Resumes(ready', pc, waitFor, running),
           pc'[c] # "idle", pc'[c] # "cancel",
           pc[c] \notin Outside \/ \A d \in Callers : pc[d] # "cancel",
           \A d \in Callers : d # c => pc'[d] = pc[d]
    PROVE  CallersFit'
<1>1. Resumes(ready', pc', waitFor', running')
  BY DEF Resumes
<1>2. \A d \in Callers : d # c => pc[d] # "cancel" \/ pc[c] \in Outside
  BY DEF CallersFit
<1> QED BY <1>1, <1>2 DEF CallersFit

(* A caller that runs suspends, in wait_one(), wait_all() or cancel(). *)
LEMMA RunnerWaits ==
    ASSUME TransfersInv, CallersFit, NEW c \in Callers, running = c,
           NEW q \in Seq(Handles), Resumes(q, pc, waitFor, running), AsyncioWait(c, Over, q),
           pc'[c] \notin Outside,
           pc'[c] = "cancel" => \A d \in Callers : d # c => pc[d] \in Outside,
           pc[c] \notin Outside \/ \A d \in Callers : pc[d] # "cancel",
           \A d \in Callers : d # c => pc'[d] = pc[d]
    PROVE  CallersFit'
<1>1. running' = NoCaller /\ NoCaller \notin Callers
  BY CallersAssumption DEF AsyncioWait
<1>2. \A d \in Callers : d # c => waitFor'[d] = waitFor[d]
  BY DEF AsyncioWait, TransfersInv, TransfersType
<1>3. Resumes(q, pc', waitFor', running')
  BY <1>1, <1>2 DEF Resumes
<1>4. Resumes(ready', pc', waitFor', running')
  <2> DEFINE h == Handle("completed", 0, {c})
  <2>1. h \in Handles /\ h.kind = "completed"
    BY DEF Handle, Handles, Kinds
  <2>2. ready' = q \/ ready' = Append(q, h)
    BY DEF AsyncioWait
  <2> HIDE DEF h
  <2> QED BY <1>3, <2>1, <2>2, ResumesAppend DEF Names
<1>5. \A d \in Callers : d # c => pc[d] # "cancel" \/ pc[c] \in Outside
  BY DEF CallersFit
<1> QED BY <1>1, <1>2, <1>4, <1>5 DEF CallersFit, Outside

(* The event loop runs a handle that resumes nobody. *)
LEMMA LoopKeeps ==
    ASSUME CallersFit, UNCHANGED <<running, pc, waitFor>>, Resumes(ready', pc, waitFor, running)
    PROVE  CallersFit'
  BY DEF CallersFit

(* Waits end, and the callers whose waits they were are to be resumed. *)
LEMMA CompletedCallers ==
    ASSUME TransfersInv, CallersFit, NEW kind \in {"callback", "completed"}, Turn(kind),
           NEW x, NEW who \in SUBSET Callers, Completed(x, who), UNCHANGED <<running, pc>>
    PROVE  CallersFit'
<1> DEFINE woken == WaitEnds(x, who)
           h == Handle("resume", 0, woken)
<1>1. /\ ready \in Seq(Handles) /\ ready # <<>> /\ running = NoCaller /\ NoCaller \notin Callers
      /\ Resumes(ready, pc, waitFor, running)
  BY CallersAssumption, TypeFacts DEF Turn, CallersFit
<1>2. /\ woken \in SUBSET Callers /\ h \in Handles
      /\ \A c \in Callers : Names(h, c) <=> c \in woken
      /\ \A c \in woken : waitFor[c] # {} /\ pc[c] \notin Outside /\ waitFor'[c] = {}
  BY DEF WaitEnds, Handle, Handles, Kinds, Completed, CallersFit, Names
<1>3. \A c \in Callers : waitFor[c] = {} => waitFor'[c] = {}
  BY DEF Completed
<1>4. Tail(ready) \in Seq(Handles) /\ Resumes(Tail(ready), pc, waitFor, running)
  BY <1>1, ResumesTail
<1>5. Resumes(Tail(ready), pc', waitFor', running')
  BY <1>3, <1>4 DEF Resumes
<1>6. ready' = Tail(ready) \/ ready' = Append(Tail(ready), h)
  BY DEF Completed
<1>7. Resumes(ready', pc', waitFor', running')
  <2>1. ASSUME NEW c \in Callers, Names(h, c)
        PROVE  /\ waitFor'[c] = {} /\ pc'[c] # "idle" /\ running' # c
               /\ \A i \in DOMAIN Tail(ready) : ~Names(Tail(ready)[i], c)
    <3>1. waitFor[c] # {} /\ pc[c] \notin Outside /\ waitFor'[c] = {}
      BY <1>2, <2>1
    <3>2. \A i \in DOMAIN Tail(ready) : ~Names(Tail(ready)[i], c)
      BY <1>4, <3>1 DEF Resumes
    <3> QED BY <1>1, <3>1, <3>2 DEF Outside
  <2> HIDE DEF h
  <2>2. Resumes(Append(Tail(ready), h), pc', waitFor', running')
    BY <1>2, <1>4, <1>5, <2>1, ResumesAppend
  <2> QED BY <1>5, <1>6, <2>2
<1> QED BY <1>1, <1>3, <1>7 DEF CallersFit

LEMMA CallersCall ==
    ASSUME TransfersInv, CallersFit, NEW c \in Callers, NEW places, pc \in [Callers -> places],
           NEW op, Calls(c, op), op \notin {"idle", "cancel"}, UNCHANGED <<ready, running, waitFor>>
    PROVE  CallersFit'
<1>1. /\ running = c /\ pc'[c] = op /\ \A d \in Callers : d # c => pc'[d] = pc[d]
      /\ \A d \in Callers : pc[d] # "cancel"
      /\ Resumes(ready', pc, waitFor, running)
  BY DEF Calls, CallersFit
<1> QED BY <1>1, RunnerMoves

(* A caller inside the pipe, but not in cancel(), goes on or returns. *)
LEMMA CallersGo ==
    ASSUME TransfersInv, CallersFit, NEW c \in Callers, NEW places, pc \in [Callers -> places],
           running = c, pc[c] \notin Outside,
           \/ pc' = [pc EXCEPT ![c] = "run"]
           \/ pc' = pc /\ pc[c] # "cancel",
           UNCHANGED <<running, waitFor>>, Resumes(ready', pc, waitFor, running)
    PROVE  CallersFit'
<1>1. pc'[c] # "idle" /\ pc'[c] # "cancel" /\ \A d \in Callers : d # c => pc'[d] = pc[d]
  BY DEF Outside
<1> QED BY <1>1, RunnerMoves

LEMMA CallersWaitOne ==
    ASSUME TransfersInv, CallersFit, NEW c \in Callers, NEW places, pc \in [Callers -> places],
           running = c, pc[c] \notin Outside, pc[c] # "cancel", WaitOne(c)
    PROVE  CallersFit'
<1>1. ready \in Seq(Handles) /\ Resumes(ready, pc, waitFor, running)
  BY TypeFacts DEF CallersFit
<1>2. CASE AsyncioWait(c, Over, ready) /\ UNCHANGED pc
  BY <1>1, <1>2, RunnerWaits
<1>3. CASE /\ pc' = [pc EXCEPT ![c] = "run"] \/ pc' = pc
           /\ UNCHANGED <<ready, running, waitFor>>
  BY <1>1, <1>3, CallersGo
<1> QED BY <1>2, <1>3 DEF WaitOne, Poll

LEMMA CallersWake ==
    ASSUME TransfersInv, CallersFit, NEW c \in Callers, NEW places, pc \in [Callers -> places],
           CallerWakes(c)
    PROVE  CallersFit'
<1>0. ready \in Seq(Handles) /\ Resumes(ready, pc, waitFor, running)
  BY TypeFacts DEF CallersFit
<1>1. /\ pc[c] = "idle" /\ UNCHANGED <<running, waitFor>> /\ pc'[c] = "called"
      /\ \A d \in Callers : d # c => pc'[d] = pc[d]
  BY DEF CallerWakes
<1>2. running # c /\ waitFor[c] = {} /\ \A i \in DOMAIN ready : ~Names(ready[i], c)
  BY <1>0, <1>1 DEF CallersFit, Outside, Resumes
<1>3. Resumes(ready, pc', waitFor', running')
  BY <1>0, <1>1, <1>2 DEF Resumes
<1> DEFINE h == Handle("resume", 0, {c})
<1>4. h \in Handles /\ \A d \in Callers : Names(h, d) => d = c
  BY DEF Handle, Handles, Kinds, Names
<1>5. ready' = Append(ready, h)
  BY DEF CallerWakes
<1> HIDE DEF h
<1>6. \A d \in Callers : Names(h, d) =>
         /\ waitFor'[d] = {} /\ pc'[d] # "idle" /\ running' # d
         /\ \A i \in DOMAIN ready : ~Names(ready[i], d)
  BY <1>1, <1>2, <1>4
<1>7. Resumes(ready', pc', waitFor', running')
  BY <1>0, <1>3, <1>4, <1>5, <1>6, ResumesAppend
<1> QED BY <1>1, <1>2, <1>7 DEF CallersFit, Outside

LEMMA CallersYield ==
    ASSUME TransfersInv, CallersFit, NEW c \in Callers, NEW places, pc \in [Callers -> places],
           Yield(c)
    PROVE  CallersFit'
<1>1. /\ pc[c] = "run" /\ running = c /\ running' = NoCaller /\ UNCHANGED <<ready, waitFor>>
      /\ pc'[c] = "idle" /\ \A d \in Callers : d # c => pc'[d] = pc[d]
      /\ NoCaller \notin Callers
  BY CallersAssumption DEF Yield
<1>2. Resumes(ready', pc', waitFor', running')
  BY <1>1 DEF Resumes, CallersFit
<1> QED BY <1>1, <1>2 DEF CallersFit, Outside

LEMMA CallersResume ==
    ASSUME TransfersInv, CallersFit, NEW c \in Callers, NEW places, pc \in [Callers -> places],
           Resume(c)
    PROVE  CallersFit'
<1>1. /\ ready \in Seq(Handles) /\ ready # <<>> /\ Resumes(ready, pc, waitFor, running)
      /\ running = NoCaller /\ NoCaller \notin Callers
      /\ Head(ready).kind = "resume" /\ c \in Head(ready).who
      /\ running' = c /\ UNCHANGED waitFor
  BY CallersAssumption, TypeFacts DEF CallersFit, Resume, Turn
<1>2. /\ Head(ready) \in Handles /\ Tail(ready) \in Seq(Handles)
      /\ Resumes(Tail(ready), pc, waitFor, running)
      /\ \A d \in Callers : d \in Head(ready).who =>
            /\ waitFor[d] = {} /\ pc[d] # "idle"
            /\ \A i \in DOMAIN Tail(ready) : ~Names(Tail(ready)[i], d)
  BY <1>1, ResumesTail DEF Names
<1>3. /\ \A d \in Callers : d # c => pc'[d] = pc[d]
      /\ pc'[c] # "idle" /\ (pc'[c] = "cancel" => pc[c] = "cancel")
      /\ pc[c] \in Outside => pc'[c] \in Outside
  BY <1>1, <1>2 DEF Resume, Poll, Outside
<1>4. Resumes(Tail(ready), pc', waitFor', running')
  BY <1>1, <1>2, <1>3 DEF Resumes
<1>5. Resumes(ready', pc', waitFor', running')
  <2> DEFINE who == Head(ready).who \ {c}
             h == Handle("resume", 0, who)
  <2>1. h \in Handles /\ \A d \in Callers : Names(h, d) => d \in Head(ready).who /\ d # c
    BY <1>2 DEF Handle, Handles, Kinds, Names
  <2>2. ready' = Tail(ready) \/ ready' = <<h>> \o Tail(ready)
    BY DEF Resume, RestOfResume
  <2> HIDE DEF h
  <2>3. \A d \in Callers : Names(h, d) =>
           /\ waitFor'[d] = {} /\ pc'[d] # "idle" /\ running' # d
           /\ \A i \in DOMAIN Tail(ready) : ~Names(Tail(ready)[i], d)
    BY <1>1, <1>2, <1>3, <2>1
  <2>4. Resumes(<<h>> \o Tail(ready), pc', waitFor', running')
    BY <1>2, <1>4, <2>1, <2>3, ResumesCons
  <2> QED BY <1>4, <2>2, <2>4
<1>6. \A d \in Callers : pc'[d] = "cancel" => pc[d] = "cancel"
  BY <1>3
<1>7. \A d \in Callers : pc[d] \in Outside => pc'[d] \in Outside
  BY <1>3
<1>8. \A d \in Callers : pc'[d] \in Outside => waitFor'[d] = {}
  BY <1>1, <1>2, <1>3 DEF CallersFit
<1> QED BY <1>1, <1>2, <1>3, <1>5, <1>6, <1>7, <1>8 DEF CallersFit

LEMMA CallersCancel ==
    ASSUME TransfersInv, CallersFit, NEW c \in Callers, NEW places, pc \in [Callers -> places],
           CancelQueue(c)
    PROVE  CallersFit'
<1>1. /\ running = c /\ pc[c] = "run" /\ \A d \in Callers : pc[d] # "cancel"
      /\ \A d \in Callers : d # c => pc[d] \in Outside
      /\ pc'[c] = "cancel" /\ \A d \in Callers : d # c => pc'[d] = pc[d]
      /\ \/ live = {} /\ UNCHANGED <<ready, running, waitFor>>
         \/ live # {} /\ \E q : WokenQueue(q) /\ AsyncioWait(c, Over, q)
  BY CancelQueueProperties DEF Outside
<1>2. CASE UNCHANGED <<ready, running, waitFor>>
  <2>1. Resumes(ready', pc', waitFor', running')
    BY <1>1, <1>2 DEF CallersFit, Resumes
  <2> QED BY <1>1, <1>2, <2>1 DEF CallersFit, Outside
<1>3. ASSUME NEW q, WokenQueue(q), AsyncioWait(c, Over, q) PROVE CallersFit'
  <2>1. /\ q \in Seq(Handles)
        /\ \A d \in Callers, i \in DOMAIN q :
              Names(q[i], d) => i \in DOMAIN ready /\ Names(ready[i], d)
    BY <1>3 DEF WokenQueue, QueueOK, Names
  <2>2. Resumes(q, pc, waitFor, running)
    BY <2>1 DEF CallersFit, Resumes
  <2>3. pc'[c] \notin Outside
    BY <1>1 DEF Outside
  <2> QED BY <1>1, <1>3, <2>1, <2>2, <2>3, RunnerWaits
<1> QED BY <1>1, <1>2, <1>3

(* The tasks and the controller resume nobody. *)
LEMMA CallersTransfers ==
    ASSUME TransfersInv, CallersFit, TransferCallback \/ UsbCancelled
    PROVE  CallersFit'
<1>1. UNCHANGED <<running, pc, waitFor>> /\ ready \in Seq(Handles)
      /\ Resumes(ready, pc, waitFor, running)
  BY TypeFacts DEF TransferCallback, UsbCancelled, CallersFit
<1>2. \A kind \in {"start", "usb", "wake", "callback"}, t \in Nat :
         Handle(kind, t, {}) \in Handles /\ Handle(kind, t, {}).kind # "resume"
  BY DEF Handle, Handles, Kinds
<1>3. CASE TransferCallback
  <2>1. Turn("usb") /\ ready # <<>> /\ (ready' = Tail(ready)
                        \/ ready' = Append(Tail(ready), Handle("wake", Head(ready).task, {})))
    BY <1>3 DEF TransferCallback, WakeHandle, Turn
  <2>2. Head(ready).task \in Nat /\ Tail(ready) \in Seq(Handles)
        /\ Resumes(Tail(ready), pc, waitFor, running)
    BY <1>1, <2>1, ResumesTail DEF Handles
  <2> QED BY <1>1, <1>2, <2>1, <2>2, OtherHandles, LoopKeeps
<1>4. CASE UsbCancelled
  <2>1. \E t \in Nat : ready' = Append(ready, Handle("usb", t, {}))
    BY <1>4, TypeFacts DEF UsbCancelled
  <2> QED BY <1>1, <1>2, <2>1, OtherHandles, LoopKeeps
<1> QED BY <1>3, <1>4

LEMMA CallersCompleted ==
    ASSUME TransfersInv, CallersFit, TaskCallback \/ LateCompleted
    PROVE  CallersFit'
<1>1. CASE TaskCallback
  <2>1. Turn("callback") /\ Completed(Head(ready).task, Callers) /\ UNCHANGED <<running, pc>>
    BY <1>1 DEF TaskCallback
  <2> QED BY <2>1, CompletedCallers
<1>2. CASE LateCompleted
  <2>1. Turn("completed") /\ Completed(Late, Head(ready).who) /\ UNCHANGED <<running, pc>>
    BY <1>2 DEF LateCompleted
  <2>2. Head(ready).who \in SUBSET Callers
    BY <2>1, QueueTail DEF Turn, TransfersInv, Handles
  <2> QED BY <2>1, <2>2, CompletedCallers
<1> QED BY <1>1, <1>2

--------------------------------------------------------------------------------
(* What cancel() waits for *)

(* A task that has been cancelled, whether or not it knows. *)
Doomed(t) == tasks[t].mustCancel \/ tasks[t].state \in {"cancelled", "cancelling", "retired"}

LiveFit == Unfinished \subseteq live

ResetInv ==
    /\ \A c \in Callers : pc[c] = "cancel" => \A t \in Unfinished : t \in waitFor[c] /\ Doomed(t)
    /\ (\A c \in Callers : pc[c] # "cancel") => \A t \in Unfinished : ~Doomed(t)

LEMMA ResetKept ==
    ASSUME ResetInv,
           \A c \in Callers : pc[c] = "cancel" <=> pc'[c] = "cancel",
           \A c \in Callers : pc[c] = "cancel" => \A t \in Unfinished : t \in waitFor'[c],
           \A t \in Unfinished' : \/ t \in Unfinished /\ (Doomed(t)' <=> Doomed(t))
                                  \/ (\A c \in Callers : pc[c] # "cancel") /\ ~Doomed(t)'
    PROVE  ResetInv'
<1>1. ASSUME NEW c \in Callers, pc'[c] = "cancel", NEW t \in Unfinished'
      PROVE  t \in waitFor'[c] /\ Doomed(t)'
  BY <1>1 DEF ResetInv
<1>2. ASSUME \A c \in Callers : pc'[c] # "cancel", NEW t \in Unfinished'
      PROVE  ~Doomed(t)'
  BY <1>2 DEF ResetInv
<1> QED BY <1>1, <1>2 DEF ResetInv

LEMMA TasksUnchanged ==
    ASSUME UNCHANGED tasks
    PROVE  /\ TaskIds' = TaskIds /\ Unfinished' = Unfinished /\ Over' = Over /\ Failed' = Failed
           /\ \A t : Doomed(t)' <=> Doomed(t)
  BY DEF Unfinished, Over, Failed, TaskIds, Doomed

(* The wait for the tasks that have not finished goes on. *)
LEMMA StillAwaited ==
    ASSUME TransfersInv, ResetInv, NEW c \in Callers, pc[c] = "cancel",
           \/ UNCHANGED waitFor
           \/ \E d \in Callers : d # c /\ \E q : AsyncioWait(d, Over, q)
           \/ \E x, who : x \notin Unfinished /\ Completed(x, who)
    PROVE  \A t \in Unfinished : t \in waitFor'[c]
<1>1. ASSUME NEW t \in Unfinished PROVE t \in waitFor'[c]
  <2>1. t \in waitFor[c] /\ waitFor \in [Callers -> SUBSET (TaskIds \cup {Late})]
    BY <1>1 DEF ResetInv, TransfersInv, TransfersType
  <2>2. CASE UNCHANGED waitFor
    BY <2>1, <2>2
  <2>3. ASSUME NEW d \in Callers, d # c, NEW q, AsyncioWait(d, Over, q)
        PROVE  t \in waitFor'[c]
    BY <2>1, <2>3 DEF AsyncioWait
  <2>4. ASSUME NEW x, NEW who, x \notin Unfinished, Completed(x, who)
        PROVE  t \in waitFor'[c]
    <3>1. x # t
      BY <1>1, <2>4
    <3>2. c \notin WaitEnds(x, who)
      BY <2>1, <3>1 DEF WaitEnds, WaitsForAll
    <3> QED BY <2>1, <2>4, <3>1, <3>2 DEF Completed
  <2> QED BY <2>2, <2>3, <2>4
<1> QED BY <1>1

(* Steps that leave the tasks alone. *)
LEMMA ResetSame ==
    ASSUME TransfersInv, ResetInv, LiveFit, UNCHANGED <<tasks, live>>, NEW c \in Callers,
           NEW places, pc \in [Callers -> places],
           pc' = pc \/ (pc[c] # "cancel" /\ \E op : op # "cancel" /\ pc' = [pc EXCEPT ![c] = op]),
           \/ UNCHANGED waitFor
           \/ (pc[c] # "cancel" /\ \E q : AsyncioWait(c, Over, q))
    PROVE  ResetInv' /\ LiveFit'
<1>1. \A d \in Callers : pc[d] = "cancel" <=> pc'[d] = "cancel"
  OBVIOUS
<1>2. \A d \in Callers : pc[d] = "cancel" => \A t \in Unfinished : t \in waitFor'[d]
  BY StillAwaited
<1>3. ResetInv'
  BY <1>1, <1>2, TasksUnchanged, ResetKept
<1> QED BY <1>3, TasksUnchanged DEF LiveFit

LEMMA ResetWakes ==
    ASSUME TransfersInv, ResetInv, LiveFit, UNCHANGED tasks, NEW c \in Callers,
           NEW places, pc \in [Callers -> places], CallerWakes(c) \/ Yield(c)
    PROVE  ResetInv' /\ LiveFit'
<1>1. UNCHANGED <<live, waitFor>> /\ pc[c] # "cancel" /\ "idle" # "cancel" /\ "called" # "cancel"
  BY DEF CallerWakes, Yield
<1>2. \E op : op # "cancel" /\ pc' = [pc EXCEPT ![c] = op]
  BY <1>1 DEF CallerWakes, Yield
<1> QED BY <1>1, <1>2, ResetSame

LEMMA ResetCalls ==
    ASSUME TransfersInv, ResetInv, LiveFit, UNCHANGED <<tasks, live, waitFor>>, NEW c \in Callers,
           NEW places, pc \in [Callers -> places], NEW op, op # "cancel", Calls(c, op)
    PROVE  ResetInv' /\ LiveFit'
<1>1. pc[c] # "cancel" /\ pc' = [pc EXCEPT ![c] = op]
  BY DEF Calls
<1> QED BY <1>1, ResetSame

LEMMA ResetWaitOne ==
    ASSUME TransfersInv, ResetInv, LiveFit, UNCHANGED <<tasks, live>>, NEW c \in Callers,
           NEW places, pc \in [Callers -> places], pc[c] # "cancel", WaitOne(c)
    PROVE  ResetInv' /\ LiveFit'
<1>1. pc' = pc \/ pc' = [pc EXCEPT ![c] = "run"]
  BY DEF WaitOne, Poll
<1>2. UNCHANGED waitFor \/ \E q : AsyncioWait(c, Over, q)
  BY DEF WaitOne
<1>3. "run" # "cancel"
  OBVIOUS
<1> QED BY <1>1, <1>2, <1>3, ResetSame

LEMMA ResetResumes ==
    ASSUME TransfersInv, ResetInv, LiveFit, NEW c \in Callers,
           NEW places, pc \in [Callers -> places], Resume(c)
    PROVE  ResetInv' /\ LiveFit'
<1>1. UNCHANGED <<tasks, live, waitFor>> /\ "run" # "cancel"
  BY DEF Resume
<1>2. CASE pc[c] = "cancel"
  BY <1>1, <1>2, ResetSame DEF Resume
<1>3. CASE pc[c] # "cancel"
  <2>1. pc' = pc \/ pc' = [pc EXCEPT ![c] = "run"]
    BY <1>3 DEF Resume, Poll
  <2>2. pc' = pc \/ (pc[c] # "cancel" /\ \E op : op # "cancel" /\ pc' = [pc EXCEPT ![c] = op])
    BY <1>1, <1>3, <2>1
  <2> QED BY <1>1, <2>2, ResetSame
<1> QED BY <1>2, <1>3

LEMMA ResetCompleted ==
    ASSUME TransfersInv, ResetInv, LiveFit, UNCHANGED tasks, TaskCallback \/ LateCompleted
    PROVE  ResetInv' /\ LiveFit'
<1>1. PICK x, who : x \notin Unfinished /\ Completed(x, who) /\ live \ {x} \subseteq live'
                    /\ UNCHANGED pc
  <2>1. CASE TaskCallback
    <3>1. tasks[Head(ready).task].state = "over"
      BY <2>1, TurnProperties DEF TaskCallback, KindFits, TaskKinds
    <3>2. Head(ready).task \notin Unfinished
      BY <3>1 DEF Unfinished, Over
    <3> QED BY <2>1, <3>2 DEF TaskCallback
  <2>2. CASE LateCompleted
    <3>1. Late \notin Unfinished
      BY TypeFacts DEF Unfinished
    <3> QED BY <2>2, <3>1 DEF LateCompleted
  <2> QED BY <2>1, <2>2
<1>2. \A d \in Callers : pc[d] = "cancel" => \A t \in Unfinished : t \in waitFor'[d]
  BY <1>1, StillAwaited
<1>3. ResetInv'
  BY <1>1, <1>2, TasksUnchanged, ResetKept
<1> QED BY <1>1, <1>3, TasksUnchanged DEF LiveFit

(* Every task that has not finished is cancelled, and awaited. *)
LEMMA ResetCancels ==
    ASSUME TransfersInv, ResetInv, LiveFit, NEW c \in Callers,
           NEW places, pc \in [Callers -> places], CancelQueue(c)
    PROVE  ResetInv' /\ LiveFit'
<1>1. /\ tasks' = Cancelled /\ UNCHANGED live /\ \A d \in Callers : pc[d] # "cancel"
      /\ pc' = [pc EXCEPT ![c] = "cancel"] /\ TaskIds' = TaskIds
      /\ live = {} \/ \E q : AsyncioWait(c, Over, q)
  BY CancelQueueProperties, CancelQueueInv
<1>2. Unfinished' = Unfinished
  BY <1>1, CancelledProperties DEF Unfinished, Over
<1>3. ASSUME NEW t \in Unfinished PROVE t \in waitFor'[c] /\ Doomed(t)'
  <2>1. t \in TaskIds /\ t \in live /\ t \notin Over /\ tasks[t].state # "over"
    BY <1>3 DEF LiveFit, Unfinished, Over
  <2>2. t \in waitFor'[c]
    BY <1>1, <2>1 DEF AsyncioWait, TransfersInv, TransfersType
  <2>3. /\ tasks[t].state \in TaskState
        /\ tasks'[t].state = IF t \in Interrupted THEN "cancelled" ELSE tasks[t].state
        /\ tasks'[t].mustCancel =
              (tasks[t].mustCancel \/
               (t \in live /\ tasks[t].state \in {"created", "notified", "completed"}))
    BY <1>1, <2>1, CancelledProperties, TypeFacts DEF TaskRecords
  <2>4. CASE tasks[t].state \in {"waiting", "inflight"}
    <3>1. t \in Interrupted
      BY <2>1, <2>4 DEF Interrupted
    <3> QED BY <2>2, <2>3, <3>1 DEF Doomed
  <2>5. CASE tasks[t].state \in {"created", "notified", "completed"}
    <3>1. tasks'[t].mustCancel
      BY <2>1, <2>3, <2>5
    <3> QED BY <2>2, <3>1 DEF Doomed
  <2>6. CASE tasks[t].state \in {"cancelled", "cancelling", "retired"}
    <3>1. t \notin Interrupted
      BY <2>6 DEF Interrupted
    <3>2. tasks'[t].state = tasks[t].state
      BY <2>3, <3>1
    <3> QED BY <2>2, <2>6, <3>2 DEF Doomed
  <2> QED BY <2>1, <2>3, <2>4, <2>5, <2>6 DEF TaskState
<1>4. \A d \in Callers : pc'[d] = "cancel" => d = c
  BY <1>1
<1>5. pc'[c] = "cancel"
  BY <1>1
<1>6. ResetInv'
  BY <1>2, <1>3, <1>4, <1>5 DEF ResetInv
<1> QED BY <1>1, <1>2, <1>6 DEF LiveFit

(* A task moves on, and is doomed if it was. *)
LEMMA ResetOneTask ==
    ASSUME TransfersInv, ResetInv, LiveFit, UNCHANGED <<pc, waitFor, live>>,
           NEW t \in TaskIds, NEW new \in TaskRecords, SetTask(t, new),
           tasks[t].state = "over" => new.state = "over",
           \/ new.state = "over"
           \/ new.mustCancel = tasks[t].mustCancel /\
              (new.state \in {"cancelled", "cancelling", "retired"} <=>
               tasks[t].state \in {"cancelled", "cancelling", "retired"})
    PROVE  ResetInv' /\ LiveFit'
<1>1. /\ TaskIds' = TaskIds /\ tasks'[t] = new /\ \A u \in TaskIds : u # t => tasks'[u] = tasks[u]
  BY TypeFacts, SetTaskProperties
<1>2. ASSUME NEW u \in Unfinished' PROVE u \in Unfinished /\ (Doomed(u)' <=> Doomed(u))
  <2>1. u \in TaskIds /\ tasks'[u].state # "over"
    BY <1>1, <1>2 DEF Unfinished, Over
  <2>2. CASE u = t
    BY <1>1, <2>1, <2>2 DEF Unfinished, Over, Doomed
  <2>3. CASE u # t
    BY <1>1, <2>1, <2>3 DEF Unfinished, Over, Doomed
  <2> QED BY <2>2, <2>3
<1>3. ResetInv'
  BY <1>2, ResetKept DEF ResetInv
<1> QED BY <1>2, <1>3 DEF LiveFit

LEMMA ResetTransfers ==
    ASSUME TransfersInv, ResetInv, LiveFit, TransferCallback \/ UsbCancelled
    PROVE  ResetInv' /\ LiveFit'
<1>1. CASE TransferCallback
  <2> SUFFICES ASSUME NEW t, t = Head(ready).task PROVE ResetInv' /\ LiveFit'
    OBVIOUS
  <2>1. /\ t \in TaskIds /\ tasks[t] \in TaskRecords /\ UNCHANGED <<pc, waitFor, live>>
        /\ Len(tasks) \in Nat
    BY <1>1, TurnProperties, TypeFacts DEF TransferCallback, TaskKinds
  <2>2. ASSUME NEW state \in {"completed", "retired"},
               tasks[t].state = IF state = "completed" THEN "inflight" ELSE "cancelling",
               SetTask(t, [tasks[t] EXCEPT !.state = state])
        PROVE  ResetInv' /\ LiveFit'
    <3> DEFINE new == [tasks[t] EXCEPT !.state = state]
    <3>1. /\ new \in TaskRecords /\ new.state = state /\ new.mustCancel = tasks[t].mustCancel
          /\ SetTask(t, new)
      BY <2>1, <2>2 DEF TaskRecords, TaskState
    <3> HIDE DEF new
    <3> QED BY <2>1, <2>2, <3>1, ResetOneTask
  <2>3. CASE UNCHANGED tasks
    <3>1. ResetInv'
      BY <2>1, <2>3, TasksUnchanged DEF ResetInv
    <3> QED BY <2>1, <2>3, <3>1, TasksUnchanged DEF LiveFit
  <2> QED BY <1>1, <2>2, <2>3 DEF TransferCallback
<1>2. CASE UsbCancelled
  <2>1. PICK k \in DOMAIN urbs : /\ SetTask(urbs[k], [tasks[urbs[k]] EXCEPT !.urb = "cancelled"])
                                 /\ UNCHANGED <<pc, waitFor, live>>
    BY <1>2 DEF UsbCancelled
  <2> SUFFICES ASSUME NEW t, t = urbs[k] PROVE ResetInv' /\ LiveFit'
    OBVIOUS
  <2>2. t \in TaskIds /\ tasks[t] \in TaskRecords
    BY TypeFacts
  <2> DEFINE new == [tasks[t] EXCEPT !.urb = "cancelled"]
  <2>3. /\ new \in TaskRecords /\ new.state = tasks[t].state
        /\ new.mustCancel = tasks[t].mustCancel /\ SetTask(t, new)
    BY <2>1, <2>2 DEF TaskRecords, UrbState
  <2> HIDE DEF new
  <2> QED BY <2>1, <2>2, <2>3, ResetOneTask
<1> QED BY <1>1, <1>2

(* A task that has not been cancelled ends, and submits its successor. *)
LEMMA ResetSucceeds ==
    ASSUME TransfersInv, ResetInv, LiveFit, UNCHANGED <<pc, waitFor>>,
           NEW t \in TaskIds, tasks[t].state = "completed", ~tasks[t].mustCancel,
           NEW outcome \in Outcomes \ {"none"}, NEW task \in TaskRecords,
           task.state = "created", ~task.mustCancel,
           tasks' = Append([tasks EXCEPT ![t] = Ended(outcome)], task),
           live' = live \cup {Len(tasks) + 1}
    PROVE  ResetInv' /\ LiveFit'
<1> SUFFICES ASSUME NEW n, n = Len(tasks) + 1 PROVE ResetInv' /\ LiveFit'
  OBVIOUS
<1>1. /\ TaskIds' = TaskIds \cup {n} /\ n \notin TaskIds
      /\ tasks'[n] = task /\ tasks'[t] = Ended(outcome)
      /\ \A u \in TaskIds : u # t => tasks'[u] = tasks[u]
  BY SucceedsTasks DEF TaskIds
<1>2. t \in Unfinished /\ ~Doomed(t)
  BY DEF Unfinished, Over, Doomed
<1>3. \A c \in Callers : pc[c] # "cancel"
  BY <1>2 DEF ResetInv
<1>4. ASSUME NEW u \in Unfinished'
      PROVE  (u \in Unfinished \/ u = n) /\ ((u \in Unfinished /\ (Doomed(u)' <=> Doomed(u))) \/ ~Doomed(u)')
  <2>1. u \in TaskIds \cup {n} /\ tasks'[u].state # "over"
    BY <1>1, <1>4 DEF Unfinished, Over
  <2>2. CASE u = n
    BY <1>1, <2>2 DEF Doomed
  <2>3. CASE u # n
    <3>0. Ended(outcome).state = "over"
      BY EndedType
    <3>1. u # t
      BY <1>1, <2>1, <3>0
    <3> QED BY <1>1, <2>1, <2>3, <3>1 DEF Unfinished, Over, Doomed
  <2> QED BY <2>2, <2>3
<1>5. ResetInv'
  BY <1>3, <1>4, ResetKept
<1> QED BY <1>4, <1>5 DEF LiveFit

(* When cancel() goes on, no task is left. *)
LEMMA NothingLeft ==
    ASSUME CallersFit, ResetInv, NEW c \in Callers, running = c, pc[c] = "cancel"
    PROVE  Unfinished = {} /\ waitFor[c] = {} /\ \A d \in Callers : d # c => pc[d] # "cancel"
  BY DEF CallersFit, ResetInv, Outside
--------------------------------------------------------------------------------
(* What the transfers do to the tasks *)

LEMMA TransferTasks ==
    ASSUME TransfersInv, TransferCallback \/ UsbCancelled
    PROVE  \/ UNCHANGED tasks
           \/ \E t \in TaskIds, new \in TaskRecords :
                 /\ SetTask(t, new) /\ new.from = tasks[t].from /\ new.to = tasks[t].to
                 /\ new.outcome = tasks[t].outcome /\ new.mustCancel = tasks[t].mustCancel
                 /\ \/ /\ tasks[t].state = "inflight" /\ new.state = "completed"
                       /\ new.urb = tasks[t].urb
                    \/ /\ tasks[t].state = "cancelling" /\ new.state \in {"retired", "cancelling"}
                       /\ new.urb \in {tasks[t].urb, "cancelled"}
<1> DEFINE Moves(t, new) ==
               /\ SetTask(t, new) /\ new.from = tasks[t].from /\ new.to = tasks[t].to
               /\ new.outcome = tasks[t].outcome /\ new.mustCancel = tasks[t].mustCancel
               /\ \/ /\ tasks[t].state = "inflight" /\ new.state = "completed"
                     /\ new.urb = tasks[t].urb
                  \/ /\ tasks[t].state = "cancelling" /\ new.state \in {"retired", "cancelling"}
                     /\ new.urb \in {tasks[t].urb, "cancelled"}
<1> SUFFICES UNCHANGED tasks \/ \E t \in TaskIds, new \in TaskRecords : Moves(t, new)
  OBVIOUS
<1>1. CASE TransferCallback
  <2> SUFFICES ASSUME NEW t, t = Head(ready).task
               PROVE  UNCHANGED tasks \/ \E u \in TaskIds, new \in TaskRecords : Moves(u, new)
    OBVIOUS
  <2>1. t \in TaskIds /\ tasks[t] \in TaskRecords
    BY <1>1, TurnProperties DEF TransferCallback, TaskKinds
  <2>2. ASSUME NEW state \in {"completed", "retired"},
               tasks[t].state = IF state = "completed" THEN "inflight" ELSE "cancelling",
               SetTask(t, [tasks[t] EXCEPT !.state = state])
        PROVE  \E u \in TaskIds, new \in TaskRecords : Moves(u, new)
    <3> DEFINE new == [tasks[t] EXCEPT !.state = state]
    <3>1. /\ new \in TaskRecords /\ new.state = state /\ new.mustCancel = tasks[t].mustCancel
          /\ new.from = tasks[t].from /\ new.to = tasks[t].to /\ new.outcome = tasks[t].outcome
          /\ new.urb = tasks[t].urb /\ SetTask(t, new)
      BY <2>1, <2>2 DEF TaskRecords, TaskState
    <3> HIDE DEF new
    <3>2. Moves(t, new)
      BY <2>2, <3>1
    <3> HIDE DEF Moves
    <3> QED BY <2>1, <3>1, <3>2
  <2> HIDE DEF Moves
  <2> QED BY <1>1, <2>2 DEF TransferCallback
<1>2. CASE UsbCancelled
  <2>1. PICK k \in DOMAIN urbs : /\ SetTask(urbs[k], [tasks[urbs[k]] EXCEPT !.urb = "cancelled"])
                                 /\ tasks[urbs[k]].state = "cancelling"
    BY <1>2 DEF UsbCancelled
  <2> SUFFICES ASSUME NEW t, t = urbs[k]
               PROVE  \E u \in TaskIds, new \in TaskRecords : Moves(u, new)
    OBVIOUS
  <2>2. t \in TaskIds /\ tasks[t] \in TaskRecords
    BY TypeFacts
  <2> DEFINE new == [tasks[t] EXCEPT !.urb = "cancelled"]
  <2>3. /\ new \in TaskRecords /\ new.state = tasks[t].state /\ new.urb = "cancelled"
        /\ new.from = tasks[t].from /\ new.to = tasks[t].to /\ new.outcome = tasks[t].outcome
        /\ new.mustCancel = tasks[t].mustCancel /\ SetTask(t, new)
    BY <2>1, <2>2 DEF TaskRecords, UrbState
  <2> HIDE DEF new
  <2>4. Moves(t, new)
    BY <2>1, <2>3
  <2> HIDE DEF Moves
  <2> QED BY <2>2, <2>3, <2>4
<1> QED BY <1>1, <1>2

(* wait_one() does not suspend, or waits for what is live. *)
LEMMA WaitOneKinds ==
    ASSUME NEW c \in Callers, NEW places, pc \in [Callers -> places],
           WaitOne(c) \/ (pc' = [pc EXCEPT ![c] = "run"] /\ UNCHANGED <<ready, running, waitFor>>)
    PROVE  \/ (\A d \in Callers : d # c => pc'[d] = pc[d]) /\ UNCHANGED <<ready, running, waitFor>>
           \/ UNCHANGED pc /\ AsyncioWait(c, Over, ready) /\ live # {}
<1>1. CASE pc' = [pc EXCEPT ![c] = "run"] /\ UNCHANGED <<ready, running, waitFor>>
  BY <1>1
<1>2. CASE WaitOne(c)
  <2>0. (CASE done # <<>> -> Poll(c) /\ UNCHANGED <<ready, running, waitFor>>
           [] done = <<>> /\ live = {} -> /\ pc' = [pc EXCEPT ![c] = "run"]
                                         /\ UNCHANGED <<ready, running, waitFor, done>>
           [] OTHER -> AsyncioWait(c, Over, ready) /\ UNCHANGED <<pc, done>>)
    BY <1>2 DEF WaitOne
  <2>1. CASE done # <<>>
    <3>1. Poll(c) /\ UNCHANGED <<ready, running, waitFor>>
      BY <2>0, <2>1, Zenon
    <3> QED BY <3>1 DEF Poll
  <2>2. CASE done = <<>> /\ live = {}
    <3>1. pc' = [pc EXCEPT ![c] = "run"] /\ UNCHANGED <<ready, running, waitFor>>
      BY <2>0, <2>2, Zenon
    <3> QED BY <3>1
  <2>3. CASE done = <<>> /\ live # {}
    <3>1. AsyncioWait(c, Over, ready) /\ UNCHANGED pc
      BY <2>0, <2>3, Zenon
    <3> QED BY <2>3, <3>1
  <2> QED BY <2>1, <2>2, <2>3
<1> QED BY <1>1, <1>2

================================================================================
