-------------------------------- MODULE Endpoint -------------------------------
(***************************************************************************)
(* ServerEndpoint (support/endpoint.py): one application coroutine behind  *)
(* a listening socket, to which clients connect one after the other, or    *)
(* while the one before is still there.                                    *)
(*                                                                         *)
(* Connections are numbered in the order in which they are made, and the   *)
(* bytes of each connection in the order in which its client sends them.   *)
(* An item of the queue holds the bytes from+1 .. to of a connection, or   *)
(* the end of one.  The protocol's callbacks run while the application is  *)
(* suspended; `awake` says that it executes.                               *)
(***************************************************************************)
EXTENDS Integers, Sequences, FiniteSets, SequencesExt

CONSTANTS QueueSizes,   \* values of _queue_size; 0 stands for None
          RecvSizes,    \* lengths passed to recv(); 0 is as much as there is
          Separators,   \* the bytes that recv_until() looks for
          Bounds        \* connections made, and bytes that each client sends, at most:
                        \* a behaviour has one of these bounds

ASSUME EndpointAssumption ==
    /\ QueueSizes \subseteq Nat /\ RecvSizes \subseteq Nat /\ Separators \subseteq Nat
    /\ Bounds \subseteq [conns : Nat, bytes : Nat]

VARIABLES bound,
          conns,          \* the transports of the connections made so far
          transport,      \* _transport: a connection, or 0 for None
          newTransport,   \* _new_transport
          recvEpoch,      \* _recv_epoch
          queueSize,      \* _queue_size
          queue,          \* _queue
          queued,         \* _queued
          readPaused,     \* _read_paused
          future,         \* _future
          result,         \* the item set as the result of the future awaited
          buffer,         \* _buffer
          pc, awake,      \* where the application is, and whether it executes
          want,           \* what is left of the length of its recv()
          heard,          \* connections read from since the last end of stream
          missed          \* an item was lost with a future that was cancelled

streamVars == <<queue, queued, readPaused, future, result>>
readerVars == <<recvEpoch, buffer, pc, awake, want, heard>>
vars == <<bound, conns, transport, newTransport, queueSize, streamVars, readerVars, missed>>

Conn == [state : {"open", "closing", "lost"}, exc : {"eof", "other"},
         full : BOOLEAN, paused : BOOLEAN, sent : 0..bound.bytes, read : 0..bound.bytes]

Item(k, a, b, end) == [conn |-> k, from |-> a, to |-> b, end |-> end]

Data(k, a, b) == Item(k, a, b, "no")

Init ==
    /\ bound \in Bounds
    /\ conns = <<>> /\ transport = 0 /\ newTransport = 0 /\ recvEpoch = 1
    /\ queueSize \in QueueSizes
    /\ queue = <<>> /\ queued = 0 /\ readPaused = FALSE
    /\ future = "none" /\ result = <<>> /\ buffer = Data(0, 0, 0)
    /\ pc = "idle" /\ awake = FALSE /\ want = 0 /\ heard = {} /\ missed = FALSE

--------------------------------------------------------------------------------
(* close(), pause_reading() and resume_reading() of a transport *)
Closed(cs, t) ==
    IF cs[t].state = "open"
    THEN [cs EXCEPT ![t].state = "closing", ![t].paused = FALSE] ELSE cs

Reading(cs, t, paused) ==
    IF cs[t].state = "open" THEN [cs EXCEPT ![t].paused = paused] ELSE cs

(* A transport that an error closes has nothing left to send.  One that    *)
(* was closing before stays as it is: what else this turn of the event     *)
(* loop brings comes before its connection_lost().  "eof" is for no        *)
(* exception, BrokenPipeError and ConnectionResetError alike.              *)
Broken(cs, k, exc) ==
    [Closed(cs, k) EXCEPT ![k].exc = exc, ![k].full = cs[k].full /\ cs[k].state # "open"]

PushbackNeverResumes(cs, count, t) ==
    LET pause == queueSize # 0 /\ ~readPaused /\ count >= queueSize
    IN  [raises |-> pause /\ t = 0,
         paused |-> readPaused \/ (pause /\ t # 0),
         conns  |-> IF pause /\ t # 0 THEN Reading(cs, t, TRUE) ELSE cs]

(* _check_pushback(), for `count` bytes in the queue and transport t.  It  *)
(* raises AttributeError if there is no transport to pause or to resume.   *)
Pushback(cs, count, t) ==
    LET pause  == queueSize # 0 /\ ~readPaused /\ count >= queueSize
        resume == queueSize # 0 /\ readPaused /\ count < queueSize
    IN  [raises |-> (pause \/ resume) /\ t = 0,
         paused |-> IF (pause \/ resume) /\ t # 0 THEN pause ELSE readPaused,
         conns  |-> IF (pause \/ resume) /\ t # 0 THEN Reading(cs, t, pause) ELSE cs]

CheckFutureForgotten(q) == queue' = q /\ UNCHANGED <<result, future, missed>>

(* _check_future(), for queue q.  Setting the result of a future that was  *)
(* cancelled raises InvalidStateError, and the item is gone.               *)
CheckFuture(q) ==
    CASE future = "pending" -> /\ queue' = Tail(q) /\ result' = <<Head(q)>> /\ future' = "none"
                               /\ UNCHANGED missed
      [] future = "cancelled" -> /\ queue' = Tail(q) /\ missed' = TRUE
                                 /\ UNCHANGED <<result, future>>
      [] future = "none" -> queue' = q /\ UNCHANGED <<result, future, missed>>

--------------------------------------------------------------------------------
(* The protocol's callbacks *)

(* The event loop runs while the application waits, and ends with it. *)
Suspended == ~awake /\ pc # "dead"

(* One connection is made in a turn of the event loop, and a closed one    *)
(* that has nothing left to send is lost by the end of the next turn:      *)
(* before its successor's data arrive, which is read from then on.         *)
OldOneDying == newTransport # 0 /\ ~conns[transport].full

(* connection_made(), and data_received(b"") *)
ConnectionMade ==
    /\ Suspended /\ ~OldOneDying /\ Len(conns) < bound.conns
    /\ LET k   == Len(conns) + 1
           old == IF transport = 0 THEN conns ELSE Closed(conns, transport)
           t   == IF transport = 0 THEN k ELSE transport
           push == Pushback(Append(old, [state |-> "open", exc |-> "eof", full |-> FALSE,
                                         paused |-> FALSE, sent |-> 0, read |-> 0]), queued, t)
       IN  /\ transport' = t
           /\ newTransport' = IF transport = 0 THEN newTransport ELSE k
           /\ conns' = push.conns /\ readPaused' = push.paused
           /\ CheckFuture(Append(queue, Data(k, 0, 0)))
    /\ UNCHANGED <<queueSize, queued, readerVars>>

(* data_received().  If it raises, asyncio closes the connection. *)
DataReceived(k) ==
    /\ Suspended
    /\ conns[k].state = "open" /\ ~conns[k].paused
    /\ ~(OldOneDying /\ k = newTransport)
    /\ \E n \in 1..(bound.bytes - conns[k].sent) :
         LET sent == conns[k].sent
             push == Pushback([conns EXCEPT ![k].sent = sent + n], queued + n, transport)
             q    == Append(queue, Data(k, sent, sent + n))
         IN  /\ queued' = queued + n
             /\ readPaused' = push.paused
             /\ conns' = IF push.raises \/ future = "cancelled"
                         THEN Broken(push.conns, k, "other") ELSE push.conns
             /\ IF push.raises THEN queue' = q /\ UNCHANGED <<result, future, missed>>
                ELSE CheckFuture(q)
    /\ UNCHANGED <<transport, newTransport, queueSize, readerVars>>

(* connection_lost() *)
ConnectionLost(k) ==
    /\ Suspended /\ conns[k].state = "closing"
    /\ conns' = [conns EXCEPT ![k].state = "lost", ![k].exc = "eof", ![k].full = FALSE]
    /\ IF transport = 0
       THEN UNCHANGED <<transport, newTransport, queue, future, result, missed>>
       ELSE /\ transport' = newTransport /\ newTransport' = 0
            /\ CheckFuture(Append(queue, Item(k, 0, 0, conns[k].exc)))
    /\ UNCHANGED <<queueSize, queued, readPaused, readerVars>>

(* What happens to the sockets without the endpoint's being told: a client *)
(* closes, takes what was sent to it, or the connection breaks.            *)
SocketEvent(k) ==
    /\ Suspended
    /\ \/ /\ conns[k].state = "open" /\ ~conns[k].paused
          /\ conns' = Closed(conns, k)
       \/ /\ conns[k].state = "open" /\ conns[k].full
          /\ conns' = [conns EXCEPT ![k].full = FALSE]
       \/ /\ conns[k].full \/ (conns[k].state = "open" /\ ~conns[k].paused)
          /\ \E exc \in {"eof", "other"} : conns' = Broken(conns, k, exc)
    /\ UNCHANGED <<transport, newTransport, queueSize, streamVars, readerVars, missed>>

--------------------------------------------------------------------------------
(* The application.  One with a limit to its queue only calls recv(), and  *)
(* waits for it to return; the others also cancel recv_wait().             *)

Wakes ==
    /\ pc = "idle"
    /\ pc' = "run" /\ awake' = TRUE
    /\ UNCHANGED <<conns, transport, newTransport, queueSize, streamVars, recvEpoch, buffer,
                   want, heard, missed>>

Yields ==
    /\ awake /\ pc = "run"
    /\ pc' = "idle" /\ awake' = FALSE
    /\ UNCHANGED <<conns, transport, newTransport, queueSize, streamVars, recvEpoch, buffer,
                   want, heard, missed>>

Calls ==
    /\ awake /\ pc = "run"
    /\ \/ pc' = "recv" /\ want' \in RecvSizes
       \/ pc' \in {"until", "wait"} /\ queueSize = 0 /\ UNCHANGED want
    /\ UNCHANGED <<conns, transport, newTransport, queueSize, streamVars, recvEpoch, buffer,
                   awake, heard, missed>>

BufferLen == buffer.to - buffer.from

(* What _refill() does with the item it has awaited: an end of stream is   *)
(* raised as EOFError, another exception as it is, which no application    *)
(* handles.  Of an empty item recv() and recv_until() count nothing off,   *)
(* but they do check the pushback, and call _refill() again.               *)
TakeItem(item) ==
    LET push == Pushback(conns, queued, transport)
        counts == item.end = "no" /\ item.from = item.to /\ pc # "wait"
        dies == item.end = "other" \/ (counts /\ push.raises)
        ends == item.end = "eof"
    IN  /\ awake' = ~dies
        /\ pc' = IF dies THEN "dead" ELSE IF ends \/ pc = "wait" THEN "run" ELSE pc
        /\ buffer' = IF item.end = "no" THEN item ELSE Data(0, 0, 0)
        /\ recvEpoch' = IF ends THEN recvEpoch + 1 ELSE recvEpoch
        /\ heard' = IF ends THEN {} ELSE heard
        /\ conns' = IF counts THEN push.conns ELSE conns
        /\ readPaused' = IF counts THEN push.paused ELSE readPaused

(* _refill(), called when the buffer is empty: it suspends only if there   *)
(* is nothing in the queue.                                                *)
Refill ==
    /\ awake /\ pc \in {"recv", "until", "wait"} /\ BufferLen = 0
    /\ IF queue = <<>>
       THEN /\ future' = "pending" /\ awake' = FALSE
            /\ UNCHANGED <<conns, queue, readPaused, recvEpoch, buffer, pc, heard>>
       ELSE /\ future' = "none" /\ queue' = Tail(queue)
            /\ TakeItem(Head(queue))
    /\ UNCHANGED <<transport, newTransport, queueSize, queued, result, want, missed>>

Resume ==
    /\ ~awake /\ result # <<>>
    /\ result' = <<>>
    /\ TakeItem(Head(result))
    /\ UNCHANGED <<transport, newTransport, queueSize, queue, queued, future, want, missed>>

RestDropped(n) == [buffer EXCEPT !.from = buffer.to]

Rest(n) == [buffer EXCEPT !.from = @ + n]

UncountBuffer(n) == queued - BufferLen

Uncount(n) == queued - n

(* The first n bytes of the buffer go to the application, which counts     *)
(* `counted` of them off; then it goes on as `next`.                       *)
Consume(n, counted, next) ==
    LET push == Pushback([conns EXCEPT ![buffer.conn].read = buffer.from + n],
                         Uncount(counted), transport)
    IN  /\ buffer' = Rest(n)
        /\ queued' = Uncount(counted)
        /\ conns' = push.conns /\ readPaused' = push.paused
        /\ heard' = heard \cup {buffer.conn}
        /\ pc' = IF push.raises THEN "dead" ELSE next
        /\ awake' = ~push.raises
        /\ UNCHANGED <<transport, newTransport, queueSize, queue, future, result, recvEpoch,
                       missed>>

Recv ==
    /\ awake /\ pc = "recv" /\ BufferLen > 0
    /\ LET length == IF want = 0 THEN BufferLen ELSE want
           n == IF length <= BufferLen THEN length ELSE BufferLen
       IN  /\ Consume(n, n, IF n = length THEN "run" ELSE pc)
           /\ want' = length - n

(* The separator is taken out of the buffer, but not off the count. *)
RecvUntil ==
    /\ awake /\ pc = "until" /\ BufferLen > 0
    /\ LET hits == {i \in (buffer.from + 1)..buffer.to : i \in Separators}
       IN  IF hits = {} THEN Consume(BufferLen, BufferLen, pc)
           ELSE \E i \in hits :
                  /\ \A j \in hits : i <= j
                  /\ Consume(i - buffer.from, i - buffer.from - 1, "run")
    /\ UNCHANGED want

RecvWait ==
    /\ awake /\ pc = "wait" /\ BufferLen > 0
    /\ pc' = "run"
    /\ UNCHANGED <<conns, transport, newTransport, queueSize, streamVars, recvEpoch, buffer,
                   awake, want, heard, missed>>

(* The application wakes up for another reason and cancels its recv_wait() *)
(* (`continue` of the GDB server).  An item that the future has received   *)
(* in the meantime is lost with it.                                        *)
CancelWait ==
    /\ ~awake /\ pc = "wait"
    /\ awake' = TRUE /\ pc' = "run"
    /\ future' = IF future = "pending" THEN "cancelled" ELSE future
    /\ result' = <<>>
    /\ missed' = (missed \/ result # <<>>)
    /\ UNCHANGED <<conns, transport, newTransport, queueSize, queue, queued, readPaused,
                   recvEpoch, buffer, want, heard>>

CanSendInAnyEpoch == transport # 0

(* The condition in send(); _send_epoch is the number of connections made. *)
CanSend == transport # 0 /\ Len(conns) = recvEpoch

(* A send() that is not discarded and that the kernel does not take whole. *)
Send ==
    /\ awake /\ pc = "run" /\ queueSize = 0
    /\ CanSend
    /\ conns[transport].state = "open"
    /\ conns' = [conns EXCEPT ![transport].full = TRUE]
    /\ UNCHANGED <<transport, newTransport, queueSize, streamVars, readerVars, missed>>

(* close() *)
Close ==
    /\ awake /\ pc = "run" /\ transport # 0
    /\ conns' = Closed(conns, transport)
    /\ UNCHANGED <<transport, newTransport, queueSize, streamVars, readerVars, missed>>

--------------------------------------------------------------------------------
Callback ==
    \/ ConnectionMade
    \/ \E k \in DOMAIN conns : DataReceived(k) \/ ConnectionLost(k) \/ SocketEvent(k)

Application ==
    \/ Wakes \/ Yields \/ Calls \/ Refill \/ Resume \/ Recv \/ RecvUntil \/ RecvWait
    \/ CancelWait \/ Send \/ Close

Next == (Callback \/ Application) /\ UNCHANGED bound

Spec == Init /\ [][Next]_vars

--------------------------------------------------------------------------------
(* Properties *)

(* Types: in particular _queued never becomes negative, and an item is a   *)
(* range of the bytes that its connection sent.                            *)
TypeOK ==
    /\ conns \in Seq(Conn)
    /\ transport \in 0..Len(conns) /\ newTransport \in 0..Len(conns)
    /\ recvEpoch \in 1..(Len(conns) + 1) /\ queueSize \in QueueSizes
    /\ queued \in Nat /\ readPaused \in BOOLEAN
    /\ future \in {"none", "pending", "cancelled"} /\ Len(result) <= 1
    /\ \A item \in ToSet(queue \o result \o <<buffer>>) :
          /\ item.conn \in 0..Len(conns) /\ item.from \in 0..item.to /\ item.to \in 0..bound.bytes
          /\ item.end \in {"no", "eof", "other"}
    /\ pc \in {"idle", "run", "recv", "until", "wait", "dead"} /\ awake \in BOOLEAN
    /\ want \in Nat /\ heard \subseteq DOMAIN conns /\ missed \in BOOLEAN

(* What send() writes never reaches another client than the one whose data  *)
(* the application has read since the last end of stream, however many      *)
(* connections overlap, break or are dropped.                               *)
NoCrossTalk == CanSend => heard \subseteq {transport}

(* The items that the application has yet to read, and the buffer. *)
Ahead == <<buffer>> \o result \o queue

Carries(item, k) == item.conn = k /\ item.from < item.to

(* The last byte of connection k that is read or ahead of item i. *)
UpTo(k, i) ==
    LET before == {j \in 1..(i - 1) : Carries(Ahead[j], k)}
    IN  IF before = {} THEN conns[k].read ELSE Ahead[Max(before)].to

(* Every client's bytes are read in the order in which they were sent, none *)
(* twice and none left out, unless a cancelled recv_wait() took them along. *)
StreamOrder ==
    ~missed =>
        \A k \in DOMAIN conns :
            /\ \A i \in DOMAIN Ahead :
                  Carries(Ahead[i], k) => Ahead[i].from = UpTo(k, i)
            /\ conns[k].sent = UpTo(k, Len(Ahead) + 1)

(* The application does not sleep while there is something for it to read.  *)
WaiterWoken == future = "pending" => queue = <<>> /\ result = <<>>

(* Pushback ends: an application that waits for data has not left the       *)
(* connection it should come from paused.                                   *)
NoStall ==
    future = "pending" => \A k \in DOMAIN conns : conns[k].state = "open" => ~conns[k].paused

(* "send to previous connection discarded": send() does not discard a reply *)
(* to the connection that was read from, if this is still open.             *)
RepliesReach ==
    awake /\ pc = "run" =>
        \A k \in DOMAIN conns : heard = {k} /\ conns[k].state = "open" => CanSend

================================================================================
