----------------------------- MODULE EndpointProofs ----------------------------
(***************************************************************************)
(* Theorems about Endpoint, for any number of connections: no reply goes   *)
(* to another client, the application never sleeps on an item, it reads    *)
(* every client's bytes in order, and pushback does not stop a connection  *)
(* from which it waits to read.                                            *)
(*                                                                         *)
(* The argument for replies counts ends of streams.  A reply is sent only  *)
(* when all connections but one have ended, as the application sees it.    *)
(* Each that has is lost, none of its items is left, and the application   *)
(* has read nothing from it since: what it has read is from the one that   *)
(* is left.  What remains is to show that replies go to that one.          *)
(*                                                                         *)
(* For the rest, ReadFits says that the items of a connection are a chain  *)
(* from what was read of it to what it sent, that _queued counts them, and *)
(* that a connection is paused only while that count is at the limit.      *)
(***************************************************************************)
EXTENDS Endpoint, Totals, SequenceTheorems

ConnType == [state : {"open", "closing", "lost"}, exc : {"eof", "other"},
             full : BOOLEAN, paused : BOOLEAN, sent : Int, read : Int]

ItemType == [conn : Nat, from : Int, to : Int, end : {"no", "eof", "other"}]

Types ==
    /\ conns \in Seq(ConnType)
    /\ transport \in 0..Len(conns) /\ newTransport \in 0..Len(conns)
    /\ recvEpoch \in Nat /\ queued \in Int /\ want \in Int
    /\ queue \in Seq(ItemType) /\ result \in Seq(ItemType) /\ buffer \in ItemType
    /\ future \in {"none", "pending", "cancelled"}
    /\ heard \subseteq DOMAIN conns

(* The items that have not been taken yet. *)
Line == result \o queue

Waiting == {"recv", "until", "wait"}

WaitFits ==
    /\ future = "pending" => queue = <<>> /\ result = <<>> /\ ~awake /\ pc \in Waiting
    /\ result # <<>> => ~awake /\ future = "none" /\ pc \in Waiting /\ Len(result) = 1

(* Predicates of a line of items. *)
Names(L, k) == \E i \in DOMAIN L : L[i].conn = k

Before(L, r, t) == \A i, j \in DOMAIN L : L[i].conn = r /\ L[j].conn = t => i < j

EndsLast(L) == \A i, j \in DOMAIN L : L[i].end # "no" /\ i < j => L[j].conn # L[i].conn

(* M is what is left of L, if some items are taken from its front. *)
Rests(M, L) ==
    /\ M \in Seq(ItemType)
    /\ \A k \in Nat : Names(M, k) => Names(L, k)
    /\ \A r, t \in Nat : Before(L, r, t) => Before(M, r, t)
    /\ EndsLast(L) => EndsLast(M)
    /\ \A i \in DOMAIN M : \E j \in DOMAIN L : M[i] = L[j]

Lost(k) == conns[k].state = "lost"

LineFits ==
    /\ \A i \in DOMAIN Line : Line[i].conn \in DOMAIN conns /\ (Line[i].end # "no" => Lost(Line[i].conn))
    /\ EndsLast(Line)
    /\ buffer.conn \in 0..Len(conns) /\ (BufferLen > 0 => buffer.conn # 0)

(* Items of connection k are waiting to be read. *)
Has(k) == (BufferLen > 0 /\ buffer.conn = k) \/ Names(Line, k)

(* One connection was closed before the other was made. *)
ClosedBefore(r, t) == conns[r].state = "closing" /\ Before(Line, r, t)

(* A second connection waits for the end of an older one. *)
NewFits ==
    newTransport # 0 =>
        /\ transport # 0 /\ transport < newTransport /\ ~Lost(newTransport)
        /\ \E r \in 1..transport : ClosedBefore(r, newTransport)

(* So does one that was lost before it became the transport: the older one *)
(* cannot have been heard since the end of this one.                       *)
OldFits(ended) ==
    transport # 0 /\ Lost(transport) =>
        \E r \in 1..(transport - 1) :
            /\ ClosedBefore(r, transport)
            /\ transport \in ended => r \notin heard /\ ~Has(r)

(* The connections whose ends the application has seen. *)
EndedFits(ended) ==
    /\ ended \subseteq DOMAIN conns
    /\ Cardinality(ended) = recvEpoch - 1
    /\ \A k \in ended : Lost(k) /\ k \notin heard /\ ~Has(k)

(* With a limit to the queue, only the last connection can be open, and    *)
(* there is a transport to pause.                                          *)
Alone ==
    queueSize # 0 =>
        /\ \A k \in DOMAIN conns : ~conns[k].full
        /\ \E r \in 0..transport :
              /\ transport # 0 => r # 0
              /\ \A k \in DOMAIN conns : ~Lost(k) <=> k \in {r, newTransport}
              /\ r # 0 /\ r # transport => conns[r].state = "closing"

IInv ==
    /\ Types /\ WaitFits /\ LineFits /\ NewFits /\ Alone
    /\ \E ended : EndedFits(ended) /\ OldFits(ended)

--------------------------------------------------------------------------------
(* Lines of items *)

LEMMA LineAppend ==
    ASSUME NEW L \in Seq(ItemType), NEW x \in ItemType
    PROVE  /\ Append(L, x) \in Seq(ItemType)
           /\ \A k \in Nat : Names(Append(L, x), k) <=> Names(L, k) \/ x.conn = k
           /\ \A r, t \in Nat : Before(L, r, t) /\ x.conn # r => Before(Append(L, x), r, t)
           /\ EndsLast(L) /\ (\A i \in DOMAIN L : L[i].end # "no" => L[i].conn # x.conn)
                 => EndsLast(Append(L, x))
           /\ \A i \in DOMAIN Append(L, x) :
                 Append(L, x)[i] = x \/ \E j \in DOMAIN L : Append(L, x)[i] = L[j]
<1> SUFFICES ASSUME NEW M, M = Append(L, x)
    PROVE  /\ M \in Seq(ItemType)
           /\ \A k \in Nat : Names(M, k) <=> Names(L, k) \/ x.conn = k
           /\ \A r, t \in Nat : Before(L, r, t) /\ x.conn # r => Before(M, r, t)
           /\ EndsLast(L) /\ (\A i \in DOMAIN L : L[i].end # "no" => L[i].conn # x.conn)
                 => EndsLast(M)
           /\ \A i \in DOMAIN M : M[i] = x \/ \E j \in DOMAIN L : M[i] = L[j]
  OBVIOUS
<1>1. M \in Seq(ItemType) /\ Len(M) = Len(L) + 1 /\ M[Len(L) + 1] = x
      /\ \A i \in 1..Len(L) : M[i] = L[i]
  BY AppendProperties
<1>2. DOMAIN L = 1..Len(L) /\ DOMAIN M = 1..(Len(L) + 1) /\ Len(L) \in Nat
  BY <1>1, LenProperties
<1>3. \A k \in Nat : Names(M, k) <=> Names(L, k) \/ x.conn = k
  BY <1>1, <1>2 DEF Names
<1>4. \A r, t \in Nat : Before(L, r, t) /\ x.conn # r => Before(M, r, t)
  BY <1>1, <1>2 DEF Before
<1>5. EndsLast(L) /\ (\A i \in DOMAIN L : L[i].end # "no" => L[i].conn # x.conn) => EndsLast(M)
  BY <1>1, <1>2 DEF EndsLast
<1> QED BY <1>1, <1>2, <1>3, <1>4, <1>5

LEMMA LineTail ==
    ASSUME NEW L \in Seq(ItemType), L # <<>>
    PROVE  /\ Rests(Tail(L), L) /\ Head(L) \in ItemType /\ Names(L, Head(L).conn)
           /\ \E i \in DOMAIN L : Head(L) = L[i]
           /\ EndsLast(L) /\ Head(L).end # "no" => ~Names(Tail(L), Head(L).conn)
           /\ \A r \in Nat : r # Head(L).conn /\ Before(L, r, Head(L).conn) => ~Names(L, r)
<1>1. /\ Tail(L) \in Seq(ItemType) /\ Head(L) \in ItemType /\ Len(Tail(L)) = Len(L) - 1
      /\ \A i \in 1..Len(Tail(L)) : Tail(L)[i] = L[i + 1]
  BY HeadTailProperties
<1>2. /\ Len(L) \in Nat /\ Len(L) >= 1 /\ DOMAIN L = 1..Len(L) /\ DOMAIN Tail(L) = 1..(Len(L) - 1)
      /\ Head(L) = L[1]
  BY <1>1, LenProperties, EmptySeq
<1>3. \A i \in DOMAIN Tail(L) : i \in Nat /\ i + 1 \in DOMAIN L /\ 1 < i + 1 /\ Tail(L)[i] = L[i + 1]
  BY <1>1, <1>2
<1>4. \A i, j \in DOMAIN Tail(L) : i < j <=> i + 1 < j + 1
  BY <1>3
<1>5. Rests(Tail(L), L)
  BY <1>1, <1>3, <1>4 DEF Rests, Names, Before, EndsLast
<1>6. 1 \in DOMAIN L
  BY <1>2
<1>7. EndsLast(L) /\ Head(L).end # "no" => ~Names(Tail(L), Head(L).conn)
  BY <1>2, <1>3, <1>6 DEF EndsLast, Names
<1>8. ASSUME NEW r \in Nat, r # Head(L).conn, Before(L, r, Head(L).conn) PROVE ~Names(L, r)
  <2>1. \A i \in DOMAIN L : L[i].conn = r => i < 1
    BY <1>2, <1>6, <1>8 DEF Before
  <2> QED BY <1>2, <2>1 DEF Names
<1> QED BY <1>1, <1>2, <1>5, <1>6, <1>7, <1>8 DEF Names

LEMMA RestsItself ==
    ASSUME NEW L \in Seq(ItemType)
    PROVE  Rests(L, L)
  BY DEF Rests

LEMMA RestsTransitive ==
    ASSUME NEW L, NEW M, NEW N, Rests(M, L), Rests(N, M)
    PROVE  Rests(N, L)
<1>1. \A i \in DOMAIN N : \E j \in DOMAIN L : N[i] = L[j]
  BY DEF Rests
<1> QED BY <1>1 DEF Rests

(* The future's result, if there is one, is the head of the line. *)
LEMMA LineProperties ==
    ASSUME Types, WaitFits
    PROVE  /\ Line \in Seq(ItemType)
           /\ result = <<>> => Line = queue
           /\ result # <<>> => Line # <<>> /\ Head(Line) = Head(result) /\ Tail(Line) = queue
<1>1. Line \in Seq(ItemType) /\ (result = <<>> => Line = queue)
  BY ConcatProperties, ConcatEmptySeq DEF Types, Line
<1>2. ASSUME result # <<>>
      PROVE  Line # <<>> /\ Head(Line) = Head(result) /\ Tail(Line) = queue
  <2>1. Len(result) = 1
    BY <1>2 DEF WaitFits
  <2>2. Len(queue) \in Nat /\ queue \in Seq(ItemType) /\ DOMAIN queue = 1..Len(queue)
    BY LenProperties DEF Types
  <2>3. /\ Len(Line) = 1 + Len(queue) /\ Line[1] = result[1]
        /\ \A i \in 1..(1 + Len(queue)) : i > 1 => Line[i] = queue[i - 1]
    <3>1. /\ Len(Line) = Len(result) + Len(queue)
          /\ \A i \in 1..(Len(result) + Len(queue)) :
                Line[i] = IF i <= Len(result) THEN result[i] ELSE queue[i - Len(result)]
      BY ConcatProperties DEF Types, Line
    <3> QED BY <2>1, <2>2, <3>1
  <2>4. Line # <<>>
    BY <2>2, <2>3, EmptySeq
  <2>5. Tail(Line) \in Seq(ItemType) /\ Len(Tail(Line)) = Len(queue)
        /\ \A i \in 1..Len(queue) : Tail(Line)[i] = Line[i + 1]
    BY <1>1, <2>2, <2>3, <2>4, HeadTailProperties
  <2>6. \A i \in 1..Len(queue) : Tail(Line)[i] = queue[i]
    BY <2>2, <2>3, <2>5
  <2>7. Tail(Line) = queue
    BY <2>2, <2>5, <2>6, SeqEqual
  <2> QED BY <2>3, <2>4, <2>7
<1> QED BY <1>1, <1>2

--------------------------------------------------------------------------------
(* What the callbacks and calls do to connections and items *)

LEMMA ClosedType ==
    ASSUME NEW cs \in Seq(ConnType), NEW t \in DOMAIN cs
    PROVE  /\ Closed(cs, t) \in Seq(ConnType) /\ Len(Closed(cs, t)) = Len(cs)
           /\ DOMAIN Closed(cs, t) = DOMAIN cs
           /\ \A k \in DOMAIN cs :
                 /\ Closed(cs, t)[k].state =
                       IF k = t /\ cs[k].state = "open" THEN "closing" ELSE cs[k].state
                 /\ Closed(cs, t)[k].full = cs[k].full
<1>1. DOMAIN cs = 1..Len(cs) /\ cs[t] \in ConnType
  BY LenProperties
<1> DEFINE c == [cs[t] EXCEPT !.state = "closing", !.paused = FALSE]
<1>2. c \in ConnType /\ c.state = "closing" /\ c.full = cs[t].full
  BY <1>1 DEF ConnType
<1>3. Closed(cs, t) = IF cs[t].state = "open" THEN [cs EXCEPT ![t] = c] ELSE cs
  BY DEF Closed
<1> HIDE DEF c
<1>4. CASE cs[t].state = "open"
  <2>1. /\ [cs EXCEPT ![t] = c] \in Seq(ConnType) /\ Len([cs EXCEPT ![t] = c]) = Len(cs)
        /\ \A k \in 1..Len(cs) : [cs EXCEPT ![t] = c][k] = IF k = t THEN c ELSE cs[k]
    BY <1>1, <1>2, ExceptSeq
  <2>2. DOMAIN [cs EXCEPT ![t] = c] = DOMAIN cs
    OBVIOUS
  <2> QED BY <1>1, <1>2, <1>3, <1>4, <2>1, <2>2
<1>5. CASE cs[t].state # "open"
  BY <1>3, <1>5
<1> QED BY <1>4, <1>5

LEMMA ReadingType ==
    ASSUME NEW cs \in Seq(ConnType), NEW t \in DOMAIN cs, NEW p \in BOOLEAN
    PROVE  /\ Reading(cs, t, p) \in Seq(ConnType) /\ Len(Reading(cs, t, p)) = Len(cs)
           /\ DOMAIN Reading(cs, t, p) = DOMAIN cs
           /\ \A k \in DOMAIN cs : /\ Reading(cs, t, p)[k].state = cs[k].state
                                   /\ Reading(cs, t, p)[k].full = cs[k].full
<1>1. DOMAIN cs = 1..Len(cs) /\ cs[t] \in ConnType
  BY LenProperties
<1> DEFINE c == [cs[t] EXCEPT !.paused = p]
<1>2. c \in ConnType /\ c.state = cs[t].state /\ c.full = cs[t].full
  BY <1>1 DEF ConnType
<1>3. Reading(cs, t, p) = IF cs[t].state = "open" THEN [cs EXCEPT ![t] = c] ELSE cs
  BY DEF Reading
<1> HIDE DEF c
<1>4. /\ [cs EXCEPT ![t] = c] \in Seq(ConnType) /\ Len([cs EXCEPT ![t] = c]) = Len(cs)
      /\ \A k \in 1..Len(cs) : [cs EXCEPT ![t] = c][k] = IF k = t THEN c ELSE cs[k]
      /\ DOMAIN [cs EXCEPT ![t] = c] = DOMAIN cs
  BY <1>1, <1>2, ExceptSeq
<1> QED BY <1>1, <1>2, <1>3, <1>4

(* Pushback pauses and resumes, and does nothing else to a connection. *)
LEMMA PushbackType ==
    ASSUME NEW cs \in Seq(ConnType), NEW count, NEW t \in 0..Len(cs), NEW p, p = Pushback(cs, count, t)
    PROVE  /\ p.conns \in Seq(ConnType) /\ Len(p.conns) = Len(cs) /\ DOMAIN p.conns = DOMAIN cs
           /\ \A k \in DOMAIN cs : /\ p.conns[k].state = cs[k].state
                                   /\ p.conns[k].full = cs[k].full
           /\ p.raises => t = 0 /\ queueSize # 0
<1>1. \/ p.conns = cs
      \/ t # 0 /\ \E pause \in BOOLEAN : p.conns = Reading(cs, t, pause)
  BY DEF Pushback
<1>2. p.raises => t = 0 /\ queueSize # 0
  BY DEF Pushback
<1>3. t # 0 => t \in DOMAIN cs
  BY LenProperties
<1>4. CASE p.conns = cs
  BY <1>2, <1>4
<1>5. CASE t # 0 /\ \E pause \in BOOLEAN : p.conns = Reading(cs, t, pause)
  <2>1. PICK pause \in BOOLEAN : p.conns = Reading(cs, t, pause)
    BY <1>5
  <2>2. t \in DOMAIN cs
    BY <1>3, <1>5
  <2> QED BY <1>2, <2>1, <2>2, ReadingType
<1> QED BY <1>1, <1>4, <1>5

LEMMA BrokenType ==
    ASSUME NEW cs \in Seq(ConnType), NEW t \in DOMAIN cs, NEW exc \in {"eof", "other"}
    PROVE  /\ Broken(cs, t, exc) \in Seq(ConnType) /\ Len(Broken(cs, t, exc)) = Len(cs)
           /\ DOMAIN Broken(cs, t, exc) = DOMAIN cs
           /\ \A k \in DOMAIN cs :
                 /\ Broken(cs, t, exc)[k].state =
                       IF k = t /\ cs[k].state = "open" THEN "closing" ELSE cs[k].state
                 /\ Broken(cs, t, exc)[k].full => cs[k].full
<1> DEFINE cl == Closed(cs, t)
<1>1. /\ cl \in Seq(ConnType) /\ Len(cl) = Len(cs) /\ DOMAIN cl = DOMAIN cs
      /\ \A k \in DOMAIN cs :
            /\ cl[k].state = IF k = t /\ cs[k].state = "open" THEN "closing" ELSE cs[k].state
            /\ cl[k].full = cs[k].full
  BY ClosedType
<1> DEFINE full == cs[t].full /\ cs[t].state # "open"
<1>2. Broken(cs, t, exc) = [cl EXCEPT ![t].exc = exc, ![t].full = full]
  BY DEF Broken
<1>7. full \in BOOLEAN /\ (full => cs[t].full)
  OBVIOUS
<1> HIDE DEF cl, full
<1> DEFINE c == [cl[t] EXCEPT !.exc = exc, !.full = full]
<1>3. DOMAIN cl = 1..Len(cl) /\ cl[t] \in ConnType
  BY <1>1, LenProperties
<1>4. c \in ConnType /\ c.state = cl[t].state /\ c.full = full
  BY <1>3, <1>7 DEF ConnType
<1>5. Broken(cs, t, exc) = [cl EXCEPT ![t] = c]
  BY <1>2
<1> HIDE DEF c
<1>6. /\ [cl EXCEPT ![t] = c] \in Seq(ConnType) /\ Len([cl EXCEPT ![t] = c]) = Len(cl)
      /\ \A k \in 1..Len(cl) : [cl EXCEPT ![t] = c][k] = IF k = t THEN c ELSE cl[k]
      /\ DOMAIN [cl EXCEPT ![t] = c] = DOMAIN cl
  BY <1>1, <1>3, <1>4, ExceptSeq
<1> QED BY <1>1, <1>3, <1>4, <1>5, <1>6, <1>7

LEMMA BrokenStep ==
    ASSUME NEW cs \in Seq(ConnType), NEW t \in DOMAIN cs, NEW exc \in {"eof", "other"},
           conns' = Broken(cs, t, exc)
    PROVE  /\ conns' \in Seq(ConnType) /\ Len(conns') = Len(cs) /\ DOMAIN conns' = DOMAIN cs
           /\ \A j \in DOMAIN cs :
                 /\ conns'[j].state = IF j = t /\ cs[j].state = "open" THEN "closing" ELSE cs[j].state
                 /\ conns'[j].full => cs[j].full
  BY BrokenType

(* An item is appended, and the head goes to the future that waits for it, *)
(* or is gone if that was cancelled.                                       *)
LEMMA CheckFutureAppends ==
    ASSUME Types, WaitFits, NEW x \in ItemType, CheckFuture(Append(queue, x)), UNCHANGED <<pc, awake>>
    PROVE  /\ queue' \in Seq(ItemType) /\ result' \in Seq(ItemType)
           /\ future' \in {"none", "pending", "cancelled"}
           /\ WaitFits' /\ Rests(Line', Append(Line, x))
<1>1. queue \in Seq(ItemType) /\ result \in Seq(ItemType) /\ Append(queue, x) \in Seq(ItemType)
      /\ Append(Line, x) \in Seq(ItemType) /\ Line \in Seq(ItemType)
  BY LineAppend, LineProperties DEF Types
<1>2. CASE future = "none"
  <2>1. queue' = Append(queue, x) /\ UNCHANGED <<result, future>>
    BY <1>2 DEF CheckFuture
  <2>2. Line' = Append(Line, x)
    <3>1. Append(queue, x) = queue \o <<x>> /\ Append(Line, x) = Line \o <<x>>
      BY <1>1, AppendIsConcat
    <3>2. <<x>> \in Seq(ItemType)
      OBVIOUS
    <3>3. result \o (queue \o <<x>>) = (result \o queue) \o <<x>>
      BY <1>1, <3>2, ConcatAssociative
    <3> QED BY <2>1, <3>1, <3>3 DEF Line
  <2> QED BY <1>1, <1>2, <2>1, <2>2, RestsItself DEF WaitFits
<1>3. CASE future = "pending"
  <2>1. queue = <<>> /\ result = <<>> /\ ~awake /\ pc \in Waiting /\ Append(queue, x) = <<x>>
    BY <1>3 DEF WaitFits
  <2>2. queue' = <<>> /\ result' = <<x>> /\ future' = "none"
    BY <1>3, <2>1 DEF CheckFuture
  <2>3. <<x>> \in Seq(ItemType) /\ Len(<<x>>) = 1 /\ <<>> \in Seq(ItemType)
    OBVIOUS
  <2>4. Line = <<>> /\ Line' = <<x>>
    BY <2>1, <2>2, <2>3, ConcatEmptySeq DEF Line
  <2>5. Append(Line, x) = <<x>>
    BY <2>4
  <2> QED BY <1>1, <2>1, <2>2, <2>3, <2>4, <2>5, RestsItself DEF WaitFits
<1>4. CASE future = "cancelled"
  <2>1. queue' = Tail(Append(queue, x)) /\ UNCHANGED <<result, future>>
    BY <1>4 DEF CheckFuture
  <2>2. result = <<>>
    BY <1>4 DEF WaitFits
  <2>3. Append(queue, x) # <<>>
    BY <1>1, AppendProperties
  <2>4. queue' \in Seq(ItemType) /\ Rests(queue', Append(queue, x))
    BY ZenonT(30), SMTT(30), <1>1, <2>1, <2>3, LineTail DEF Rests
  <2>5. Line = queue /\ Line' = queue'
    BY <1>1, <2>1, <2>2, <2>4, ConcatEmptySeq DEF Line
  <2> QED BY <1>1, <1>4, <2>1, <2>2, <2>4, <2>5 DEF WaitFits
<1> QED BY <1>2, <1>3, <1>4 DEF Types

--------------------------------------------------------------------------------
(* Steps that make and lose no connection *)

(* Connections may close. *)
ConnsCalm ==
    /\ Len(conns') = Len(conns) /\ DOMAIN conns' = DOMAIN conns
    /\ \A k \in DOMAIN conns :
          /\ \/ conns'[k].state = conns[k].state
             \/ conns[k].state = "open" /\ conns'[k].state = "closing"
          /\ queueSize # 0 /\ conns'[k].full => conns[k].full
    /\ UNCHANGED <<transport, newTransport, queueSize>>

LEMMA AloneCalm ==
    ASSUME Types, Alone, ConnsCalm
    PROVE  Alone'
<1> SUFFICES ASSUME queueSize # 0 PROVE Alone'
  BY DEF Alone, ConnsCalm
<1>1. PICK r \in 0..transport :
         /\ transport # 0 => r # 0
         /\ \A k \in DOMAIN conns : ~Lost(k) <=> k \in {r, newTransport}
         /\ r # 0 /\ r # transport => conns[r].state = "closing"
  BY DEF Alone
<1>2. r # 0 => r \in DOMAIN conns
  BY LenProperties DEF Types
<1>3. \A k \in DOMAIN conns : Lost(k)' <=> Lost(k)
  BY DEF ConnsCalm, Lost
<1>4. \A k \in DOMAIN conns' : ~conns'[k].full
  BY DEF Alone, ConnsCalm
<1>5. r # 0 /\ r # transport => conns'[r].state = "closing"
  BY <1>1, <1>2 DEF ConnsCalm
<1> QED BY <1>1, <1>3, <1>4, <1>5 DEF Alone, ConnsCalm

LEMMA Calm ==
    ASSUME Types, NewFits, Types', ConnsCalm, NEW ended, EndedFits(ended), OldFits(ended),
           UNCHANGED recvEpoch,
           \A k \in DOMAIN conns : Has(k)' => Has(k) \/ conns[k].state = "open",
           \A r, t \in DOMAIN conns : ClosedBefore(r, t) => Before(Line, r, t)',
           \A k \in heard' : k \in heard \/ Has(k)
    PROVE  NewFits' /\ EndedFits(ended)' /\ OldFits(ended)'
<1>1. \A k \in DOMAIN conns : /\ Lost(k)' <=> Lost(k)
                              /\ conns[k].state = "closing" => conns'[k].state = "closing"
  BY DEF ConnsCalm, Lost
<1>2. DOMAIN conns = 1..Len(conns) /\ Len(conns) \in Nat
  BY LenProperties DEF Types
<1>3. \A r, t \in DOMAIN conns : ClosedBefore(r, t) => ClosedBefore(r, t)'
  BY <1>1 DEF ClosedBefore
<1>4. /\ transport # 0 => transport \in DOMAIN conns
      /\ newTransport # 0 => newTransport \in DOMAIN conns
      /\ \A r \in 1..transport : r \in DOMAIN conns
  BY <1>2 DEF Types
<1>5. NewFits'
  BY <1>1, <1>3, <1>4 DEF NewFits, ConnsCalm
<1>6. EndedFits(ended)'
  <2>1. \A k \in ended : k \in DOMAIN conns /\ conns[k].state # "open" /\ Lost(k)'
    BY <1>1 DEF EndedFits, Lost
  <2>2. \A k \in ended : k \notin heard' /\ ~Has(k)'
    BY <2>1 DEF EndedFits
  <2> QED BY <2>1, <2>2 DEF EndedFits, ConnsCalm
<1>7. OldFits(ended)'
  <2> SUFFICES ASSUME transport # 0, Lost(transport)
               PROVE  \E r \in 1..(transport - 1) :
                         /\ ClosedBefore(r, transport)'
                         /\ transport \in ended => r \notin heard' /\ ~Has(r)'
    BY <1>1, <1>4 DEF OldFits, ConnsCalm
  <2>1. PICK r \in 1..(transport - 1) :
           /\ ClosedBefore(r, transport) /\ (transport \in ended => r \notin heard /\ ~Has(r))
    BY DEF OldFits
  <2>2. r \in DOMAIN conns /\ transport \in DOMAIN conns
    BY <1>2, <1>4 DEF Types
  <2>3. conns[r].state # "open" /\ ClosedBefore(r, transport)'
    BY <1>3, <2>1, <2>2 DEF ClosedBefore, ConnsCalm
  <2> QED BY <2>1, <2>2, <2>3
<1> QED BY <1>5, <1>6, <1>7

(* Items are taken from the front of the line, into the buffer or not. *)
LEMMA CalmReader ==
    ASSUME Types, LineFits, NewFits, Types', ConnsCalm, NEW ended, EndedFits(ended), OldFits(ended),
           UNCHANGED recvEpoch, Line \in Seq(ItemType), Rests(Line', Line),
           buffer'.conn = buffer.conn \/ \E i \in DOMAIN Line : Line[i].conn = buffer'.conn,
           BufferLen' > 0 => \/ BufferLen > 0 /\ buffer'.conn = buffer.conn
                             \/ Names(Line, buffer'.conn),
           \A k \in heard' : k \in heard \/ Has(k)
    PROVE  LineFits' /\ NewFits' /\ EndedFits(ended)' /\ OldFits(ended)'
<1>1. DOMAIN conns = 1..Len(conns) /\ Len(conns) \in Nat /\ DOMAIN conns' = DOMAIN conns
      /\ DOMAIN conns \subseteq Nat
  BY LenProperties DEF Types, ConnsCalm
<1>2. \A k \in DOMAIN conns : Lost(k) => Lost(k)'
  BY DEF ConnsCalm, Lost
<1>3. \A i \in DOMAIN Line' : \E j \in DOMAIN Line : Line'[i] = Line[j]
  BY DEF Rests
<1>4. LineFits'
  <2>1. ASSUME NEW i \in DOMAIN Line'
        PROVE  Line'[i].conn \in DOMAIN conns /\ (Line'[i].end # "no" => conns'[Line'[i].conn].state = "lost")
    <3>1. PICK j \in DOMAIN Line : Line'[i] = Line[j]
      BY <1>3
    <3> QED BY <1>2, <3>1 DEF LineFits, Lost
  <2>2. EndsLast(Line)'
    BY DEF LineFits, Rests
  <2>3. buffer'.conn \in 0..Len(conns) /\ (BufferLen' > 0 => buffer'.conn # 0)
    BY <1>1 DEF LineFits, Names
  <2>4. Len(conns') = Len(conns)
    BY DEF ConnsCalm
  <2> QED BY <1>1, <2>1, <2>2, <2>3, <2>4 DEF LineFits, Lost
<1>5. \A k \in DOMAIN conns : Has(k)' => Has(k)
  BY <1>1 DEF Has, Rests
<1>6. \A r, t \in DOMAIN conns : ClosedBefore(r, t) => Before(Line, r, t)'
  BY <1>1 DEF ClosedBefore, Rests
<1> QED BY <1>4, <1>5, <1>6, Calm

(* A step of the application that sees no end of a stream. *)
ReaderStep ==
    /\ Types' /\ WaitFits' /\ ConnsCalm /\ UNCHANGED recvEpoch
    /\ Rests(Line', Line)
    /\ buffer'.conn = buffer.conn \/ \E i \in DOMAIN Line : Line[i].conn = buffer'.conn
    /\ BufferLen' > 0 => \/ BufferLen > 0 /\ buffer'.conn = buffer.conn
                         \/ Names(Line, buffer'.conn)
    /\ \A k \in heard' : k \in heard \/ Has(k)

LEMMA ReaderStepOK ==
    ASSUME IInv, ReaderStep
    PROVE  IInv'
<1>1. Types /\ WaitFits /\ LineFits /\ NewFits /\ Alone
  BY DEF IInv
<1>2. PICK ended : EndedFits(ended) /\ OldFits(ended)
  BY DEF IInv
<1>3. Line \in Seq(ItemType)
  BY <1>1, LineProperties
<1>4. LineFits' /\ NewFits' /\ EndedFits(ended)' /\ OldFits(ended)'
  BY <1>1, <1>2, <1>3, CalmReader DEF ReaderStep
<1>5. Types' /\ WaitFits' /\ Alone'
  BY <1>1, AloneCalm DEF ReaderStep
<1> QED BY <1>4, <1>5 DEF IInv

(* Nothing happens to the connections and the items. *)
LEMMA IdleStep ==
    ASSUME IInv, UNCHANGED <<conns, transport, newTransport, queueSize, recvEpoch, buffer, heard>>,
           queue' = queue, Types', WaitFits', Rests(Line', Line)
    PROVE  IInv'
<1>1. ConnsCalm
  BY DEF ConnsCalm
<1>2. BufferLen' = BufferLen
  BY DEF BufferLen
<1> QED BY <1>1, <1>2, ReaderStepOK DEF ReaderStep

(* An end of stream, or an error, leaves an empty buffer. *)
LEMMA BufferDropped ==
    ASSUME Types, LineFits, UNCHANGED conns, Rests(Line', Line), buffer' = Data(0, 0, 0)
    PROVE  LineFits'
<1>1. Data(0, 0, 0).conn = 0 /\ Data(0, 0, 0).to = 0 /\ Data(0, 0, 0).from = 0
  BY DEF Data, Item
<1>2. BufferLen' = 0 /\ buffer'.conn = 0 /\ 0 \in 0..Len(conns)
  BY <1>1, LenProperties DEF BufferLen, Types
<1>3. ASSUME NEW i \in DOMAIN Line'
      PROVE  Line'[i].conn \in DOMAIN conns /\ (Line'[i].end # "no" => conns[Line'[i].conn].state = "lost")
  BY <1>3 DEF LineFits, Rests, Lost
<1>4. EndsLast(Line)'
  BY DEF LineFits, Rests
<1> QED BY <1>2, <1>3, <1>4 DEF LineFits, Lost

LEMMA TakeItemOK ==
    ASSUME IInv, Line # <<>>, TakeItem(Head(Line)), Line' = Tail(Line), WaitFits',
           queue' \in Seq(ItemType), result' \in Seq(ItemType),
           future' \in {"none", "pending", "cancelled"},
           UNCHANGED <<transport, newTransport, queueSize, queued, want>>
    PROVE  IInv'
<1> SUFFICES ASSUME NEW item, item = Head(Line) PROVE IInv'
  OBVIOUS
<1>1. Types /\ WaitFits /\ LineFits /\ NewFits /\ Alone /\ Line \in Seq(ItemType)
  BY LineProperties DEF IInv
<1>2. /\ Rests(Line', Line) /\ item \in ItemType /\ Names(Line, item.conn)
      /\ \E i \in DOMAIN Line : item = Line[i]
      /\ EndsLast(Line) /\ item.end # "no" => ~Names(Line', item.conn)
      /\ \A r \in Nat : r # item.conn /\ Before(Line, r, item.conn) => ~Names(Line, r)
  BY <1>1, LineTail
<1>3. /\ buffer' = (IF item.end = "no" THEN item ELSE Data(0, 0, 0))
      /\ recvEpoch' = (IF item.end = "eof" THEN recvEpoch + 1 ELSE recvEpoch)
      /\ heard' = (IF item.end = "eof" THEN {} ELSE heard)
      /\ \/ conns' = conns
         \/ item.end = "no" /\ conns' = Pushback(conns, queued, transport).conns
  BY DEF TakeItem
<1>4. ConnsCalm /\ conns' \in Seq(ConnType)
  <2>1. CASE conns' = conns
    BY <1>1, <2>1 DEF ConnsCalm, Types
  <2>2. CASE conns' = Pushback(conns, queued, transport).conns
    BY <1>1, <2>2, PushbackType DEF ConnsCalm, Types
  <2> QED BY <1>3, <2>1, <2>2
<1>5. Data(0, 0, 0) \in ItemType /\ Data(0, 0, 0).conn = 0
      /\ Data(0, 0, 0).to - Data(0, 0, 0).from = 0
  BY DEF Data, Item, ItemType
<1>6. Types'
  <2>1. buffer' \in ItemType /\ recvEpoch' \in Nat /\ heard' \subseteq DOMAIN conns'
    BY <1>1, <1>2, <1>3, <1>4, <1>5 DEF Types, ConnsCalm
  <2>2. transport' \in 0..Len(conns') /\ newTransport' \in 0..Len(conns')
    BY <1>1, <1>4 DEF Types, ConnsCalm
  <2> QED BY <1>1, <1>4, <2>1, <2>2 DEF Types
<1>7. CASE item.end = "no"
  <2>1. buffer' = item /\ UNCHANGED <<recvEpoch, heard>>
    BY <1>3, <1>7
  <2> QED BY <1>2, <1>4, <1>6, <2>1, ReaderStepOK DEF ReaderStep
<1>8. CASE item.end = "other"
  <2>1. buffer' = Data(0, 0, 0) /\ UNCHANGED <<recvEpoch, heard>> /\ conns' = conns
    BY <1>3, <1>8
  <2>2. BufferLen' = 0
    BY <1>5, <2>1 DEF BufferLen
  <2>3. PICK ended : EndedFits(ended) /\ OldFits(ended)
    BY DEF IInv
  <2>4. \A k \in DOMAIN conns : k \in Nat /\ (Has(k)' => Has(k))
    BY <1>1, <1>2, <2>2, LenProperties DEF Has, Rests, Types
  <2>5. \A r, t \in DOMAIN conns : ClosedBefore(r, t) => Before(Line, r, t)'
    BY <1>2, <2>4 DEF ClosedBefore, Rests
  <2>6. NewFits' /\ EndedFits(ended)' /\ OldFits(ended)'
    BY <1>1, <1>4, <1>6, <2>1, <2>3, <2>4, <2>5, Calm
  <2>7. LineFits'
    BY <1>1, <1>2, <2>1, BufferDropped
  <2> QED BY <1>1, <1>4, <1>6, <2>6, <2>7, AloneCalm DEF IInv
<1>9. CASE item.end = "eof"
  <2>1. buffer' = Data(0, 0, 0) /\ recvEpoch' = recvEpoch + 1 /\ heard' = {} /\ conns' = conns
    BY <1>3, <1>9
  <2>2. BufferLen' = 0
    BY <1>5, <2>1 DEF BufferLen
  <2>3. PICK ended : EndedFits(ended) /\ OldFits(ended)
    BY DEF IInv
  <2>4. LineFits'
    BY <1>1, <1>2, <2>1, BufferDropped
  <2>5. DOMAIN conns = 1..Len(conns) /\ Len(conns) \in Nat /\ \A k \in DOMAIN conns : k \in Nat
    BY <1>1, LenProperties DEF Types
  <2>6. \A k \in DOMAIN conns : Has(k)' <=> Names(Line', k)
    BY <2>2 DEF Has
  <2> SUFFICES ASSUME NEW k, k = item.conn PROVE IInv'
    OBVIOUS
  <2>7. k \in DOMAIN conns /\ Lost(k) /\ Has(k) /\ ~Has(k)'
    BY <1>1, <1>2, <1>9, <2>5, <2>6 DEF LineFits, Has
  <2>8. EndedFits(ended \cup {k})'
    <3>1. IsFiniteSet(ended) /\ k \notin ended
      <4>1. IsFiniteSet(1..Len(conns))
        BY <2>5, FS_Interval
      <4> QED BY <2>3, <2>5, <2>7, <4>1, FS_Subset DEF EndedFits
    <3>2. Cardinality(ended \cup {k}) = Cardinality(ended) + 1
      BY <3>1, FS_AddElement
    <3>3. Cardinality(ended \cup {k}) = recvEpoch' - 1
      BY <1>1, <2>1, <2>3, <3>2 DEF EndedFits, Types
    <3>4. \A j \in ended \cup {k} : j \in DOMAIN conns /\ Lost(j)' /\ ~Has(j)'
      BY <1>2, <2>1, <2>3, <2>5, <2>6, <2>7 DEF EndedFits, Rests, Has, Lost
    <3> QED BY <2>1, <3>3, <3>4 DEF EndedFits
  <2>9. \A r, t \in DOMAIN conns : ClosedBefore(r, t) => ClosedBefore(r, t)'
    BY <1>2, <2>1, <2>5 DEF ClosedBefore, Rests
  <2>10. /\ transport # 0 => transport \in DOMAIN conns
         /\ newTransport # 0 => newTransport \in DOMAIN conns
         /\ \A r \in 1..transport : r \in DOMAIN conns
    BY <1>1, <2>5 DEF Types
  <2>11. NewFits'
    BY <1>1, <2>1, <2>9, <2>10 DEF NewFits, Lost
  <2>12. OldFits(ended \cup {k})'
    <3> SUFFICES ASSUME transport # 0, Lost(transport)
                 PROVE  \E r \in 1..(transport - 1) :
                           /\ ClosedBefore(r, transport)'
                           /\ transport \in ended \cup {k} => r \notin heard' /\ ~Has(r)'
      BY <2>1 DEF OldFits, Lost
    <3>1. PICK r \in 1..(transport - 1) :
             /\ ClosedBefore(r, transport) /\ (transport \in ended => r \notin heard /\ ~Has(r))
      BY <2>3 DEF OldFits
    <3>2. r \in DOMAIN conns /\ transport \in DOMAIN conns /\ r # transport /\ r \in Nat
      BY <1>1, <2>5, <2>10 DEF Types
    <3>3. ASSUME transport \in ended \cup {k} PROVE ~Names(Line, r)
      <4>1. CASE transport \in ended
        BY <3>1, <4>1 DEF Has
      <4>2. CASE transport = k
        BY <1>2, <3>1, <3>2, <4>2 DEF ClosedBefore
      <4> QED BY <3>3, <4>1, <4>2
    <3>4. transport \in ended \cup {k} => ~Has(r)'
      BY <1>2, <2>6, <3>2, <3>3 DEF Rests
    <3> QED BY <2>1, <2>9, <3>1, <3>2, <3>4
  <2> QED BY <1>1, <1>4, <1>6, <2>4, <2>8, <2>11, <2>12, AloneCalm DEF IInv
<1> QED BY <1>2, <1>7, <1>8, <1>9 DEF ItemType

--------------------------------------------------------------------------------
(* The application *)

LEMMA RefillOK ==
    ASSUME IInv, Refill
    PROVE  IInv'
<1>1. Types /\ WaitFits
  BY DEF IInv
<1>2. /\ awake /\ pc \in Waiting /\ result = <<>> /\ Line = queue /\ queue \in Seq(ItemType)
      /\ UNCHANGED <<transport, newTransport, queueSize, queued, result, want>>
  BY <1>1, LineProperties DEF Refill, Waiting, WaitFits, Types
<1>3. CASE queue = <<>>
  <2>1. /\ UNCHANGED <<conns, queue, recvEpoch, buffer, pc, heard>>
        /\ future' = "pending" /\ awake' = FALSE
    BY <1>3 DEF Refill
  <2>2. Types' /\ WaitFits' /\ Line' = Line
    BY <1>1, <1>2, <1>3, <2>1 DEF Types, WaitFits, Line
  <2>3. Rests(Line', Line)
    BY <1>2, <2>2, RestsItself
  <2> QED BY <1>2, <2>1, <2>2, <2>3, IdleStep
<1>4. CASE queue # <<>>
  <2>1. future' = "none" /\ queue' = Tail(queue) /\ TakeItem(Head(Line))
    BY <1>2, <1>4 DEF Refill
  <2>2. queue' \in Seq(ItemType) /\ result' \in Seq(ItemType) /\ WaitFits'
    BY <1>1, <1>2, <1>4, <2>1, HeadTailProperties DEF WaitFits, Types
  <2>3. Line' = Tail(Line)
    BY <1>2, <2>1, <2>2, ConcatEmptySeq DEF Line
  <2> QED BY <1>2, <1>4, <2>1, <2>2, <2>3, TakeItemOK
<1> QED BY <1>3, <1>4

LEMMA ResumeOK ==
    ASSUME IInv, Resume
    PROVE  IInv'
<1>1. Types /\ WaitFits
  BY DEF IInv
<1>2. /\ result # <<>> /\ result' = <<>> /\ TakeItem(Head(result)) /\ future = "none"
      /\ UNCHANGED <<transport, newTransport, queueSize, queue, queued, future, want>>
  BY <1>1 DEF Resume, WaitFits
<1>3. Line # <<>> /\ Head(Line) = Head(result) /\ Tail(Line) = queue
  BY <1>1, <1>2, LineProperties
<1>4. Line' = Tail(Line)
  BY <1>1, <1>2, <1>3, ConcatEmptySeq DEF Line, Types
<1>5. /\ queue' \in Seq(ItemType) /\ result' \in Seq(ItemType) /\ WaitFits'
      /\ future' \in {"none", "pending", "cancelled"}
  BY <1>1, <1>2 DEF Types, WaitFits
<1> QED BY <1>2, <1>3, <1>4, <1>5, TakeItemOK

LEMMA ConsumeOK ==
    ASSUME IInv, awake, BufferLen > 0, NEW n \in Int, NEW counted \in Int, NEW next,
           Consume(n, counted, next), want' \in Int, UNCHANGED queueSize
    PROVE  IInv'
<1> DEFINE b == buffer.conn
           c == [conns[b] EXCEPT !.read = buffer.from + n]
           cs == [conns EXCEPT ![b] = c]
<1>1. Types /\ WaitFits /\ LineFits /\ Line \in Seq(ItemType)
  BY LineProperties DEF IInv
<1>2. DOMAIN conns = 1..Len(conns) /\ b \in DOMAIN conns /\ conns[b] \in ConnType
  BY <1>1, LenProperties, ElementOfSeq DEF LineFits, Types
<1>3. buffer \in ItemType /\ buffer' = [buffer EXCEPT !.from = @ + n]
  BY <1>1 DEF Consume, Rest, Types
<1>4. buffer' \in ItemType /\ buffer'.conn = b
  BY <1>3 DEF ItemType
<1>5. c \in ConnType /\ c.state = conns[b].state /\ c.full = conns[b].full
  BY <1>2, <1>3 DEF ConnType, ItemType
<1>6. cs = [conns EXCEPT ![b].read = buffer.from + n]
  BY <1>2
<1>7. /\ queued' = queued - counted /\ heard' = heard \cup {b} /\ conns' = Pushback(cs, Uncount(counted), transport).conns
      /\ UNCHANGED <<transport, newTransport, queueSize, queue, future, result, recvEpoch>>
  BY <1>6 DEF Consume, Uncount
<1> HIDE DEF c
<1>8. /\ cs \in Seq(ConnType) /\ Len(cs) = Len(conns) /\ DOMAIN cs = DOMAIN conns
      /\ \A k \in DOMAIN conns : cs[k].state = conns[k].state /\ cs[k].full = conns[k].full
  BY <1>1, <1>2, <1>5, ExceptSeq DEF Types
<1> HIDE DEF cs
<1>9. /\ conns' \in Seq(ConnType) /\ Len(conns') = Len(conns) /\ DOMAIN conns' = DOMAIN conns
      /\ \A k \in DOMAIN conns : conns'[k].state = conns[k].state /\ conns'[k].full = conns[k].full
  <2>1. transport \in 0..Len(cs)
    BY <1>1, <1>8 DEF Types
  <2> DEFINE p == Pushback(cs, Uncount(counted), transport)
  <2>2. /\ p.conns \in Seq(ConnType) /\ Len(p.conns) = Len(cs) /\ DOMAIN p.conns = DOMAIN cs
        /\ \A k \in DOMAIN cs : p.conns[k].state = cs[k].state /\ p.conns[k].full = cs[k].full
    BY <1>8, <2>1, PushbackType
  <2>3. conns' = p.conns
    BY <1>7
  <2> HIDE DEF p
  <2> QED BY <1>8, <2>2, <2>3
<1>10. ConnsCalm
  BY <1>7, <1>9 DEF ConnsCalm
<1>11. Types'
  BY <1>1, <1>2, <1>4, <1>7, <1>9 DEF Types
<1>12. WaitFits' /\ Line' = Line
  BY <1>1, <1>7 DEF WaitFits, Line
<1>13. Has(b)
  BY DEF Has
<1> QED BY <1>1, <1>4, <1>7, <1>10, <1>11, <1>12, <1>13, RestsItself, ReaderStepOK DEF ReaderStep

LEMMA RecvOK ==
    ASSUME IInv, Recv
    PROVE  IInv'
<1> DEFINE length == IF want = 0 THEN BufferLen ELSE want
           n == IF length <= BufferLen THEN length ELSE BufferLen
<1>1. want \in Int /\ BufferLen \in Int
  BY DEF IInv, Types, BufferLen, ItemType
<1>2. /\ awake /\ BufferLen > 0 /\ Consume(n, n, IF n = length THEN "run" ELSE pc)
      /\ want' = length - n
  BY DEF Recv
<1>3. n \in Int /\ want' \in Int
  BY <1>1, <1>2
<1>4. UNCHANGED queueSize
  BY <1>2 DEF Consume
<1> HIDE DEF n
<1> QED BY <1>2, <1>3, <1>4, ConsumeOK

LEMMA RecvUntilOK ==
    ASSUME IInv, RecvUntil
    PROVE  IInv'
<1>1. want' \in Int /\ BufferLen \in Int /\ buffer.from \in Int /\ awake /\ BufferLen > 0
  BY DEF IInv, Types, BufferLen, ItemType, RecvUntil
<1>2. \/ Consume(BufferLen, BufferLen, pc)
      \/ \E i \in (buffer.from + 1)..buffer.to :
            Consume(i - buffer.from, i - buffer.from - 1, "run")
  BY DEF RecvUntil
<1>3. CASE Consume(BufferLen, BufferLen, pc)
  <2>1. UNCHANGED queueSize
    BY <1>3 DEF Consume
  <2> QED BY <1>1, <1>3, <2>1, ConsumeOK
<1>4. ASSUME NEW i \in (buffer.from + 1)..buffer.to,
             Consume(i - buffer.from, i - buffer.from - 1, "run")
      PROVE  IInv'
  <2>1. i - buffer.from \in Int /\ i - buffer.from - 1 \in Int
    BY <1>1
  <2>2. UNCHANGED queueSize
    BY <1>4 DEF Consume
  <2> QED BY <1>1, <1>4, <2>1, <2>2, ConsumeOK
<1> QED BY <1>2, <1>3, <1>4

LEMMA PausesOK ==
    ASSUME IInv, Wakes \/ Yields \/ Calls \/ RecvWait \/ CancelWait
    PROVE  IInv'
<1>1. Types /\ WaitFits /\ Line \in Seq(ItemType) /\ queue \in Seq(ItemType)
  BY LineProperties DEF IInv, Types
<1>2. UNCHANGED <<conns, transport, newTransport, queueSize, queue, queued, recvEpoch, buffer, heard>>
  BY DEF Wakes, Yields, Calls, RecvWait, CancelWait, streamVars
<1>3. want' \in Int
  <2>1. \A n \in RecvSizes : n \in Int
    BY EndpointAssumption
  <2>2. want' = want \/ want' \in RecvSizes
    BY DEF Wakes, Yields, Calls, RecvWait, CancelWait
  <2> QED BY <1>1, <2>1, <2>2 DEF Types
<1>4. CASE Wakes \/ Yields \/ Calls \/ RecvWait
  <2>1. UNCHANGED <<future, result>>
    BY <1>4 DEF Wakes, Yields, Calls, RecvWait, streamVars
  <2>2. WaitFits'
    BY <1>1, <1>2, <1>4, <2>1 DEF WaitFits, Waiting, Wakes, Yields, Calls, RecvWait
  <2>3. Types' /\ Line' = Line
    BY <1>1, <1>2, <1>3, <2>1 DEF Types, Line
  <2> QED BY <1>1, <1>2, <2>2, <2>3, RestsItself, IdleStep
<1>5. CASE CancelWait
  <2>1. /\ result' = <<>> /\ future' \in {"none", "cancelled"}
        /\ future = "none" => future' = "none"
    BY <1>1, <1>5 DEF CancelWait, Types
  <2>2. WaitFits'
    BY <2>1 DEF WaitFits
  <2>3. <<>> \in Seq(ItemType) /\ Line' = queue
    BY <1>1, <1>2, <2>1, ConcatEmptySeq DEF Line
  <2>4. Types'
    BY <1>1, <1>2, <1>3, <2>1, <2>3 DEF Types
  <2>5. Rests(Line', Line)
    BY <1>1, <2>3, LineProperties, LineTail, RestsItself
  <2> QED BY <1>2, <2>2, <2>4, <2>5, IdleStep
<1> QED BY <1>4, <1>5

(* Only the connections change, and they can only close. *)
LEMMA ConnsStep ==
    ASSUME IInv, ConnsCalm, conns' \in Seq(ConnType),
           UNCHANGED <<streamVars, readerVars>>
    PROVE  IInv'
<1>1. Types /\ WaitFits /\ Line \in Seq(ItemType)
  BY LineProperties DEF IInv
<1>2. Types' /\ WaitFits' /\ Line' = Line /\ BufferLen' = BufferLen
  BY <1>1 DEF Types, WaitFits, Line, BufferLen, ConnsCalm, streamVars, readerVars
<1>3. Rests(Line', Line)
  BY <1>1, <1>2, RestsItself
<1> QED BY <1>2, <1>3, ReaderStepOK DEF ReaderStep, streamVars, readerVars

LEMMA SendOK ==
    ASSUME IInv, Send
    PROVE  IInv'
<1> DEFINE c == [conns[transport] EXCEPT !.full = TRUE]
<1>1. Types /\ transport # 0 /\ queueSize = 0
  BY DEF IInv, Send, CanSend
<1>2. transport \in 1..Len(conns) /\ DOMAIN conns = 1..Len(conns) /\ conns[transport] \in ConnType
  BY <1>1, LenProperties, ElementOfSeq DEF Types
<1>3. c \in ConnType /\ c.state = conns[transport].state
  BY <1>2 DEF ConnType
<1>4. conns' = [conns EXCEPT ![transport] = c]
  BY <1>2 DEF Send
<1> HIDE DEF c
<1>5. /\ conns' \in Seq(ConnType) /\ Len(conns') = Len(conns) /\ DOMAIN conns' = DOMAIN conns
      /\ \A k \in DOMAIN conns : conns'[k].state = conns[k].state
  BY <1>1, <1>2, <1>3, <1>4, ExceptSeq DEF Types
<1>6. ConnsCalm /\ UNCHANGED <<streamVars, readerVars>>
  BY <1>1, <1>5 DEF ConnsCalm, Send
<1> QED BY <1>5, <1>6, ConnsStep

LEMMA CloseOK ==
    ASSUME IInv, Close
    PROVE  IInv'
<1>1. Types /\ transport # 0 /\ conns' = Closed(conns, transport)
  BY DEF IInv, Close
<1>2. transport \in DOMAIN conns
  BY <1>1, LenProperties DEF Types
<1>3. ConnsCalm /\ conns' \in Seq(ConnType) /\ UNCHANGED <<streamVars, readerVars>>
  BY <1>1, <1>2, ClosedType DEF ConnsCalm, Close, Types
<1> QED BY <1>3, ConnsStep

LEMMA SocketEventOK ==
    ASSUME IInv, NEW k \in DOMAIN conns, SocketEvent(k)
    PROVE  IInv'
<1>1. Types /\ UNCHANGED <<transport, newTransport, queueSize, streamVars, readerVars>>
  BY DEF IInv, SocketEvent
<1>2. DOMAIN conns = 1..Len(conns) /\ conns \in Seq(ConnType)
  BY <1>1, LenProperties DEF Types
<1>3. CASE conns' = Closed(conns, k)
  BY <1>1, <1>2, <1>3, ClosedType, ConnsStep DEF ConnsCalm
<1>4. CASE conns' = [conns EXCEPT ![k].full = FALSE]
  <2> DEFINE c == [conns[k] EXCEPT !.full = FALSE]
  <2>1. conns[k] \in ConnType
    BY <1>2
  <2>2. c \in ConnType /\ c.state = conns[k].state /\ c.full = FALSE
    BY <2>1 DEF ConnType
  <2>3. conns' = [conns EXCEPT ![k] = c]
    BY <1>2, <1>4
  <2> HIDE DEF c
  <2>4. /\ conns' \in Seq(ConnType) /\ Len(conns') = Len(conns) /\ DOMAIN conns' = DOMAIN conns
        /\ \A j \in DOMAIN conns : conns'[j].state = conns[j].state /\ (conns'[j].full => conns[j].full)
    BY <1>2, <2>2, <2>3, ExceptSeq
  <2> QED BY <1>1, <2>4, ConnsStep DEF ConnsCalm
<1>5. ASSUME NEW exc \in {"eof", "other"}, conns' = Broken(conns, k, exc) PROVE IInv'
  BY <1>1, <1>2, <1>5, BrokenType, ConnsStep DEF ConnsCalm
<1> QED BY <1>3, <1>4, <1>5 DEF SocketEvent

--------------------------------------------------------------------------------
(* The callbacks of the protocol *)

(* An item of a connection that is not lost yet joins the line. *)
LEMMA LineGrows ==
    ASSUME IInv, NEW x \in ItemType, CheckFuture(Append(queue, x)), UNCHANGED readerVars,
           DOMAIN conns \subseteq DOMAIN conns', Len(conns) <= Len(conns'), Len(conns') \in Nat,
           \A k \in DOMAIN conns : Lost(k) => k # x.conn /\ Lost(k)',
           x.conn \in DOMAIN conns', x.end # "no" => conns'[x.conn].state = "lost"
    PROVE  /\ queue' \in Seq(ItemType) /\ result' \in Seq(ItemType)
           /\ future' \in {"none", "pending", "cancelled"} /\ WaitFits' /\ LineFits'
           /\ \A k \in Nat : Has(k)' => Has(k) \/ k = x.conn
           /\ \A r, t \in Nat : Before(Line, r, t) /\ r # x.conn => Before(Line, r, t)'
<1>1. Types /\ WaitFits /\ LineFits /\ Line \in Seq(ItemType) /\ UNCHANGED <<pc, awake, buffer>>
  BY LineProperties DEF IInv, readerVars
<1>2. /\ queue' \in Seq(ItemType) /\ result' \in Seq(ItemType)
      /\ future' \in {"none", "pending", "cancelled"} /\ WaitFits' /\ Rests(Line', Append(Line, x))
  BY <1>1, CheckFutureAppends
<1>3. /\ \A k \in Nat : Names(Append(Line, x), k) <=> Names(Line, k) \/ x.conn = k
      /\ \A r, t \in Nat : Before(Line, r, t) /\ x.conn # r => Before(Append(Line, x), r, t)
      /\ EndsLast(Line) /\ (\A i \in DOMAIN Line : Line[i].end # "no" => Line[i].conn # x.conn)
            => EndsLast(Append(Line, x))
      /\ \A i \in DOMAIN Append(Line, x) :
            Append(Line, x)[i] = x \/ \E j \in DOMAIN Line : Append(Line, x)[i] = Line[j]
  BY <1>1, LineAppend
<1>4. ASSUME NEW i \in DOMAIN Line'
      PROVE  /\ Line'[i].conn \in DOMAIN conns'
             /\ Line'[i].end # "no" => conns'[Line'[i].conn].state = "lost"
  <2>1. PICK j \in DOMAIN Append(Line, x) : Line'[i] = Append(Line, x)[j]
    BY <1>2 DEF Rests
  <2>2. CASE Line'[i] = x
    BY <2>2
  <2>3. ASSUME NEW m \in DOMAIN Line, Line'[i] = Line[m]
        PROVE  /\ Line'[i].conn \in DOMAIN conns'
               /\ Line'[i].end # "no" => conns'[Line'[i].conn].state = "lost"
    BY <1>1, <2>3 DEF LineFits, Lost
  <2> QED BY <1>3, <2>1, <2>2, <2>3
<1>5. EndsLast(Line)'
  <2>1. \A i \in DOMAIN Line : Line[i].end # "no" => Line[i].conn # x.conn
    BY <1>1 DEF LineFits
  <2> QED BY <1>1, <1>2, <1>3, <2>1 DEF LineFits, Rests
<1>6. /\ buffer'.conn \in 0..Len(conns') /\ (BufferLen' > 0 => buffer'.conn # 0)
      /\ BufferLen' = BufferLen
  <2>1. Len(conns) \in Nat
    BY <1>1, LenProperties DEF Types
  <2> QED BY <1>1, <2>1 DEF LineFits, BufferLen
<1>7. LineFits'
  BY <1>4, <1>5, <1>6 DEF LineFits, Lost
<1>8. \A k \in Nat : Has(k)' => Has(k) \/ k = x.conn
  BY <1>1, <1>2, <1>3, <1>6 DEF Has, Rests
<1>9. \A r, t \in Nat : Before(Line, r, t) /\ r # x.conn => Before(Line, r, t)'
  BY <1>2, <1>3 DEF Rests
<1> QED BY <1>2, <1>7, <1>8, <1>9

LEMMA DataReceivedOK ==
    ASSUME IInv, NEW k \in DOMAIN conns, DataReceived(k)
    PROVE  IInv'
<1>1. /\ Types /\ NewFits /\ Alone /\ DOMAIN conns = 1..Len(conns) /\ Len(conns) \in Nat
      /\ conns[k] \in ConnType /\ k \in Nat /\ conns[k].state = "open" /\ ~Lost(k)
      /\ UNCHANGED <<transport, newTransport, queueSize, readerVars>>
  BY LenProperties, ElementOfSeq DEF IInv, Types, DataReceived, Lost
<1> DEFINE sent == conns[k].sent
<1>2. PICK n \in 1..(bound.bytes - sent) :
         LET push == Pushback([conns EXCEPT ![k].sent = sent + n], queued + n, transport)
             q    == Append(queue, Data(k, sent, sent + n))
         IN  /\ queued' = queued + n
             /\ readPaused' = push.paused
             /\ conns' = IF push.raises \/ future = "cancelled"
                         THEN Broken(push.conns, k, "other") ELSE push.conns
             /\ IF push.raises THEN queue' = q /\ UNCHANGED <<result, future, missed>>
                ELSE CheckFuture(q)
  BY DEF DataReceived
<1> DEFINE c == [conns[k] EXCEPT !.sent = sent + n]
           cs == [conns EXCEPT ![k] = c]
           p == Pushback(cs, queued + n, transport)
           x == Data(k, sent, sent + n)
<1>3. n \in Int /\ sent \in Int /\ sent + n \in Int /\ queued + n \in Int
  BY <1>1 DEF ConnType, Types
<1>4. /\ x \in ItemType /\ x.conn = k /\ x.end = "no"
      /\ c \in ConnType /\ c.state = conns[k].state /\ c.full = conns[k].full
  BY <1>1, <1>3 DEF Data, Item, ItemType, ConnType
<1>5. cs = [conns EXCEPT ![k].sent = sent + n]
  BY <1>1
<1>6. /\ queued' = queued + n
      /\ conns' = IF p.raises \/ future = "cancelled" THEN Broken(p.conns, k, "other") ELSE p.conns
      /\ ~p.raises => CheckFuture(Append(queue, x))
  BY <1>2, <1>5
<1> HIDE DEF c, x
<1>7. /\ cs \in Seq(ConnType) /\ Len(cs) = Len(conns) /\ DOMAIN cs = DOMAIN conns
      /\ \A j \in DOMAIN conns : cs[j].state = conns[j].state /\ cs[j].full = conns[j].full
  BY <1>1, <1>4, ExceptSeq DEF Types
<1> HIDE DEF cs
<1>8. transport \in 0..Len(cs)
  BY <1>1, <1>7 DEF Types
<1>9. /\ p.conns \in Seq(ConnType) /\ Len(p.conns) = Len(conns) /\ DOMAIN p.conns = DOMAIN conns
      /\ \A j \in DOMAIN conns : p.conns[j].state = conns[j].state /\ p.conns[j].full = conns[j].full
      /\ p.raises => transport = 0 /\ queueSize # 0
  BY <1>7, <1>8, PushbackType
<1>10. ~p.raises
  <2> SUFFICES ASSUME transport = 0, queueSize # 0 PROVE FALSE
    BY <1>9
  <2>1. newTransport = 0
    BY <1>1 DEF NewFits
  <2>2. PICK r \in 0..transport : \A j \in DOMAIN conns : ~Lost(j) <=> j \in {r, newTransport}
    BY <1>1 DEF Alone
  <2>3. r = 0 /\ k # 0
    BY <1>1, <2>2
  <2> QED BY <1>1, <2>1, <2>2, <2>3
<1> HIDE DEF p
<1>11. conns' \in Seq(ConnType) /\ ConnsCalm
  <2>1. CASE conns' = p.conns
    BY <1>1, <1>9, <2>1 DEF ConnsCalm
  <2>2. CASE conns' = Broken(p.conns, k, "other")
    <3> SUFFICES ASSUME NEW pushed, pushed = p.conns, NEW exc \in {"eof", "other"}, exc = "other"
                 PROVE  conns' \in Seq(ConnType) /\ ConnsCalm
      OBVIOUS
    <3>1. pushed \in Seq(ConnType) /\ k \in DOMAIN pushed /\ conns' = Broken(pushed, k, exc)
      BY <1>9, <2>2
    <3>2. /\ conns' \in Seq(ConnType) /\ Len(conns') = Len(pushed) /\ DOMAIN conns' = DOMAIN pushed
          /\ \A j \in DOMAIN pushed :
                /\ conns'[j].state = IF j = k /\ pushed[j].state = "open" THEN "closing" ELSE pushed[j].state
                /\ conns'[j].full => pushed[j].full
      BY <3>1, BrokenStep
    <3> QED BY <1>1, <1>9, <3>2 DEF ConnsCalm
  <2> QED BY <1>6, <2>1, <2>2
<1>12. \A j \in DOMAIN conns : Lost(j) => j # k /\ Lost(j)'
  BY <1>1, <1>11 DEF ConnsCalm, Lost
<1>13. /\ queue' \in Seq(ItemType) /\ result' \in Seq(ItemType)
       /\ future' \in {"none", "pending", "cancelled"} /\ WaitFits' /\ LineFits'
       /\ \A j \in Nat : Has(j)' => Has(j) \/ j = k
       /\ \A r, t \in Nat : Before(Line, r, t) /\ r # k => Before(Line, r, t)'
  BY <1>1, <1>4, <1>6, <1>10, <1>11, <1>12, LineGrows DEF ConnsCalm
<1>14. Types'
  BY <1>1, <1>3, <1>6, <1>11, <1>13 DEF Types, ConnsCalm, readerVars
<1>15. PICK ended : EndedFits(ended) /\ OldFits(ended)
  BY DEF IInv
<1>16. \A j \in DOMAIN conns : j \in Nat /\ (Has(j)' => Has(j) \/ conns[j].state = "open")
  BY <1>1, <1>13
<1>17. \A r, t \in DOMAIN conns : ClosedBefore(r, t) => Before(Line, r, t)'
  BY <1>1, <1>13, <1>16 DEF ClosedBefore
<1>18. UNCHANGED <<recvEpoch, heard>>
  BY <1>1 DEF readerVars
<1>19. NewFits' /\ EndedFits(ended)' /\ OldFits(ended)'
  BY <1>1, <1>11, <1>14, <1>15, <1>16, <1>17, <1>18, Calm
<1> QED BY <1>1, <1>11, <1>13, <1>14, <1>19, AloneCalm DEF IInv

LEMMA ConnectionMadeOK ==
    ASSUME IInv, ConnectionMade
    PROVE  IInv'
<1> SUFFICES ASSUME NEW k, k = Len(conns) + 1 PROVE IInv'
  OBVIOUS
<1> DEFINE old == IF transport = 0 THEN conns ELSE Closed(conns, transport)
           t == IF transport = 0 THEN k ELSE transport
           c == [state |-> "open", exc |-> "eof", full |-> FALSE, paused |-> FALSE,
                 sent |-> 0, read |-> 0]
           cs == Append(old, c)
           x == Data(k, 0, 0)
           p == Pushback(cs, queued, t)
<1>1. /\ Types /\ NewFits /\ Alone /\ DOMAIN conns = 1..Len(conns) /\ Len(conns) \in Nat /\ k \in Nat
      /\ transport' = t /\ newTransport' = (IF transport = 0 THEN newTransport ELSE k)
      /\ conns' = p.conns /\ CheckFuture(Append(queue, x)) /\ ~OldOneDying
      /\ UNCHANGED <<queueSize, queued, readerVars>>
  BY LenProperties DEF IInv, Types, ConnectionMade
<1>2. /\ c \in ConnType /\ c.state = "open" /\ c.full = FALSE
      /\ x \in ItemType /\ x.conn = k /\ x.end = "no"
  BY <1>1 DEF ConnType, Data, Item, ItemType
<1>3. /\ old \in Seq(ConnType) /\ Len(old) = Len(conns) /\ DOMAIN old = DOMAIN conns
      /\ \A j \in DOMAIN conns :
            /\ old[j].state = IF j = transport /\ conns[j].state = "open" THEN "closing"
                              ELSE conns[j].state
            /\ old[j].full = conns[j].full
  <2>1. CASE transport = 0
    BY <1>1, <2>1 DEF Types
  <2>2. CASE transport # 0
    <3>1. transport \in DOMAIN conns /\ conns \in Seq(ConnType) /\ old = Closed(conns, transport)
      BY <1>1, <2>2 DEF Types
    <3> QED BY <3>1, ClosedType
  <2> QED BY <2>1, <2>2
<1> HIDE DEF old, c, x
<1>4. /\ cs \in Seq(ConnType) /\ Len(cs) = k /\ DOMAIN cs = 1..k /\ cs[k] = c
      /\ \A j \in DOMAIN conns : cs[j] = old[j]
  BY <1>1, <1>2, <1>3, AppendProperties, LenProperties
<1> HIDE DEF cs
<1>5. t \in 0..Len(cs)
  BY <1>1, <1>4 DEF Types
<1>6. /\ conns' \in Seq(ConnType) /\ Len(conns') = k /\ DOMAIN conns' = 1..k
      /\ \A j \in 1..k : conns'[j].state = cs[j].state /\ conns'[j].full = cs[j].full
  BY <1>1, <1>4, <1>5, PushbackType
<1> HIDE DEF p
<1>7. /\ \A j \in DOMAIN conns :
            /\ conns'[j].state = (IF j = transport /\ conns[j].state = "open" THEN "closing"
                                  ELSE conns[j].state)
            /\ conns'[j].full = conns[j].full
            /\ (Lost(j)' <=> Lost(j)) /\ j # k /\ j \in 1..k
      /\ conns'[k].state = "open" /\ conns'[k].full = FALSE /\ ~Lost(k)' /\ k \in 1..k
  BY <1>1, <1>2, <1>3, <1>4, <1>6 DEF Lost
<1>8. /\ queue' \in Seq(ItemType) /\ result' \in Seq(ItemType)
      /\ future' \in {"none", "pending", "cancelled"} /\ WaitFits' /\ LineFits'
      /\ \A j \in Nat : Has(j)' => Has(j) \/ j = k
      /\ \A r, u \in Nat : Before(Line, r, u) /\ r # k => Before(Line, r, u)'
  <2>1. DOMAIN conns \subseteq DOMAIN conns' /\ Len(conns) <= Len(conns') /\ Len(conns') \in Nat
    BY <1>1, <1>6
  <2>2. \A j \in DOMAIN conns : Lost(j) => j # x.conn /\ Lost(j)'
    BY <1>2, <1>7
  <2> QED BY <1>1, <1>2, <1>6, <2>1, <2>2, LineGrows
<1>9. Types'
  <2>1. transport' \in 0..k /\ newTransport' \in 0..k
    BY <1>1 DEF Types
  <2>2. heard' \subseteq DOMAIN conns'
    BY <1>1, <1>6 DEF Types, readerVars
  <2> QED BY <1>1, <1>6, <1>8, <2>1, <2>2 DEF Types, readerVars
<1>10. \A r, u \in DOMAIN conns : ClosedBefore(r, u) => ClosedBefore(r, u)'
  BY <1>1, <1>7, <1>8 DEF ClosedBefore
<1>11. PICK ended : EndedFits(ended) /\ OldFits(ended)
  BY DEF IInv
<1>12. EndedFits(ended)'
  <2>1. \A j \in ended : j \in DOMAIN conns /\ j \in Nat /\ j # k /\ Lost(j)'
    BY <1>1, <1>7, <1>11 DEF EndedFits
  <2>2. \A j \in ended : j \in DOMAIN conns' /\ j \notin heard' /\ ~Has(j)'
    BY <1>1, <1>6, <1>8, <1>11, <2>1 DEF EndedFits, readerVars
  <2> QED BY <1>1, <1>11, <2>1, <2>2 DEF EndedFits, readerVars
<1>13. CASE transport = 0
  <2>1. transport' = k /\ newTransport' = 0
    BY <1>1, <1>13 DEF NewFits
  <2>2. NewFits' /\ OldFits(ended)'
    BY <1>7, <2>1 DEF NewFits, OldFits
  <2>3. Alone'
    <3> SUFFICES ASSUME queueSize # 0 PROVE Alone'
      BY <1>1 DEF Alone
    <3>1. \A j \in DOMAIN conns : Lost(j) /\ ~conns[j].full
      BY <1>1, <1>13, <2>1 DEF Alone, NewFits
    <3>2. \A j \in 1..k : j = k \/ j \in DOMAIN conns
      BY <1>1
    <3>3. \A j \in DOMAIN conns' : ~conns'[j].full /\ (~Lost(j)' <=> j \in {k, newTransport'})
      BY <1>1, <1>6, <1>7, <2>1, <3>1, <3>2
    <3> QED BY <1>1, <2>1, <3>3 DEF Alone
  <2> QED BY <1>8, <1>9, <1>12, <2>2, <2>3 DEF IInv
<1>14. CASE transport # 0
  <2>1. transport' = transport /\ newTransport' = k /\ transport \in DOMAIN conns
    BY <1>1, <1>14 DEF Types
  <2>2. \A r \in DOMAIN conns : r \in 1..transport /\ conns'[r].state = "closing" => \E s \in 1..transport : ClosedBefore(s, k)'
    <3> SUFFICES ASSUME NEW r \in DOMAIN conns, r \in 1..transport, conns'[r].state = "closing"
                 PROVE  Before(Line, r, k)'
      BY DEF ClosedBefore
    <3>1. ~Names(Line, k)
      BY <1>1 DEF IInv, LineFits, Names
    <3>2. Before(Line, r, k)
      BY <3>1 DEF Before, Names
    <3> QED BY <1>1, <1>7, <1>8, <3>2
  <2>3. NewFits'
    <3>1. \E r \in DOMAIN conns : r \in 1..transport /\ conns'[r].state = "closing"
      <4>1. CASE Lost(transport)
        <5>1. PICK r \in 1..(transport - 1) : ClosedBefore(r, transport)
          BY <1>11, <1>14, <4>1 DEF OldFits
        <5>2. r \in DOMAIN conns /\ r \in 1..transport /\ r # transport
          BY <1>1, <2>1
        <5> QED BY <1>7, <5>1, <5>2 DEF ClosedBefore
      <4>2. CASE ~Lost(transport)
        <5>1. conns[transport].state \in {"open", "closing", "lost"}
          <6>1. conns \in Seq(ConnType) /\ transport \in 1..Len(conns)
            BY <1>1, <2>1 DEF Types
          <6>2. conns[transport] \in ConnType
            BY <6>1, ElementOfSeq
          <6> QED BY <6>2 DEF ConnType
        <5> QED BY <1>1, <1>7, <2>1, <4>2, <5>1 DEF Lost
      <4> QED BY <4>1, <4>2
    <3>2. transport < k
      BY <1>1, <2>1
    <3> QED BY <1>7, <1>14, <2>1, <2>2, <3>1, <3>2 DEF NewFits
  <2>4. OldFits(ended)'
    <3> SUFFICES ASSUME Lost(transport)
                 PROVE  \E r \in 1..(transport - 1) :
                           /\ ClosedBefore(r, transport)'
                           /\ transport \in ended => r \notin heard' /\ ~Has(r)'
      BY <1>7, <2>1 DEF OldFits
    <3>1. PICK r \in 1..(transport - 1) :
             /\ ClosedBefore(r, transport) /\ (transport \in ended => r \notin heard /\ ~Has(r))
      BY <1>11, <1>14 DEF OldFits
    <3>2. r \in DOMAIN conns /\ r \in Nat /\ r # k
      BY <1>1, <2>1
    <3> QED BY <1>1, <1>8, <1>10, <2>1, <3>1, <3>2 DEF readerVars
  <2>5. Alone'
    <3> SUFFICES ASSUME queueSize # 0 PROVE Alone'
      BY <1>1 DEF Alone
    <3>1. PICK r \in 0..transport :
             /\ transport # 0 => r # 0
             /\ \A j \in DOMAIN conns : ~Lost(j) <=> j \in {r, newTransport}
             /\ r # 0 /\ r # transport => conns[r].state = "closing"
      BY <1>1 DEF Alone
    <3>2. newTransport = 0
      BY <1>1, <2>1 DEF OldOneDying, Alone
    <3>3. \A j \in 1..k : j = k \/ (j \in DOMAIN conns /\ j # 0)
      BY <1>1
    <3>4. \A j \in DOMAIN conns' : ~conns'[j].full /\ (~Lost(j)' <=> j \in {r, newTransport'})
      BY <1>1, <1>6, <1>7, <2>1, <3>1, <3>2, <3>3 DEF Alone
    <3>5. r # 0 /\ r # transport => conns'[r].state = "closing"
      BY <1>1, <1>7, <2>1, <3>1
    <3> QED BY <2>1, <3>1, <3>4, <3>5 DEF Alone
  <2> QED BY <1>8, <1>9, <1>12, <2>3, <2>4, <2>5 DEF IInv
<1> QED BY <1>13, <1>14

LEMMA ConnectionLostOK ==
    ASSUME IInv, NEW k \in DOMAIN conns, ConnectionLost(k)
    PROVE  IInv'
<1> DEFINE c == [conns[k] EXCEPT !.state = "lost", !.exc = "eof", !.full = FALSE]
           x == Item(k, 0, 0, conns[k].exc)
<1>1. /\ Types /\ NewFits /\ Alone /\ LineFits /\ WaitFits
      /\ DOMAIN conns = 1..Len(conns) /\ Len(conns) \in Nat /\ k \in Nat
      /\ conns[k] \in ConnType /\ conns[k].state = "closing" /\ ~Lost(k)
      /\ UNCHANGED <<queueSize, queued, readPaused, readerVars>>
  BY LenProperties, ElementOfSeq DEF IInv, Types, ConnectionLost, Lost
<1>2. c \in ConnType /\ c.state = "lost" /\ c.full = FALSE /\ x \in ItemType /\ x.conn = k
  <2>1. c \in ConnType /\ c.state = "lost" /\ c.full = FALSE
    BY <1>1 DEF ConnType
  <2>2. conns[k].exc \in {"eof", "other"}
    BY <1>1 DEF ConnType
  <2>3. x \in ItemType /\ x.conn = k
    BY <1>1, <2>2 DEF Item, ItemType
  <2> QED BY <2>1, <2>3
<1>3. conns' = [conns EXCEPT ![k] = c]
  BY <1>1 DEF ConnectionLost
<1> HIDE DEF c
<1>4. /\ conns' \in Seq(ConnType) /\ Len(conns') = Len(conns) /\ DOMAIN conns' = DOMAIN conns
      /\ \A j \in DOMAIN conns : j # k => conns'[j] = conns[j]
      /\ conns'[k] = c
  BY <1>1, <1>2, <1>3, ExceptSeq DEF Types
<1>5. \A j \in DOMAIN conns : /\ Lost(j)' <=> Lost(j) \/ j = k
                              /\ conns'[j].full => conns[j].full
                              /\ j # k => conns'[j].state = conns[j].state
  BY <1>2, <1>4 DEF Lost
<1>6. PICK ended : EndedFits(ended) /\ OldFits(ended)
  BY DEF IInv
<1>7. CASE transport = 0
  <2>1. /\ UNCHANGED <<transport, newTransport, queue, future, result, missed>> /\ newTransport = 0
        /\ UNCHANGED <<recvEpoch, heard, buffer, pc, awake, want>>
    BY <1>1, <1>7 DEF ConnectionLost, NewFits, readerVars
  <2>2. Types' /\ WaitFits' /\ Line' = Line /\ BufferLen' = BufferLen
    BY <1>1, <1>4, <2>1 DEF Types, WaitFits, Line, BufferLen
  <2>3. LineFits'
    BY <1>1, <1>4, <1>5, <2>1, <2>2 DEF LineFits
  <2>4. NewFits' /\ OldFits(ended)'
    BY <1>7, <2>1 DEF NewFits, OldFits
  <2>5. EndedFits(ended)'
    BY <1>4, <1>5, <1>6, <2>1, <2>2 DEF EndedFits, Has
  <2>6. Alone'
    <3> SUFFICES ASSUME queueSize # 0 PROVE FALSE
      BY <1>1 DEF Alone
    <3>1. PICK r \in 0..transport : \A j \in DOMAIN conns : ~Lost(j) <=> j \in {r, newTransport}
      BY <1>1 DEF Alone
    <3>2. r = 0 /\ k # 0
      BY <1>1, <1>7, <3>1
    <3> QED BY <1>1, <2>1, <3>1, <3>2
  <2> QED BY <2>2, <2>3, <2>4, <2>5, <2>6 DEF IInv
<1>8. CASE transport # 0
  <2>1. transport' = newTransport /\ newTransport' = 0 /\ CheckFuture(Append(queue, x))
    BY <1>8 DEF ConnectionLost
  <2> HIDE DEF x
  <2>2. /\ queue' \in Seq(ItemType) /\ result' \in Seq(ItemType)
        /\ future' \in {"none", "pending", "cancelled"} /\ WaitFits' /\ LineFits'
        /\ \A j \in Nat : Has(j)' => Has(j) \/ j = k
        /\ \A r, t \in Nat : Before(Line, r, t) /\ r # k => Before(Line, r, t)'
    <3>1. \A j \in DOMAIN conns : Lost(j) => j # x.conn /\ Lost(j)'
      BY <1>1, <1>2, <1>5
    <3>2. x.conn \in DOMAIN conns' /\ conns'[x.conn].state = "lost"
      BY <1>2, <1>4
    <3>3. DOMAIN conns \subseteq DOMAIN conns' /\ Len(conns) <= Len(conns') /\ Len(conns') \in Nat
      BY <1>1, <1>4
    <3> QED BY <1>1, <1>2, <2>1, <3>1, <3>2, <3>3, LineGrows
  <2>3. UNCHANGED <<recvEpoch, heard, want, buffer>>
    BY <1>1 DEF readerVars
  <2>4. Types'
    BY <1>1, <1>4, <2>1, <2>2, <2>3 DEF Types
  <2>5. NewFits'
    BY <2>1 DEF NewFits
  <2>6. EndedFits(ended)'
    <3>1. \A j \in ended : j \in DOMAIN conns /\ j \in Nat /\ j # k
      BY <1>1, <1>6 DEF EndedFits
    <3> QED BY <1>4, <1>5, <1>6, <2>2, <2>3, <3>1 DEF EndedFits
  <2>7. newTransport # 0 => newTransport \in DOMAIN conns /\ transport \in DOMAIN conns
    BY <1>1, <1>8 DEF Types
  <2>8. OldFits(ended)'
    <3> SUFFICES ASSUME NEW t, t = newTransport, t # 0, conns'[t].state = "lost"
                 PROVE  \E r \in 1..(t - 1) : /\ conns'[r].state = "closing" /\ Before(Line, r, t)'
                                              /\ t \in ended => r \notin heard' /\ ~Has(r)'
      BY <2>1 DEF OldFits, ClosedBefore, Lost
    <3>1. t = k
      <4>1. t \in DOMAIN conns /\ conns[t].state # "lost"
        BY <1>1, <2>7 DEF NewFits, Lost
      <4> QED BY <1>4, <4>1
    <3>2. k \notin ended
      BY <1>1, <1>6 DEF EndedFits
    <3>3. PICK r \in 1..transport : ClosedBefore(r, newTransport)
      BY <1>1 DEF NewFits
    <3>4. r \in DOMAIN conns /\ r \in Nat /\ r # k /\ r \in 1..(t - 1)
      BY <1>1, <2>7, <3>1 DEF NewFits
    <3>5. conns'[r].state = "closing"
      BY <1>5, <3>3, <3>4 DEF ClosedBefore
    <3>6. Before(Line, r, k)'
      BY <1>1, <2>2, <3>1, <3>3, <3>4 DEF ClosedBefore
    <3>7. Before(Line, r, t)'
      BY <3>1, <3>6 DEF Before
    <3> QED BY <3>1, <3>2, <3>4, <3>5, <3>7
  <2>9. Alone'
    <3> SUFFICES ASSUME queueSize # 0 PROVE Alone'
      BY <1>1 DEF Alone
    <3>1. PICK r \in 0..transport :
             /\ transport # 0 => r # 0
             /\ \A j \in DOMAIN conns : ~Lost(j) <=> j \in {r, newTransport}
             /\ r # 0 /\ r # transport => conns[r].state = "closing"
      BY <1>1 DEF Alone
    <3>2. \A j \in DOMAIN conns' : ~conns'[j].full
      BY <1>1, <1>4, <1>5 DEF Alone
    <3>3. r # 0 /\ r \in DOMAIN conns /\ (newTransport # 0 => r < newTransport /\ r <= transport)
      BY <1>1, <1>8, <3>1 DEF NewFits, Types
    <3>4. k \in {r, newTransport}
      BY <1>1, <3>1
    <3>5. CASE k = r
      <4>1. \A j \in DOMAIN conns' : ~Lost(j)' <=> j \in {newTransport, 0}
        BY <1>1, <1>4, <1>5, <3>1, <3>3, <3>5
      <4>2. newTransport \in 0..newTransport
        BY <1>1 DEF Types
      <4> QED BY <2>1, <3>2, <4>1, <4>2 DEF Alone
    <3>6. CASE k = newTransport /\ k # r
      <4>1. \A j \in DOMAIN conns' : ~Lost(j)' <=> j \in {r, 0}
        BY <1>1, <1>4, <1>5, <3>1, <3>3, <3>6
      <4>2. newTransport # 0 /\ r \in 0..newTransport
        BY <1>1, <3>3, <3>6
      <4>3. PICK s \in 1..transport : ClosedBefore(s, newTransport)
        BY <1>1, <4>2 DEF NewFits
      <4>4. s \in DOMAIN conns /\ s # newTransport /\ ~Lost(s)
        BY <1>1, <1>8, <4>2, <4>3 DEF NewFits, Types, ClosedBefore, Lost
      <4>5. s = r
        BY <3>1, <4>4
      <4>6. conns'[r].state = "closing"
        BY <1>5, <3>3, <3>6, <4>3, <4>5 DEF ClosedBefore
      <4> QED BY <2>1, <3>2, <3>3, <4>1, <4>2, <4>6 DEF Alone
    <3> QED BY <3>4, <3>5, <3>6
  <2> QED BY <2>2, <2>4, <2>5, <2>6, <2>8, <2>9 DEF IInv
<1> QED BY <1>7, <1>8

--------------------------------------------------------------------------------
LEMMA InitOK == Init => IInv
<1> SUFFICES ASSUME Init PROVE IInv
  OBVIOUS
<1>1. /\ conns = <<>> /\ queue = <<>> /\ result = <<>> /\ transport = 0 /\ newTransport = 0
      /\ recvEpoch = 1 /\ queued = 0 /\ want = 0 /\ future = "none" /\ heard = {}
      /\ buffer = Data(0, 0, 0)
  BY DEF Init
<1>2. Data(0, 0, 0) \in ItemType /\ Data(0, 0, 0).conn = 0 /\ Data(0, 0, 0).from = 0 /\ Data(0, 0, 0).to = 0
  BY DEF Data, Item, ItemType
<1>3. Types
  BY <1>1, <1>2, EmptySeq DEF Types
<1>4. WaitFits
  BY <1>1 DEF WaitFits
<1>5. Line = <<>> /\ DOMAIN Line = {} /\ BufferLen = 0 /\ Len(conns) = 0 /\ DOMAIN conns = {}
  BY <1>1, <1>2 DEF Line, BufferLen
<1>6. LineFits
  BY <1>1, <1>2, <1>5 DEF LineFits, EndsLast
<1>7. NewFits /\ Alone
  BY <1>1, <1>5 DEF NewFits, Alone
<1>8. EndedFits({}) /\ OldFits({})
  BY <1>1, FS_EmptySet DEF EndedFits, OldFits
<1> QED BY <1>3, <1>4, <1>6, <1>7, <1>8 DEF IInv

LEMMA NextOK == IInv /\ [Next]_vars => IInv'
<1> SUFFICES ASSUME IInv, [Next]_vars PROVE IInv'
  OBVIOUS
<1>1. CASE Callback
  BY <1>1, ConnectionMadeOK, DataReceivedOK, ConnectionLostOK, SocketEventOK DEF Callback
<1>2. CASE Application
  BY <1>2, PausesOK, RefillOK, ResumeOK, RecvOK, RecvUntilOK, SendOK, CloseOK DEF Application
<1>3. CASE UNCHANGED vars
  <2>1. Types /\ WaitFits /\ Line \in Seq(ItemType)
    BY LineProperties DEF IInv
  <2>2. /\ UNCHANGED <<conns, transport, newTransport, queueSize, recvEpoch, buffer, heard, queue>>
        /\ Types' /\ WaitFits' /\ Line' = Line
    BY <1>3, <2>1 DEF vars, streamVars, readerVars, Types, WaitFits, Line
  <2> QED BY <2>1, <2>2, RestsItself, IdleStep
<1> QED BY <1>1, <1>2, <1>3 DEF Next

(* The inductive invariant. *)
THEOREM Inductive == Spec => []IInv
<1> QED BY InitOK, NextOK, PTL DEF Spec

(* What is in the queue is there to be read: the application sleeps in     *)
(* _refill() only while nothing is, whatever futures it cancelled before.  *)
THEOREM WakesWaiter == Spec => []WaiterWoken
<1>1. IInv => WaiterWoken
  BY DEF IInv, WaitFits, WaiterWoken
<1> QED BY <1>1, Inductive, PTL

(* send() writes to the connection that the application has read from, or  *)
(* to nobody, however many connections overlap and in whatever order they  *)
(* break, drop their data or are closed.                                   *)
THEOREM RepliesToItsClient == Spec => []NoCrossTalk
<1>1. ASSUME IInv, CanSend PROVE heard \subseteq {transport}
  <2>1. /\ Types /\ transport # 0 /\ Len(conns) = recvEpoch
        /\ DOMAIN conns = 1..Len(conns) /\ Len(conns) \in Nat /\ transport \in DOMAIN conns
    BY <1>1, LenProperties DEF IInv, CanSend, Types
  <2>2. PICK ended : EndedFits(ended) /\ OldFits(ended)
    BY <1>1 DEF IInv
  <2>3. IsFiniteSet(DOMAIN conns) /\ Cardinality(DOMAIN conns) = Len(conns)
    <3>1. SUFFICES ASSUME NEW n, n = Len(conns)
                   PROVE IsFiniteSet(1..n) /\ Cardinality(1..n) = n
      BY <2>1
    <3>2. 1 \in Int /\ n \in Int /\ n >= 0
      BY <2>1, <3>1
    <3>3. IsFiniteSet(1..n) /\ Cardinality(1..n) = IF 1 > n THEN 0 ELSE n - 1 + 1
      BY ONLY <3>2, FS_Interval
    <3> QED BY <3>2, <3>3
  <2>4. ended \subseteq DOMAIN conns /\ Cardinality(ended) = Len(conns) - 1
    BY <2>1, <2>2 DEF EndedFits
  <2>5. Cardinality(DOMAIN conns \ ended) = 1
    <3>1. DOMAIN conns \cap ended = ended
      BY <2>4
    <3>2. Cardinality(DOMAIN conns \ ended)
             = Cardinality(DOMAIN conns) - Cardinality(DOMAIN conns \cap ended)
      <4>1. SUFFICES ASSUME NEW D, IsFiniteSet(D), D = DOMAIN conns
                     PROVE Cardinality(D \ ended) = Cardinality(D) - Cardinality(D \cap ended)
        BY <2>3
      <4> QED BY ONLY <4>1, FS_Difference
    <3>3. SUFFICES ASSUME NEW n \in Nat, NEW c,
                          c = n - (n - 1), c = Cardinality(DOMAIN conns \ ended)
                   PROVE c = 1
      BY <2>1, <2>3, <2>4, <3>1, <3>2
    <3> QED BY ONLY <3>3
  <2>6. PICK j : DOMAIN conns \ ended = {j}
    <3>1. IsFiniteSet(DOMAIN conns \ ended)
      BY <2>3, FS_Difference
    <3> QED BY <2>5, <3>1, FS_Singleton
  <2>7. heard \subseteq {j}
    BY <2>1, <2>2, <2>6 DEF EndedFits, Types
  <2>8. CASE transport \notin ended
    BY <2>1, <2>6, <2>7, <2>8
  <2>9. CASE transport \in ended
    <3>1. PICK r \in 1..(transport - 1) : ClosedBefore(r, transport) /\ r \notin heard
      BY <2>1, <2>2, <2>9 DEF EndedFits, OldFits
    <3>2. r \in DOMAIN conns /\ r \notin ended
      BY <2>1, <2>2, <3>1 DEF EndedFits, ClosedBefore, Lost
    <3>3. r = j
      BY <2>6, <3>2
    <3> QED BY <2>7, <3>1, <3>3
  <2> QED BY <2>8, <2>9
<1>2. IInv => NoCrossTalk
  BY <1>1 DEF NoCrossTalk
<1> QED BY <1>2, Inductive, PTL
--------------------------------------------------------------------------------
(* What the application reads: sums and chains of items *)

(* The bytes of a line of items. *)
LineSum(L) == Total(L, 1..Len(L))

Sized(L) == \A i \in 1..Len(L) : Amount(L, i) \in Nat

LEMMA SizedCounts ==
    ASSUME NEW L \in Seq(ItemType), Sized(L), NEW m \in 0..Len(L)
    PROVE  Counts(L, 1..m)
<1>1. Len(L) \in Nat /\ 1 \in Int /\ m \in Int
  BY LenProperties
<1>2. IsFiniteSet(1..m)
  BY <1>1, FS_Interval
<1> QED BY <1>1, <1>2 DEF Counts, Sized

LEMMA SumType ==
    ASSUME NEW L \in Seq(ItemType), Sized(L)
    PROVE  LineSum(L) \in Nat
<1>1. Len(L) \in 0..Len(L)
  BY LenProperties
<1>2. Counts(L, 1..Len(L))
  BY <1>1, SizedCounts
<1> QED BY <1>2, TotalFacts DEF LineSum

LEMMA SumEmpty == LineSum(<<>>) = 0
<1>1. 1..Len(<<>>) = {} /\ IsFiniteSet({})
  BY FS_EmptySet
<1>2. Total(<<>>, {}) = 0
  BY <1>1, TotalNothing
<1> QED BY <1>1, <1>2 DEF LineSum

LEMMA SumAppend ==
    ASSUME NEW L \in Seq(ItemType), Sized(L), NEW x \in ItemType, x.to - x.from \in Nat
    PROVE  Sized(Append(L, x)) /\ LineSum(Append(L, x)) = LineSum(L) + (x.to - x.from)
<1> SUFFICES ASSUME NEW M, M = Append(L, x), NEW n \in Nat, n = Len(L)
             PROVE  Sized(M) /\ LineSum(M) = LineSum(L) + (x.to - x.from)
  BY LenProperties
<1>1. Len(M) = n + 1 /\ M[n + 1] = x /\ \A i \in 1..n : M[i] = L[i]
  BY AppendProperties
<1>2. Amount(M, n + 1) = x.to - x.from /\ \A i \in 1..n : Amount(M, i) = Amount(L, i)
  BY <1>1 DEF Amount
<1>3. Sized(M)
  BY <1>1, <1>2 DEF Sized
<1>4. Counts(L, 1..n) /\ SameAmounts(L, M, 1..n) /\ n + 1 \notin 1..n /\ Amount(M, n + 1) \in Nat
  BY <1>2, SizedCounts DEF SameAmounts
<1>5. Total(M, 1..n \cup {n + 1}) = Total(L, 1..n) + Amount(M, n + 1)
  BY ONLY <1>4, TotalJoins
<1>6. 1..n \cup {n + 1} = 1..(n + 1)
  OBVIOUS
<1> QED BY <1>1, <1>2, <1>3, <1>5, <1>6 DEF LineSum

LEMMA SumTail ==
    ASSUME NEW L \in Seq(ItemType), Sized(L), L # <<>>
    PROVE  /\ Sized(Tail(L)) /\ Head(L).to - Head(L).from \in Nat
           /\ LineSum(L) = LineSum(Tail(L)) + (Head(L).to - Head(L).from)
<1> SUFFICES ASSUME NEW M, M = Tail(L), NEW n, n = Len(M), NEW h, h = Amount(L, 1)
             PROVE  Sized(M) /\ Head(L).to - Head(L).from \in Nat
                    /\ LineSum(L) = LineSum(M) + (Head(L).to - Head(L).from)
  OBVIOUS
<1>1. /\ M \in Seq(ItemType) /\ n \in Nat /\ Len(L) = n + 1 /\ Head(L) = L[1]
      /\ \A i \in 1..n : M[i] = L[i + 1]
  BY HeadTailProperties, LenProperties, EmptySeq
<1>2. /\ \A i \in 1..n : i + 1 \in 1..(n + 1) /\ Amount(M, i) = Amount(L, i + 1)
      /\ h = Head(L).to - Head(L).from /\ h \in Nat
  BY <1>1 DEF Amount, Sized
<1>3. Sized(M)
  BY <1>1, <1>2 DEF Sized
<1>4. \A m \in 0..n : Counts(M, 1..m) /\ Counts(L, 1..(m + 1))
  <2> TAKE m \in 0..n
  <2>1. m \in 0..Len(M) /\ m + 1 \in 0..Len(L)
    BY <1>1
  <2> QED BY <1>1, <1>3, <2>1, SizedCounts
<1> DEFINE Good == {m \in Nat : m <= n => Total(L, 1..(m + 1)) = Total(M, 1..m) + h}
<1>5. 0 \in Good
  <2>1. Counts(L, 1..1) /\ Counts(M, 1..0) /\ 1..0 = {} /\ 1 \in 1..1 /\ (1..1) \ {1} = {}
    <3>1. 0 \in 0..n /\ 0 + 1 = 1
      BY <1>1
    <3>2. Counts(L, 1..1) /\ Counts(M, 1..0)
      BY <1>4, <3>1
    <3> QED BY <3>2
  <2>2. Total(M, 1..0) = 0
    BY <2>1, TotalFacts
  <2>3. Total(L, 1..1) = Amount(L, 1) + Total(L, {})
    BY <2>1, TotalFacts
  <2>4. Total(L, {}) = 0
    BY FS_EmptySet, TotalNothing
  <2> QED BY <1>2, <2>2, <2>3, <2>4
<1>6. ASSUME NEW m \in Nat, m \in Good PROVE m + 1 \in Good
  <2> SUFFICES ASSUME m + 1 <= n
               PROVE  Total(L, 1..(m + 2)) = Total(M, 1..(m + 1)) + h
    OBVIOUS
  <2>1. /\ Counts(L, 1..(m + 2)) /\ Counts(M, 1..(m + 1)) /\ m + 2 \in 1..(m + 2) /\ m + 1 \in 1..(m + 1)
        /\ (1..(m + 2)) \ {m + 2} = 1..(m + 1) /\ (1..(m + 1)) \ {m + 1} = 1..m
    <3>1. m + 1 \in 0..n /\ (m + 1) + 1 = m + 2
      BY <1>1
    <3> QED BY <1>4, <3>1
  <2>2. Total(L, 1..(m + 2)) = Amount(L, m + 2) + Total(L, 1..(m + 1)) /\ Total(L, 1..(m + 2)) \in Nat
    BY <2>1, TotalFacts
  <2>3. Total(M, 1..(m + 1)) = Amount(M, m + 1) + Total(M, 1..m) /\ Total(M, 1..(m + 1)) \in Nat
    BY <2>1, TotalFacts
  <2>4. Amount(M, m + 1) = Amount(L, m + 2) /\ Amount(M, m + 1) \in Nat
    <3>1. m + 1 \in 1..n
      BY <1>1
    <3> QED BY <1>1, <1>2, <1>3, <3>1 DEF Sized
  <2>5. Total(L, 1..(m + 1)) = Total(M, 1..m) + h /\ Total(M, 1..m) \in Nat
    <3>1. m \in 0..n /\ m <= n
      BY <1>1
    <3>2. Counts(M, 1..m)
      BY <1>4, <3>1
    <3> QED BY <1>6, <3>1, <3>2, TotalFacts
  <2> QED BY ONLY <1>2, <2>2, <2>3, <2>4, <2>5
<1>7. Nat \subseteq Good
  <2> HIDE DEF Good
  <2> QED BY <1>5, <1>6, NaturalInduction
<1> QED BY <1>1, <1>2, <1>3, <1>7 DEF LineSum

--------------------------------------------------------------------------------
(* The bytes of connection k in a line L: they go on from byte r to byte s, *)
(* without a gap.                                                           *)
FirstOf(L, k, i) == Carries(L[i], k) /\ \A j \in 1..(i - 1) : ~Carries(L[j], k)

Follows(L, k, i, j) ==
    /\ Carries(L[i], k) /\ Carries(L[j], k) /\ i < j
    /\ \A m \in (i + 1)..(j - 1) : ~Carries(L[m], k)

LastOf(L, k, i) == Carries(L[i], k) /\ \A j \in (i + 1)..Len(L) : ~Carries(L[j], k)

Chain(L, k, r, s) ==
    /\ \A i \in 1..Len(L) : FirstOf(L, k, i) => L[i].from = r
    /\ \A i, j \in 1..Len(L) : Follows(L, k, i, j) => L[j].from = L[i].to
    /\ \A i \in 1..Len(L) : LastOf(L, k, i) => L[i].to = s
    /\ (\A i \in 1..Len(L) : ~Carries(L[i], k)) => r = s

LEMMA ChainTail ==
    ASSUME NEW L \in Seq(ItemType), L # <<>>, NEW k, NEW r, NEW s, Chain(L, k, r, s)
    PROVE  /\ Carries(Head(L), k) => Head(L).from = r
           /\ Chain(Tail(L), k, IF Carries(Head(L), k) THEN Head(L).to ELSE r, s)
<1> SUFFICES ASSUME NEW M, M = Tail(L), NEW n, n = Len(M)
             PROVE  /\ Carries(L[1], k) => L[1].from = r
                    /\ Chain(M, k, IF Carries(L[1], k) THEN L[1].to ELSE r, s)
  <2>1. Head(L) = L[1]
    BY HeadTailProperties, LenProperties, EmptySeq
  <2> QED BY <2>1
<1>1. n \in Nat /\ Len(L) = n + 1 /\ \A i \in 1..n : M[i] = L[i + 1]
  BY HeadTailProperties, LenProperties, EmptySeq
<1>2. \A i \in 1..n : Carries(M[i], k) <=> Carries(L[i + 1], k)
  BY <1>1
<1>3. /\ \A i \in 1..(n + 1) : FirstOf(L, k, i) => L[i].from = r
      /\ \A i, j \in 1..(n + 1) : Follows(L, k, i, j) => L[j].from = L[i].to
      /\ \A i \in 1..(n + 1) : LastOf(L, k, i) => L[i].to = s
      /\ (\A i \in 1..(n + 1) : ~Carries(L[i], k)) => r = s
  BY <1>1 DEF Chain
<1>4. Carries(L[1], k) => L[1].from = r
  <2>1. 1 \in 1..(n + 1) /\ 1..(1 - 1) = {}
    BY <1>1
  <2> QED BY <1>3, <2>1 DEF FirstOf
<1>5. \A i \in 1..n : LastOf(M, k, i) => M[i].to = s
  <2> SUFFICES ASSUME NEW i \in 1..n, LastOf(M, k, i) PROVE LastOf(L, k, i + 1)
    BY <1>1, <1>3
  <2>1. ASSUME NEW j \in (i + 2)..(n + 1) PROVE ~Carries(L[j], k)
    <3>1. j - 1 \in (i + 1)..n /\ j - 1 \in 1..n /\ (j - 1) + 1 = j
      BY <1>1
    <3>2. ~Carries(M[j - 1], k)
      BY <3>1 DEF LastOf
    <3> QED BY <1>2, <3>1, <3>2
  <2> QED BY <1>1, <1>2, <2>1 DEF LastOf
<1>6. \A i, j \in 1..n : Follows(M, k, i, j) => M[j].from = M[i].to
  <2> SUFFICES ASSUME NEW i \in 1..n, NEW j \in 1..n, Follows(M, k, i, j)
               PROVE  Follows(L, k, i + 1, j + 1)
    BY <1>1, <1>3
  <2>1. ASSUME NEW m \in (i + 2)..j PROVE ~Carries(L[m], k)
    <3>1. m - 1 \in (i + 1)..(j - 1) /\ m - 1 \in 1..n /\ (m - 1) + 1 = m
      BY <1>1
    <3>2. ~Carries(M[m - 1], k)
      BY <3>1 DEF Follows
    <3> QED BY <1>2, <3>1, <3>2
  <2> QED BY <1>1, <1>2, <2>1 DEF Follows
<1>7. CASE Carries(L[1], k)
  <2>1. \A i \in 1..n : FirstOf(M, k, i) => M[i].from = L[1].to
    <3> SUFFICES ASSUME NEW i \in 1..n, FirstOf(M, k, i) PROVE Follows(L, k, 1, i + 1)
      BY <1>1, <1>3
    <3>1. ASSUME NEW m \in 2..i PROVE ~Carries(L[m], k)
      <4>1. m - 1 \in 1..(i - 1) /\ m - 1 \in 1..n /\ (m - 1) + 1 = m
        BY <1>1
      <4>2. ~Carries(M[m - 1], k)
        BY <4>1 DEF FirstOf
      <4> QED BY <1>2, <4>1, <4>2
    <3> QED BY <1>1, <1>2, <1>7, <3>1 DEF Follows, FirstOf
  <2>2. (\A i \in 1..n : ~Carries(M[i], k)) => L[1].to = s
    <3> SUFFICES ASSUME \A i \in 1..n : ~Carries(M[i], k) PROVE LastOf(L, k, 1)
      BY <1>1, <1>3
    <3>1. ASSUME NEW m \in 2..(n + 1) PROVE ~Carries(L[m], k)
      <4>1. m - 1 \in 1..n /\ (m - 1) + 1 = m
        BY <1>1
      <4> QED BY <1>2, <4>1
    <3> QED BY <1>1, <1>7, <3>1 DEF LastOf
  <2> QED BY <1>4, <1>5, <1>6, <1>7, <2>1, <2>2 DEF Chain
<1>8. CASE ~Carries(L[1], k)
  <2>1. \A i \in 1..n : FirstOf(M, k, i) => M[i].from = r
    <3> SUFFICES ASSUME NEW i \in 1..n, FirstOf(M, k, i) PROVE FirstOf(L, k, i + 1)
      BY <1>1, <1>3
    <3>1. ASSUME NEW m \in 1..i PROVE ~Carries(L[m], k)
      <4>1. m = 1 \/ (m - 1 \in 1..(i - 1) /\ m - 1 \in 1..n /\ (m - 1) + 1 = m)
        BY <1>1
      <4>2. m # 1 => ~Carries(M[m - 1], k)
        BY <4>1 DEF FirstOf
      <4> QED BY <1>2, <1>8, <4>1, <4>2
    <3> QED BY <1>1, <1>2, <3>1 DEF FirstOf
  <2>2. (\A i \in 1..n : ~Carries(M[i], k)) => r = s
    <3> SUFFICES ASSUME \A i \in 1..n : ~Carries(M[i], k), NEW m \in 1..(n + 1) PROVE ~Carries(L[m], k)
      BY <1>3
    <3>1. m = 1 \/ (m - 1 \in 1..n /\ (m - 1) + 1 = m)
      BY <1>1
    <3> QED BY <1>2, <1>8, <3>1
  <2> QED BY <1>4, <1>5, <1>6, <1>8, <2>1, <2>2 DEF Chain
<1> QED BY <1>7, <1>8

LEMMA ChainAppend ==
    ASSUME NEW L \in Seq(ItemType), NEW x \in ItemType, NEW k, NEW r, NEW s, Chain(L, k, r, s),
           Carries(x, k) => x.from = s
    PROVE  Chain(Append(L, x), k, r, IF Carries(x, k) THEN x.to ELSE s)
<1> SUFFICES ASSUME NEW M, M = Append(L, x), NEW n \in Nat, n = Len(L)
             PROVE  Chain(M, k, r, IF Carries(x, k) THEN x.to ELSE s)
  BY LenProperties
<1>1. Len(M) = n + 1 /\ M[n + 1] = x /\ \A i \in 1..n : M[i] = L[i]
  BY AppendProperties
<1>2. /\ \A i \in 1..n : FirstOf(L, k, i) => L[i].from = r
      /\ \A i, j \in 1..n : Follows(L, k, i, j) => L[j].from = L[i].to
      /\ \A i \in 1..n : LastOf(L, k, i) => L[i].to = s
      /\ (\A i \in 1..n : ~Carries(L[i], k)) => r = s
  BY DEF Chain
<1>3. /\ \A i \in 1..n : FirstOf(M, k, i) <=> FirstOf(L, k, i)
      /\ \A i, j \in 1..n : Follows(M, k, i, j) <=> Follows(L, k, i, j)
  BY <1>1 DEF FirstOf, Follows
<1>4. /\ FirstOf(M, k, n + 1) => M[n + 1].from = r
      /\ \A i \in 1..n : Follows(M, k, i, n + 1) => M[n + 1].from = M[i].to
  <2>1. FirstOf(M, k, n + 1) => \A i \in 1..n : ~Carries(L[i], k)
    BY <1>1 DEF FirstOf
  <2>2. \A i \in 1..n : Follows(M, k, i, n + 1) => LastOf(L, k, i)
    BY <1>1 DEF Follows, LastOf
  <2> QED BY <1>1, <1>2, <2>1, <2>2 DEF FirstOf, Follows
<1>5. \A i \in 1..(n + 1) : i \in 1..n \/ i = n + 1
  OBVIOUS
<1>6. \A i, j \in 1..(n + 1) : Follows(M, k, i, j) => i \in 1..n
  BY DEF Follows
<1>7. /\ \A i \in 1..(n + 1) : FirstOf(M, k, i) => M[i].from = r
      /\ \A i, j \in 1..(n + 1) : Follows(M, k, i, j) => M[j].from = M[i].to
  BY <1>1, <1>2, <1>3, <1>4, <1>5, <1>6
<1>8. CASE Carries(x, k)
  <2>1. \A i \in 1..n : ~LastOf(M, k, i)
    BY <1>1, <1>8 DEF LastOf
  <2>2. n + 1 \in 1..(n + 1) /\ Carries(M[n + 1], k)
    BY <1>1, <1>8
  <2> QED BY <1>1, <1>5, <1>7, <1>8, <2>1, <2>2 DEF Chain
<1>9. CASE ~Carries(x, k)
  <2>1. \A i \in 1..n : LastOf(M, k, i) => LastOf(L, k, i)
    BY <1>1 DEF LastOf
  <2>2. ~LastOf(M, k, n + 1)
    BY <1>1, <1>9 DEF LastOf
  <2>3. (\A i \in 1..(n + 1) : ~Carries(M[i], k)) => \A i \in 1..n : ~Carries(L[i], k)
    BY <1>1
  <2> QED BY <1>1, <1>2, <1>5, <1>7, <1>9, <2>1, <2>2, <2>3 DEF Chain
<1> QED BY <1>8, <1>9
--------------------------------------------------------------------------------
(* What the callbacks and calls leave of the streams of the connections, and *)
(* which of them they pause                                                  *)

Streams(cs, ds) == \A k \in DOMAIN cs : ds[k].sent = cs[k].sent /\ ds[k].read = cs[k].read

Held(c) == c.state = "open" /\ c.paused

LEMMA ClosedStreams ==
    ASSUME NEW cs \in Seq(ConnType), NEW t \in DOMAIN cs
    PROVE  /\ Streams(cs, Closed(cs, t))
           /\ \A k \in DOMAIN cs : Held(Closed(cs, t)[k]) => Held(cs[k]) /\ k # t
<1>1. DOMAIN cs = 1..Len(cs) /\ cs[t] \in ConnType
  BY LenProperties
<1> DEFINE c == [cs[t] EXCEPT !.state = "closing", !.paused = FALSE]
<1>2. c.sent = cs[t].sent /\ c.read = cs[t].read /\ c.state = "closing"
  BY <1>1 DEF ConnType
<1>3. Closed(cs, t) = IF cs[t].state = "open" THEN [cs EXCEPT ![t] = c] ELSE cs
  BY DEF Closed
<1> HIDE DEF c
<1> QED BY <1>2, <1>3 DEF Streams, Held

LEMMA ReadingStreams ==
    ASSUME NEW cs \in Seq(ConnType), NEW t \in DOMAIN cs, NEW p \in BOOLEAN
    PROVE  /\ Streams(cs, Reading(cs, t, p))
           /\ \A k \in DOMAIN cs : Held(Reading(cs, t, p)[k]) => IF k = t THEN p ELSE Held(cs[k])
<1>1. DOMAIN cs = 1..Len(cs) /\ cs[t] \in ConnType
  BY LenProperties
<1> DEFINE c == [cs[t] EXCEPT !.paused = p]
<1>2. c.sent = cs[t].sent /\ c.read = cs[t].read /\ c.paused = p
  BY <1>1 DEF ConnType
<1>3. Reading(cs, t, p) = IF cs[t].state = "open" THEN [cs EXCEPT ![t] = c] ELSE cs
  BY DEF Reading
<1> HIDE DEF c
<1>4. CASE cs[t].state = "open"
  BY <1>2, <1>3, <1>4 DEF Streams, Held
<1>5. CASE cs[t].state # "open"
  BY <1>3, <1>5 DEF Streams, Held
<1> QED BY <1>4, <1>5

LEMMA BrokenStreams ==
    ASSUME NEW cs \in Seq(ConnType), NEW t \in DOMAIN cs, NEW exc
    PROVE  /\ Streams(cs, Broken(cs, t, exc))
           /\ \A k \in DOMAIN cs : Held(Broken(cs, t, exc)[k]) => Held(cs[k])
<1> DEFINE cl == Closed(cs, t)
<1>1. /\ cl \in Seq(ConnType) /\ DOMAIN cl = DOMAIN cs /\ Streams(cs, cl)
      /\ \A k \in DOMAIN cs : Held(cl[k]) => Held(cs[k])
  BY ClosedType, ClosedStreams
<1> DEFINE full == cs[t].full /\ cs[t].state # "open"
<1>2. Broken(cs, t, exc) = [cl EXCEPT ![t].exc = exc, ![t].full = full]
  BY DEF Broken
<1>7. full \in BOOLEAN /\ (full => cs[t].full)
  OBVIOUS
<1> HIDE DEF cl, full
<1> DEFINE c == [cl[t] EXCEPT !.exc = exc, !.full = full]
<1>3. DOMAIN cl = 1..Len(cl) /\ cl[t] \in ConnType
  BY <1>1, LenProperties
<1>4. c.sent = cl[t].sent /\ c.read = cl[t].read /\ c.state = cl[t].state /\ c.paused = cl[t].paused
  BY <1>3 DEF ConnType
<1>5. Broken(cs, t, exc) = [cl EXCEPT ![t] = c]
  BY <1>2
<1> HIDE DEF c
<1> QED BY <1>1, <1>4, <1>5 DEF Streams, Held

(* Pushback pauses only the transport, and only while the queue is full. *)
LEMMA PushbackStreams ==
    ASSUME NEW cs \in Seq(ConnType), NEW count, NEW t \in 0..Len(cs), NEW p, p = Pushback(cs, count, t)
    PROVE  Streams(cs, p.conns)
<1>1. \/ p.conns = cs
      \/ t # 0 /\ \E pause \in BOOLEAN : p.conns = Reading(cs, t, pause)
  BY DEF Pushback
<1>2. t # 0 => t \in DOMAIN cs
  BY LenProperties
<1>3. CASE p.conns = cs
  BY <1>3 DEF Streams
<1>4. CASE t # 0 /\ \E pause \in BOOLEAN : p.conns = Reading(cs, t, pause)
  <2>1. PICK pause \in BOOLEAN : p.conns = Reading(cs, t, pause)
    BY <1>4
  <2> QED BY <1>2, <1>4, <2>1, ReadingStreams
<1> QED BY <1>1, <1>3, <1>4

LEMMA PushbackHolds ==
    ASSUME NEW cs \in Seq(ConnType), NEW count \in Int, NEW t \in 0..Len(cs), NEW p,
           p = Pushback(cs, count, t), queueSize \in Nat, readPaused \in BOOLEAN,
           readPaused => queueSize # 0,
           \A k \in DOMAIN cs : Held(cs[k]) => readPaused /\ k = t
    PROVE  /\ p.paused \in BOOLEAN
           /\ \A k \in DOMAIN cs : Held(p.conns[k]) => p.paused /\ k = t
           /\ p.paused /\ ~p.raises => queueSize # 0 /\ count >= queueSize
<1> DEFINE pause == queueSize # 0 /\ ~readPaused /\ count >= queueSize
           resume == queueSize # 0 /\ readPaused /\ count < queueSize
<1>1. /\ p.raises = ((pause \/ resume) /\ t = 0)
      /\ p.paused = (IF (pause \/ resume) /\ t # 0 THEN pause ELSE readPaused)
      /\ p.conns = (IF (pause \/ resume) /\ t # 0 THEN Reading(cs, t, pause) ELSE cs)
  BY DEF Pushback
<1>2. t # 0 => t \in DOMAIN cs
  BY LenProperties
<1>3. CASE (pause \/ resume) /\ t # 0
  <2>1. p.paused = pause /\ pause \in BOOLEAN
    BY <1>1, <1>3
  <2>2. \A k \in DOMAIN cs : Held(p.conns[k]) => IF k = t THEN pause ELSE Held(cs[k])
    BY <1>1, <1>2, <1>3, <2>1, ReadingStreams
  <2> QED BY <2>1, <2>2
<1>4. CASE ~((pause \/ resume) /\ t # 0)
  <2>1. p.paused = readPaused /\ p.conns = cs
    BY <1>1, <1>4
  <2>2. ASSUME readPaused, ~(count >= queueSize) PROVE p.raises
    <3>1. resume
      BY <2>2
    <3>2. t = 0
      BY <1>4, <3>1
    <3> QED BY <1>1, <3>1, <3>2
  <2> QED BY <2>1, <2>2
<1> QED BY <1>3, <1>4

--------------------------------------------------------------------------------
(* Setting the result of a future *)

(* The item joins the line, unless the future was cancelled: then the head *)
(* of the line is lost.                                                    *)
LEMMA CheckFutureLine ==
    ASSUME Types, WaitFits, NEW x \in ItemType, CheckFuture(Append(queue, x))
    PROVE  /\ future' # "pending"
           /\ result' # <<>> => result # <<>> \/ future = "pending"
           /\ \/ future # "cancelled" /\ Line' = Append(Line, x) /\ missed' = missed /\ future' = "none"
              \/ /\ future = "cancelled" /\ Line' = Tail(Append(Line, x)) /\ missed' = TRUE
                 /\ future' = future
<1>1. queue \in Seq(ItemType) /\ result \in Seq(ItemType) /\ Append(queue, x) \in Seq(ItemType)
      /\ Append(Line, x) \in Seq(ItemType) /\ Line \in Seq(ItemType)
  BY LineAppend, LineProperties DEF Types
<1>2. CASE future = "none"
  <2>1. queue' = Append(queue, x) /\ UNCHANGED <<result, future, missed>>
    BY <1>2 DEF CheckFuture
  <2>2. Line' = Append(Line, x)
    <3>1. Append(queue, x) = queue \o <<x>> /\ Append(Line, x) = Line \o <<x>>
      BY <1>1, AppendIsConcat
    <3>2. <<x>> \in Seq(ItemType)
      OBVIOUS
    <3>3. result \o (queue \o <<x>>) = (result \o queue) \o <<x>>
      BY <1>1, <3>2, ConcatAssociative
    <3> QED BY <2>1, <3>1, <3>3 DEF Line
  <2> QED BY <1>2, <2>1, <2>2
<1>3. CASE future = "pending"
  <2>1. queue = <<>> /\ result = <<>> /\ Append(queue, x) = <<x>>
    BY <1>3 DEF WaitFits
  <2>2. queue' = <<>> /\ result' = <<x>> /\ future' = "none" /\ missed' = missed
    BY <1>3, <2>1 DEF CheckFuture
  <2>3. <<x>> \in Seq(ItemType) /\ <<>> \in Seq(ItemType)
    OBVIOUS
  <2>4. Line = <<>> /\ Line' = <<x>>
    BY <2>1, <2>2, <2>3, ConcatEmptySeq DEF Line
  <2> QED BY <1>3, <2>2, <2>4
<1>4. CASE future = "cancelled"
  <2>1. queue' = Tail(Append(queue, x)) /\ UNCHANGED <<result, future>> /\ missed' = TRUE
    BY <1>4 DEF CheckFuture
  <2>2. result = <<>>
    BY <1>4 DEF WaitFits
  <2>3. Append(queue, x) # <<>>
    BY <1>1, AppendProperties
  <2>4. queue' \in Seq(ItemType)
    BY <1>1, <2>1, <2>3, HeadTailProperties
  <2>5. Line = queue /\ Line' = queue'
    BY <1>1, <2>1, <2>2, <2>4, ConcatEmptySeq DEF Line
  <2> QED BY <1>4, <2>1, <2>2, <2>5
<1> QED BY <1>2, <1>3, <1>4 DEF Types
--------------------------------------------------------------------------------
(* The bytes in the line L and the buffer b, of connections cs, when q are  *)
(* counted: no connection has more than `max`; what is counted is enough,   *)
(* and exact if there is a limit qs; and unless an item was missed (m), the *)
(* items go on from what was read to what was sent.                         *)

InRange(x, max) ==
    /\ x.from \in 0..max /\ x.to \in 0..max /\ x.from <= x.to
    /\ x.end # "no" => x.from = x.to

Ranged(L, b, cs, max) ==
    /\ \A i \in 1..Len(L) : InRange(L[i], max)
    /\ InRange(b, max)
    /\ \A k \in DOMAIN cs : cs[k].sent \in 0..max /\ cs[k].read \in 0..max

Counted(L, b, q, qs) ==
    /\ q >= (b.to - b.from) + LineSum(L)
    /\ qs # 0 => q = (b.to - b.from) + LineSum(L)

Reached(b, k, read) == IF Carries(b, k) THEN b.to ELSE read

Streamed(L, b, cs) ==
    \A k \in DOMAIN cs :
        /\ Carries(b, k) => b.from = cs[k].read
        /\ Chain(L, k, Reached(b, k, cs[k].read), cs[k].sent)

DataFits(L, b, cs, q, qs, max, m) ==
    Ranged(L, b, cs, max) /\ Counted(L, b, q, qs) /\ (~m => Streamed(L, b, cs))

LEMMA RangedSized ==
    ASSUME NEW L, NEW max \in Nat, \A i \in 1..Len(L) : InRange(L[i], max)
    PROVE  Sized(L)
<1> SUFFICES ASSUME NEW i \in 1..Len(L) PROVE L[i].to - L[i].from \in Nat
  BY DEF Sized, Amount
<1> QED BY DEF InRange

(* The connections change, but not what they sent and was read from them. *)
LEMMA DataStill ==
    ASSUME NEW L, NEW b, NEW cs, NEW ds, NEW q, NEW qs, NEW max, NEW m,
           DataFits(L, b, cs, q, qs, max, m), DOMAIN ds = DOMAIN cs, Streams(cs, ds)
    PROVE  DataFits(L, b, ds, q, qs, max, m)
<1>1. Ranged(L, b, ds, max)
  BY DEF DataFits, Ranged, Streams
<1>2. Streamed(L, b, cs) => Streamed(L, b, ds)
  BY DEF Streamed, Streams
<1> QED BY <1>1, <1>2 DEF DataFits

LEMMA TailRanged ==
    ASSUME NEW L \in Seq(ItemType), L # <<>>, NEW max \in Nat,
           \A i \in 1..Len(L) : InRange(L[i], max)
    PROVE  InRange(Head(L), max) /\ \A i \in 1..Len(Tail(L)) : InRange(Tail(L)[i], max)
<1>1. /\ Len(Tail(L)) \in Nat /\ Len(L) = Len(Tail(L)) + 1 /\ Head(L) = L[1]
      /\ \A i \in 1..Len(Tail(L)) : Tail(L)[i] = L[i + 1]
  BY HeadTailProperties, LenProperties, EmptySeq
<1>2. 1 \in 1..Len(L) /\ \A i \in 1..Len(Tail(L)) : i + 1 \in 1..Len(L)
  BY <1>1
<1> QED BY <1>1, <1>2

(* The head of the line moves into the empty buffer. *)
LEMMA DataTake ==
    ASSUME NEW L \in Seq(ItemType), NEW b \in ItemType, NEW cs, NEW q \in Int, NEW qs,
           NEW max \in Nat, NEW m, DataFits(L, b, cs, q, qs, max, m), L # <<>>, b.to - b.from = 0,
           NEW c, c = (IF Head(L).end = "no" THEN Head(L) ELSE Data(0, 0, 0))
    PROVE  DataFits(Tail(L), c, cs, q, qs, max, m)
<1>1. /\ \A i \in 1..Len(L) : InRange(L[i], max)
      /\ \A k \in DOMAIN cs : cs[k].sent \in 0..max /\ cs[k].read \in 0..max
      /\ Counted(L, b, q, qs) /\ (~m => Streamed(L, b, cs))
  BY DEF DataFits, Ranged
<1>2. InRange(Head(L), max) /\ \A i \in 1..Len(Tail(L)) : InRange(Tail(L)[i], max)
  BY <1>1, TailRanged
<1>3. /\ Data(0, 0, 0).from = 0 /\ Data(0, 0, 0).to = 0 /\ Data(0, 0, 0).conn = 0
      /\ Data(0, 0, 0).end = "no"
  BY DEF Data, Item
<1>4. InRange(c, max) /\ c.to - c.from = Head(L).to - Head(L).from
      /\ \A k : Carries(c, k) <=> Carries(Head(L), k)
  <2>1. CASE Head(L).end = "no"
    BY <1>2, <2>1
  <2>2. CASE Head(L).end # "no"
    <3>1. Head(L).from = Head(L).to /\ Head(L).to \in Int
      BY <1>2, <2>2 DEF InRange
    <3>2. c = Data(0, 0, 0)
      BY <2>2
    <3> QED BY <1>3, <3>1, <3>2 DEF InRange, Carries
  <2> QED BY <2>1, <2>2
<1>5. Ranged(Tail(L), c, cs, max)
  BY <1>1, <1>2, <1>4 DEF Ranged
<1>6. Counted(Tail(L), c, q, qs)
  <2>1. Sized(L) /\ Sized(Tail(L)) /\ Tail(L) \in Seq(ItemType)
    BY <1>1, <1>2, RangedSized, HeadTailProperties
  <2>2. LineSum(L) = LineSum(Tail(L)) + (Head(L).to - Head(L).from)
    BY <2>1, SumTail
  <2>3. LineSum(Tail(L)) \in Nat /\ Head(L).to - Head(L).from \in Int
    <3>1. LineSum(Tail(L)) \in Nat
      BY <2>1, SumType
    <3> QED BY <1>2, <3>1 DEF InRange
  <2>4. /\ q >= 0 + LineSum(L) /\ (qs # 0 => q = 0 + LineSum(L))
    BY <1>1 DEF Counted
  <2> SUFFICES ASSUME NEW h \in Int, h = c.to - c.from, NEW s \in Nat, s = LineSum(Tail(L))
               PROVE  q >= h + s /\ (qs # 0 => q = h + s)
    BY <1>4, <2>3 DEF Counted
  <2>5. LineSum(L) = s + h
    BY <1>4, <2>2
  <2> QED BY ONLY <2>4, <2>5, h \in Int, s \in Nat, q \in Int
<1>7. Streamed(L, b, cs) => Streamed(Tail(L), c, cs)
  <2> SUFFICES ASSUME Streamed(L, b, cs), NEW k \in DOMAIN cs
               PROVE  /\ Carries(c, k) => c.from = cs[k].read
                      /\ Chain(Tail(L), k, Reached(c, k, cs[k].read), cs[k].sent)
    BY DEF Streamed
  <2>1. ~Carries(b, k)
    BY DEF Carries, ItemType
  <2>2. Chain(L, k, cs[k].read, cs[k].sent)
    BY <2>1 DEF Streamed, Reached
  <2>3. /\ Carries(Head(L), k) => Head(L).from = cs[k].read
        /\ Chain(Tail(L), k, IF Carries(Head(L), k) THEN Head(L).to ELSE cs[k].read, cs[k].sent)
    BY <2>2, ChainTail
  <2>4. CASE Carries(Head(L), k)
    <3>1. c = Head(L)
      BY <1>2, <2>4 DEF InRange, Carries
    <3> QED BY <2>3, <2>4, <3>1 DEF Reached
  <2>5. CASE ~Carries(Head(L), k)
    BY <1>4, <2>3, <2>5 DEF Reached
  <2> QED BY <2>4, <2>5
<1> QED BY <1>1, <1>5, <1>6, <1>7 DEF DataFits

(* The head of the line is lost: there is no limit to the queue then. *)
LEMMA DataDrop ==
    ASSUME NEW L \in Seq(ItemType), NEW b \in ItemType, NEW cs, NEW q \in Int,
           NEW max \in Nat, NEW m, DataFits(L, b, cs, q, 0, max, m), L # <<>>
    PROVE  DataFits(Tail(L), b, cs, q, 0, max, TRUE)
<1>1. /\ \A i \in 1..Len(L) : InRange(L[i], max)
      /\ InRange(b, max)
      /\ \A k \in DOMAIN cs : cs[k].sent \in 0..max /\ cs[k].read \in 0..max
      /\ q >= (b.to - b.from) + LineSum(L)
  BY DEF DataFits, Ranged, Counted
<1>2. InRange(Head(L), max) /\ \A i \in 1..Len(Tail(L)) : InRange(Tail(L)[i], max)
  BY <1>1, TailRanged
<1>3. Sized(L) /\ Sized(Tail(L)) /\ Tail(L) \in Seq(ItemType)
  BY <1>1, <1>2, RangedSized, HeadTailProperties
<1>4. LineSum(L) = LineSum(Tail(L)) + (Head(L).to - Head(L).from) /\ Head(L).to - Head(L).from \in Nat
  BY <1>3, SumTail
<1>5. LineSum(Tail(L)) \in Nat
  BY <1>3, SumType
<1>6. q >= (b.to - b.from) + LineSum(Tail(L))
  <2> SUFFICES ASSUME NEW h \in Nat, h = Head(L).to - Head(L).from, NEW s \in Nat, s = LineSum(Tail(L)),
                      NEW l \in Int, l = b.to - b.from
               PROVE  q >= l + s
    BY <1>4, <1>5 DEF ItemType
  <2>1. q >= l + (s + h)
    BY <1>1, <1>4
  <2> QED BY ONLY <2>1, h \in Nat, s \in Nat, l \in Int, q \in Int
<1> QED BY <1>1, <1>2, <1>6 DEF DataFits, Ranged, Counted

(* An item joins the line, of a connection that goes on with it, or of a   *)
(* new one.                                                                *)
LEMMA DataGrow ==
    ASSUME NEW L \in Seq(ItemType), NEW b \in ItemType, NEW cs, NEW ds, NEW q \in Int, NEW qs,
           NEW max \in Nat, NEW m, DataFits(L, b, cs, q, qs, max, m),
           NEW x \in ItemType, InRange(x, max), DOMAIN cs \subseteq DOMAIN ds,
           \A k \in DOMAIN cs : /\ ds[k].read = cs[k].read
                                /\ ds[k].sent = IF Carries(x, k) THEN x.to ELSE cs[k].sent
                                /\ Carries(x, k) => x.from = cs[k].sent,
           \A k \in DOMAIN ds \ DOMAIN cs : /\ ds[k].read = 0 /\ ds[k].sent = 0
                                            /\ ~Carries(x, k) /\ ~Carries(b, k)
                                            /\ \A i \in 1..Len(L) : ~Carries(L[i], k)
    PROVE  DataFits(Append(L, x), b, ds, q + (x.to - x.from), qs, max, m)
<1> SUFFICES ASSUME NEW M, M = Append(L, x), NEW p, p = q + (x.to - x.from)
             PROVE  DataFits(M, b, ds, p, qs, max, m)
  OBVIOUS
<1>1. /\ \A i \in 1..Len(L) : InRange(L[i], max)
      /\ InRange(b, max)
      /\ \A k \in DOMAIN cs : cs[k].sent \in 0..max /\ cs[k].read \in 0..max
      /\ Counted(L, b, q, qs) /\ (~m => Streamed(L, b, cs))
  BY DEF DataFits, Ranged
<1>2. x.from \in Int /\ x.to \in 0..max /\ x.to - x.from \in Nat
  BY DEF InRange
<1>3. M \in Seq(ItemType) /\ Len(M) = Len(L) + 1 /\ Len(L) \in Nat /\ M[Len(L) + 1] = x
      /\ \A i \in 1..Len(L) : M[i] = L[i]
  BY AppendProperties, LenProperties
<1>4. Ranged(M, b, ds, max)
  <2>1. \A i \in 1..Len(M) : InRange(M[i], max)
    BY <1>1, <1>3
  <2>2. ASSUME NEW k \in DOMAIN ds PROVE ds[k].sent \in 0..max /\ ds[k].read \in 0..max
    <3>1. CASE k \in DOMAIN cs
      BY <1>1, <1>2, <3>1
    <3>2. CASE k \notin DOMAIN cs
      BY <3>2
    <3> QED BY <3>1, <3>2
  <2> QED BY <1>1, <2>1, <2>2 DEF Ranged
<1>5. Counted(M, b, p, qs)
  <2>1. Sized(L)
    BY <1>1, RangedSized
  <2>2. LineSum(M) = LineSum(L) + (x.to - x.from) /\ LineSum(L) \in Nat
    BY <1>2, <2>1, SumAppend, SumType
  <2> SUFFICES ASSUME NEW s \in Nat, s = LineSum(L), NEW h \in Nat, h = x.to - x.from,
                      NEW l \in Int, l = b.to - b.from
               PROVE  p >= l + (s + h) /\ (qs # 0 => p = l + (s + h))
    <3>1. b.to - b.from \in Int
      BY DEF ItemType
    <3> QED BY SMTT(30), ZenonT(30), <1>2, <2>2, <3>1 DEF Counted
  <2>3. q >= l + s /\ (qs # 0 => q = l + s) /\ p = q + h
    BY <1>1 DEF Counted
  <2> QED BY ONLY <2>3, s \in Nat, h \in Nat, l \in Int, q \in Int
<1>6. ASSUME Streamed(L, b, cs), NEW k \in DOMAIN ds
      PROVE  /\ Carries(b, k) => b.from = ds[k].read
             /\ Chain(M, k, Reached(b, k, ds[k].read), ds[k].sent)
  <2>1. CASE k \in DOMAIN cs
    <3>1. /\ Carries(b, k) => b.from = cs[k].read
          /\ Chain(L, k, Reached(b, k, cs[k].read), cs[k].sent)
      BY <1>6, <2>1 DEF Streamed
    <3>2. /\ ds[k].read = cs[k].read
          /\ ds[k].sent = IF Carries(x, k) THEN x.to ELSE cs[k].sent
          /\ Carries(x, k) => x.from = cs[k].sent
      BY <2>1
    <3>3. Chain(M, k, Reached(b, k, cs[k].read), IF Carries(x, k) THEN x.to ELSE cs[k].sent)
      BY <3>1, <3>2, ChainAppend
    <3> QED BY <3>1, <3>2, <3>3
  <2>2. CASE k \notin DOMAIN cs
    <3>1. /\ ds[k].read = 0 /\ ds[k].sent = 0 /\ ~Carries(x, k) /\ ~Carries(b, k)
          /\ \A i \in 1..Len(L) : ~Carries(L[i], k)
      BY <2>2
    <3>2. \A i \in 1..Len(M) : ~Carries(M[i], k)
      BY <1>3, <3>1
    <3>3. Chain(M, k, 0, 0)
      BY <3>2 DEF Chain, FirstOf, LastOf, Follows
    <3> QED BY <3>1, <3>3 DEF Reached
  <2> QED BY <2>1, <2>2
<1>7. ~m => Streamed(M, b, ds)
  BY <1>1, <1>6 DEF Streamed
<1> QED BY <1>4, <1>5, <1>7 DEF DataFits

(* n bytes of the buffer are read, of which a recv_until() may count fewer. *)
LEMMA DataConsume ==
    ASSUME NEW L \in Seq(ItemType), NEW b \in ItemType, NEW cs, NEW ds, NEW q \in Int, NEW qs,
           NEW max \in Nat, NEW m, DataFits(L, b, cs, q, qs, max, m),
           NEW n \in Int, n > 0, n <= b.to - b.from, NEW counted \in Int, counted <= n,
           qs # 0 => counted = n,
           DOMAIN ds = DOMAIN cs,
           \A k \in DOMAIN cs : /\ ds[k].sent = cs[k].sent
                                /\ ds[k].read = IF k = b.conn THEN b.from + n ELSE cs[k].read,
           NEW c, c = [b EXCEPT !.from = @ + n]
    PROVE  DataFits(L, c, ds, q - counted, qs, max, m)
<1>1. /\ \A i \in 1..Len(L) : InRange(L[i], max)
      /\ InRange(b, max)
      /\ \A k \in DOMAIN cs : cs[k].sent \in 0..max /\ cs[k].read \in 0..max
      /\ Counted(L, b, q, qs) /\ (~m => Streamed(L, b, cs))
  BY DEF DataFits, Ranged
<1>2. b.from \in 0..max /\ b.to \in 0..max /\ b.from < b.to /\ b.end = "no"
  BY <1>1 DEF InRange
<1>3. c.conn = b.conn /\ c.from = b.from + n /\ c.to = b.to /\ c.end = b.end
  BY DEF ItemType
<1>4. c.from \in 0..max /\ c.from <= c.to
  BY <1>2, <1>3
<1>5. Ranged(L, c, ds, max)
  <2>1. InRange(c, max)
    BY <1>2, <1>3, <1>4 DEF InRange
  <2>2. \A k \in DOMAIN ds : ds[k].sent \in 0..max /\ ds[k].read \in 0..max
    BY <1>1, <1>3, <1>4
  <2> QED BY <1>1, <2>1, <2>2 DEF Ranged
<1>6. Counted(L, c, q - counted, qs)
  <2>1. LineSum(L) \in Nat
    BY <1>1, RangedSized, SumType
  <2>2. q >= (b.to - b.from) + LineSum(L) /\ (qs # 0 => q = (b.to - b.from) + LineSum(L))
    BY <1>1 DEF Counted
  <2> SUFFICES ASSUME NEW s \in Nat, s = LineSum(L)
               PROVE  /\ q - counted >= (b.to - (b.from + n)) + s
                      /\ qs # 0 => q - counted = (b.to - (b.from + n)) + s
    BY <1>3, <2>1 DEF Counted
  <2> QED BY <1>2, <2>2
<1>7. Streamed(L, b, cs) => Streamed(L, c, ds)
  <2> SUFFICES ASSUME Streamed(L, b, cs), NEW k \in DOMAIN cs
               PROVE  /\ Carries(c, k) => c.from = ds[k].read
                      /\ Chain(L, k, Reached(c, k, ds[k].read), ds[k].sent)
    BY DEF Streamed
  <2>1. Chain(L, k, Reached(b, k, cs[k].read), cs[k].sent)
    BY DEF Streamed
  <2>2. CASE k = b.conn
    <3>1. Reached(b, k, cs[k].read) = b.to
      BY <1>2, <2>2 DEF Reached, Carries
    <3>2. Reached(c, k, ds[k].read) = b.to
      BY <1>2, <1>3, <1>4, <2>2 DEF Reached, Carries
    <3> QED BY <1>3, <2>1, <2>2, <3>1, <3>2
  <2>3. CASE k # b.conn
    <3>1. ~Carries(b, k) /\ ~Carries(c, k)
      BY <1>3, <2>3 DEF Carries
    <3> QED BY <2>1, <2>3, <3>1 DEF Reached
  <2> QED BY <2>2, <2>3
<1> QED BY <1>1, <1>5, <1>6, <1>7 DEF DataFits
--------------------------------------------------------------------------------
(* The invariant of what is read *)

FlowFits ==
    /\ bound \in Bounds /\ queueSize \in QueueSizes /\ readPaused \in BOOLEAN
    /\ awake \in BOOLEAN /\ missed \in BOOLEAN /\ want \in Nat
    /\ pc \in {"idle", "run", "recv", "until", "wait", "dead"}
    /\ queueSize # 0 => pc \notin {"until", "wait"} /\ future # "cancelled" /\ ~missed
    /\ (future = "pending" \/ result # <<>>) => BufferLen = 0

(* Only the transport is paused, and only while there is enough to read:   *)
(* what the application then takes out resumes it.                         *)
PauseFits ==
    /\ \A k \in DOMAIN conns : Held(conns[k]) => readPaused /\ k = transport
    /\ readPaused => queueSize # 0
    /\ readPaused /\ pc # "dead" => queued >= queueSize

Bytes == DataFits(Line, buffer, conns, queued, queueSize, bound.bytes, missed)

ReadFits == FlowFits /\ PauseFits /\ Bytes

LEMMA BoundType ==
    ASSUME FlowFits
    PROVE  bound.bytes \in Nat /\ bound.conns \in Nat /\ queueSize \in Nat
<1>1. bound \in [conns : Nat, bytes : Nat] /\ queueSize \in Nat
  BY EndpointAssumption DEF FlowFits
<1> QED BY <1>1

(* A step that moves no item. *)
LEMMA ReadQuiet ==
    ASSUME ReadFits, FlowFits', Line' = Line, DOMAIN conns' = DOMAIN conns, Streams(conns, conns'),
           UNCHANGED <<bound, queueSize, buffer, queued, readPaused, missed, transport>>,
           \A k \in DOMAIN conns : Held(conns'[k]) => Held(conns[k]),
           pc = "dead" => pc' = "dead"
    PROVE  ReadFits'
<1>1. DataFits(Line, buffer, conns', queued, queueSize, bound.bytes, missed)
  BY DataStill DEF ReadFits, Bytes
<1>2. Bytes'
  BY <1>1 DEF Bytes
<1>3. PauseFits'
  BY DEF ReadFits, PauseFits
<1> QED BY <1>2, <1>3 DEF ReadFits

LEMMA ReadPauses ==
    ASSUME IInv, ReadFits, Wakes \/ Yields \/ Calls \/ RecvWait \/ CancelWait, UNCHANGED bound
    PROVE  ReadFits'
<1>1. /\ UNCHANGED <<conns, transport, newTransport, queueSize, queue, queued, readPaused, buffer>>
      /\ pc # "dead" /\ BufferLen' = BufferLen
  BY DEF Wakes, Yields, Calls, RecvWait, CancelWait, streamVars, BufferLen
<1>2. Types /\ WaitFits /\ Line \in Seq(ItemType) /\ FlowFits
  BY LineProperties DEF IInv, ReadFits
<1>3. Streams(conns, conns') /\ \A k \in DOMAIN conns : Held(conns'[k]) => Held(conns[k])
  BY <1>1 DEF Streams
<1>4. want' \in Nat
  <2>1. \A n \in RecvSizes : n \in Nat
    BY EndpointAssumption
  <2> QED BY <1>2, <2>1 DEF FlowFits, Wakes, Yields, Calls, RecvWait, CancelWait
<1>5. CASE Wakes \/ Yields \/ Calls \/ RecvWait
  <2>1. UNCHANGED <<future, result, missed>>
    BY <1>5 DEF Wakes, Yields, Calls, RecvWait, streamVars
  <2>2. pc' \in {"idle", "run", "recv", "until", "wait"} /\ (pc' \in {"until", "wait"} => queueSize = 0)
        /\ awake' \in BOOLEAN
    BY <1>2, <1>5 DEF Wakes, Yields, Calls, RecvWait, FlowFits
  <2>3. FlowFits'
    BY <1>1, <1>2, <1>4, <2>1, <2>2 DEF FlowFits
  <2>4. Line' = Line
    BY <1>1, <2>1 DEF Line
  <2> QED BY <1>1, <1>3, <2>1, <2>3, <2>4, ReadQuiet
<1>6. CASE CancelWait
  <2>1. /\ pc = "wait" /\ awake' = TRUE /\ pc' = "run" /\ result' = <<>> /\ queueSize = 0
        /\ missed' = (missed \/ result # <<>>) /\ future' # "pending"
    BY <1>2, <1>6 DEF CancelWait, FlowFits
  <2>2. FlowFits'
    BY <1>1, <1>2, <1>4, <2>1 DEF FlowFits
  <2>3. CASE result = <<>>
    <3>1. Line' = Line /\ missed' = missed
      BY <1>1, <1>2, <2>1, <2>3 DEF Line, FlowFits
    <3> QED BY <1>1, <1>3, <2>2, <3>1, ReadQuiet
  <2>4. CASE result # <<>>
    <3>1. Line # <<>> /\ Tail(Line) = queue
      BY <1>2, <2>4, LineProperties
    <3>2. Line' = Tail(Line) /\ missed' = TRUE
      BY <1>1, <1>2, <2>1, <2>4, <3>1, ConcatEmptySeq DEF Line, Types
    <3>3. DataFits(Line, buffer, conns, queued, 0, bound.bytes, missed) /\ bound.bytes \in Nat
          /\ buffer \in ItemType /\ queued \in Int
      BY <1>2, <2>1, BoundType DEF ReadFits, Bytes, Types
    <3>4. DataFits(Tail(Line), buffer, conns, queued, 0, bound.bytes, TRUE)
      BY <1>2, <3>1, <3>3, DataDrop
    <3>5. Bytes'
      BY <1>1, <2>1, <3>2, <3>4 DEF Bytes
    <3>6. PauseFits'
      BY <1>1 DEF ReadFits, PauseFits
    <3> QED BY <2>2, <3>5, <3>6 DEF ReadFits
  <2> QED BY <2>3, <2>4
<1> QED BY <1>5, <1>6

(* Only the connections change, and none of them is paused. *)
LEMMA ReadConns ==
    ASSUME ReadFits, UNCHANGED <<bound, transport, queueSize, streamVars, readerVars, missed>>,
           DOMAIN conns' = DOMAIN conns, Streams(conns, conns'),
           \A k \in DOMAIN conns : Held(conns'[k]) => Held(conns[k])
    PROVE  ReadFits'
<1>1. UNCHANGED <<bound, transport, queueSize, queue, queued, readPaused, future, result, buffer, pc,
                  awake, want, missed>>
      /\ Line' = Line /\ BufferLen' = BufferLen
  BY DEF streamVars, readerVars, Line, BufferLen
<1>2. FlowFits'
  BY <1>1 DEF ReadFits, FlowFits
<1> QED BY <1>1, <1>2, ReadQuiet

LEMMA ReadClosed ==
    ASSUME ReadFits, UNCHANGED <<bound, transport, queueSize, streamVars, readerVars, missed>>,
           Types, NEW t \in DOMAIN conns, conns' = Closed(conns, t)
    PROVE  ReadFits'
<1>1. conns \in Seq(ConnType)
  BY DEF Types
<1>2. DOMAIN Closed(conns, t) = DOMAIN conns /\ Streams(conns, Closed(conns, t))
      /\ \A k \in DOMAIN conns : Held(Closed(conns, t)[k]) => Held(conns[k])
  BY <1>1, ClosedType, ClosedStreams
<1> QED BY <1>2, ReadConns

LEMMA ReadSends ==
    ASSUME ReadFits, UNCHANGED <<bound, transport, queueSize, streamVars, readerVars, missed>>,
           Types, NEW t \in DOMAIN conns, NEW f \in BOOLEAN, conns' = [conns EXCEPT ![t].full = f]
    PROVE  ReadFits'
<1> DEFINE c == [conns[t] EXCEPT !.full = f]
<1>1. conns \in Seq(ConnType) /\ conns[t] \in ConnType /\ conns' = [conns EXCEPT ![t] = c]
  BY DEF Types
<1>2. /\ c.sent = conns[t].sent /\ c.read = conns[t].read /\ c.state = conns[t].state
      /\ c.paused = conns[t].paused
  BY <1>1 DEF ConnType
<1> HIDE DEF c
<1>3. DOMAIN conns' = DOMAIN conns /\ Streams(conns, conns')
      /\ \A k \in DOMAIN conns : Held(conns'[k]) => Held(conns[k])
  BY <1>1, <1>2 DEF Streams, Held
<1> QED BY <1>3, ReadConns

LEMMA ReadSocket ==
    ASSUME IInv, ReadFits, Send \/ Close \/ (\E k \in DOMAIN conns : SocketEvent(k)), UNCHANGED bound
    PROVE  ReadFits'
<1>1. /\ Types /\ DOMAIN conns = 1..Len(conns) /\ conns \in Seq(ConnType)
      /\ transport # 0 => transport \in DOMAIN conns
  BY LenProperties DEF IInv, Types
<1>2. CASE Send
  <2>1. conns' = [conns EXCEPT ![transport].full = TRUE] /\ transport # 0
        /\ UNCHANGED <<bound, transport, queueSize, streamVars, readerVars, missed>>
    BY <1>2 DEF Send, CanSend
  <2> QED BY <1>1, <2>1, ReadSends
<1>3. CASE Close
  <2>1. conns' = Closed(conns, transport) /\ transport # 0
        /\ UNCHANGED <<bound, transport, queueSize, streamVars, readerVars, missed>>
    BY <1>3 DEF Close
  <2> QED BY <1>1, <2>1, ReadClosed
<1>4. ASSUME NEW k \in DOMAIN conns, SocketEvent(k) PROVE ReadFits'
  <2>1. UNCHANGED <<bound, transport, queueSize, streamVars, readerVars, missed>>
    BY <1>4 DEF SocketEvent
  <2>2. CASE conns' = Closed(conns, k)
    BY <1>1, <2>1, <2>2, ReadClosed
  <2>3. CASE conns' = [conns EXCEPT ![k].full = FALSE]
    BY <1>1, <2>1, <2>3, ReadSends
  <2>4. ASSUME NEW exc \in {"eof", "other"}, conns' = Broken(conns, k, exc) PROVE ReadFits'
    <3>1. DOMAIN Broken(conns, k, exc) = DOMAIN conns
      BY <1>1, BrokenType
    <3>2. Streams(conns, Broken(conns, k, exc))
          /\ \A j \in DOMAIN conns : Held(Broken(conns, k, exc)[j]) => Held(conns[j])
      BY <1>1, BrokenStreams
    <3> QED BY <2>1, <2>4, <3>1, <3>2, ReadConns
  <2> QED BY <1>4, <2>2, <2>3, <2>4 DEF SocketEvent
<1> QED BY <1>2, <1>3, <1>4

LEMMA ReadTakes ==
    ASSUME IInv, ReadFits, NEW item, item = Head(Line), Line # <<>>, TakeItem(item), BufferLen = 0,
           Line' = Tail(Line), pc \in Waiting, future' = "none", result' = <<>>,
           UNCHANGED <<bound, transport, queueSize, queued, want, missed>>
    PROVE  ReadFits'
<1> DEFINE p == Pushback(conns, queued, transport)
           counts == item.end = "no" /\ item.from = item.to /\ pc # "wait"
           dies == item.end = "other" \/ (counts /\ p.raises)
<1>1. /\ Types /\ WaitFits /\ Line \in Seq(ItemType) /\ FlowFits /\ PauseFits /\ pc # "dead"
      /\ queueSize \in Nat /\ bound.bytes \in Nat /\ queued \in Int /\ buffer \in ItemType
      /\ conns \in Seq(ConnType) /\ transport \in 0..Len(conns)
  BY LineProperties, BoundType DEF IInv, ReadFits, Types, Waiting
<1>2. /\ buffer' = (IF Head(Line).end = "no" THEN Head(Line) ELSE Data(0, 0, 0))
      /\ awake' = ~dies
      /\ pc' = IF dies THEN "dead" ELSE IF item.end = "eof" \/ pc = "wait" THEN "run" ELSE pc
      /\ conns' = IF counts THEN p.conns ELSE conns
      /\ readPaused' = IF counts THEN p.paused ELSE readPaused
  BY DEF TakeItem
<1>3. /\ DOMAIN p.conns = DOMAIN conns /\ Streams(conns, p.conns)
  BY <1>1, PushbackType, PushbackStreams
<1>4. /\ p.paused \in BOOLEAN
      /\ \A k \in DOMAIN conns : Held(p.conns[k]) => p.paused /\ k = transport
      /\ p.paused /\ ~p.raises => queueSize # 0 /\ queued >= queueSize
  BY <1>1, PushbackHolds DEF FlowFits, PauseFits
<1>5. p.paused => queueSize # 0
  BY <1>1 DEF Pushback, PauseFits
<1> HIDE DEF p
<1>6. DOMAIN conns' = DOMAIN conns /\ Streams(conns, conns')
  BY <1>2, <1>3 DEF Streams
<1>7. DataFits(Tail(Line), buffer', conns, queued, queueSize, bound.bytes, missed)
  <2>1. buffer.to - buffer.from = 0
    BY DEF BufferLen
  <2>2. DataFits(Line, buffer, conns, queued, queueSize, bound.bytes, missed)
    BY DEF ReadFits, Bytes
  <2> QED BY <1>1, <1>2, <2>1, <2>2, DataTake
<1>8. DataFits(Tail(Line), buffer', conns', queued, queueSize, bound.bytes, missed)
  BY <1>6, <1>7, DataStill
<1>9. Bytes'
  BY <1>8 DEF Bytes
<1>10. FlowFits'
  <2>1. pc' \in {"dead", "run", pc} /\ awake' \in BOOLEAN /\ readPaused' \in BOOLEAN
    BY <1>1, <1>2, <1>4 DEF FlowFits
  <2> QED BY <1>1, <2>1 DEF FlowFits
<1>11. PauseFits'
  <2>1. CASE counts
    BY <1>2, <1>3, <1>4, <1>5, <2>1 DEF PauseFits
  <2>2. CASE ~counts
    BY <1>1, <1>2, <2>2 DEF PauseFits
  <2> QED BY <2>1, <2>2
<1> QED BY <1>9, <1>10, <1>11 DEF ReadFits

LEMMA ReadRefill ==
    ASSUME IInv, ReadFits, Refill \/ Resume, UNCHANGED bound
    PROVE  ReadFits'
<1>1. Types /\ WaitFits /\ queue \in Seq(ItemType) /\ FlowFits
  BY DEF IInv, Types, ReadFits
<1>2. CASE Refill /\ queue = <<>>
  <2>1. /\ UNCHANGED <<transport, queueSize, queued, result, want, missed, conns, queue, readPaused, buffer, pc>>
        /\ future' = "pending" /\ awake' = FALSE /\ BufferLen = 0 /\ BufferLen' = BufferLen
        /\ Line' = Line
    BY <1>2 DEF Refill, Line, BufferLen
  <2>2. FlowFits'
    BY <1>1, <2>1 DEF FlowFits
  <2>3. Streams(conns, conns') /\ \A k \in DOMAIN conns : Held(conns'[k]) => Held(conns[k])
    BY <2>1 DEF Streams
  <2> QED BY <2>1, <2>2, <2>3, ReadQuiet
<1>3. CASE Refill /\ queue # <<>>
  <2>1. /\ result = <<>> /\ Line = queue /\ pc \in Waiting /\ BufferLen = 0
        /\ UNCHANGED <<bound, transport, queueSize, queued, result, want, missed>>
        /\ future' = "none" /\ queue' = Tail(queue) /\ TakeItem(Head(queue))
    BY <1>1, <1>3, LineProperties DEF Refill, WaitFits, Waiting
  <2>2. queue' \in Seq(ItemType)
    BY <1>1, <1>3, <2>1, HeadTailProperties
  <2>3. Line' = Tail(Line)
    BY <2>1, <2>2, ConcatEmptySeq DEF Line
  <2> QED BY <1>3, <2>1, <2>3, ReadTakes
<1>4. CASE Resume
  <2>1. /\ result # <<>> /\ result' = <<>> /\ TakeItem(Head(result)) /\ future' = "none"
        /\ pc \in Waiting /\ BufferLen = 0
        /\ UNCHANGED <<transport, queueSize, queue, queued, want, missed>>
    BY <1>1, <1>4 DEF Resume, WaitFits, FlowFits
  <2>2. Line # <<>> /\ Head(Line) = Head(result) /\ Tail(Line) = queue
    BY <1>1, <2>1, LineProperties
  <2>3. Line' = Tail(Line)
    BY <1>1, <2>1, <2>2, ConcatEmptySeq DEF Line
  <2> QED BY <2>1, <2>2, <2>3, ReadTakes
<1> QED BY <1>2, <1>3, <1>4
LEMMA ReadConsumes ==
    ASSUME IInv, ReadFits, awake, pc \in Waiting, BufferLen > 0,
           NEW n \in Int, n > 0, n <= BufferLen, NEW counted \in Int, counted <= n,
           queueSize # 0 => counted = n, NEW next \in {"run", pc}, Consume(n, counted, next),
           want' \in Nat, UNCHANGED bound
    PROVE  ReadFits'
<1> DEFINE b == buffer.conn
           c == [conns[b] EXCEPT !.read = buffer.from + n]
           cs == [conns EXCEPT ![b] = c]
           p == Pushback(cs, Uncount(counted), transport)
<1>1. /\ Types /\ WaitFits /\ LineFits /\ FlowFits /\ PauseFits /\ Line \in Seq(ItemType)
      /\ queueSize \in Nat /\ bound.bytes \in Nat /\ queued \in Int /\ buffer \in ItemType
      /\ conns \in Seq(ConnType) /\ transport \in 0..Len(conns) /\ Len(conns) \in Nat
      /\ DOMAIN conns = 1..Len(conns) /\ Bytes
  BY LineProperties, LenProperties, BoundType DEF IInv, ReadFits, Types
<1>2. b \in DOMAIN conns /\ conns[b] \in ConnType
  BY <1>1, ElementOfSeq DEF LineFits
<1>3. /\ c.sent = conns[b].sent /\ c.read = buffer.from + n /\ c \in ConnType
      /\ c.state = conns[b].state /\ c.paused = conns[b].paused
  <2>1. buffer.from + n \in Int
    BY <1>1 DEF ItemType
  <2> QED BY <1>2, <2>1 DEF ConnType
<1>4. cs = [conns EXCEPT ![b].read = buffer.from + n]
  BY <1>2
<1>5. /\ queued' = queued - counted /\ buffer' = [buffer EXCEPT !.from = @ + n]
      /\ conns' = p.conns /\ readPaused' = p.paused
      /\ pc' = (IF p.raises THEN "dead" ELSE next) /\ awake' = ~p.raises
      /\ UNCHANGED <<transport, queueSize, queue, future, result, missed>>
  BY <1>4 DEF Consume, Uncount, Rest
<1> HIDE DEF c
<1>6. /\ cs \in Seq(ConnType) /\ Len(cs) = Len(conns) /\ DOMAIN cs = DOMAIN conns
      /\ \A k \in DOMAIN conns : cs[k] = IF k = b THEN c ELSE conns[k]
  BY <1>1, <1>2, <1>3, ExceptSeq
<1> HIDE DEF cs
<1>7. transport \in 0..Len(cs) /\ Uncount(counted) = queued - counted /\ Uncount(counted) \in Int
  BY <1>1, <1>6 DEF Uncount
<1>0. p = Pushback(cs, Uncount(counted), transport)
  OBVIOUS
<1> HIDE DEF p
<1>8. \A k \in DOMAIN cs : Held(cs[k]) => readPaused /\ k = transport
  BY <1>1, <1>3, <1>6 DEF Held, PauseFits
<1>9. /\ DOMAIN p.conns = DOMAIN cs /\ Streams(cs, p.conns)
  BY <1>0, <1>6, <1>7, PushbackType, PushbackStreams
<1>10. /\ p.paused \in BOOLEAN
       /\ \A k \in DOMAIN cs : Held(p.conns[k]) => p.paused /\ k = transport
       /\ p.paused /\ ~p.raises => queueSize # 0 /\ Uncount(counted) >= queueSize
  <2> SUFFICES ASSUME NEW count \in Int, count = Uncount(counted)
               PROVE  /\ p.paused \in BOOLEAN
                      /\ \A k \in DOMAIN cs : Held(p.conns[k]) => p.paused /\ k = transport
                      /\ p.paused /\ ~p.raises => queueSize # 0 /\ count >= queueSize
    BY <1>7
  <2>1. /\ readPaused \in BOOLEAN /\ (readPaused => queueSize # 0)
        /\ cs \in Seq(ConnType) /\ transport \in 0..Len(cs) /\ p = Pushback(cs, count, transport)
        /\ queueSize \in Nat /\ count \in Int
        /\ \A k \in DOMAIN cs : Held(cs[k]) => readPaused /\ k = transport
    BY <1>0, <1>1, <1>6, <1>7, <1>8 DEF FlowFits, PauseFits
  <2> QED BY ONLY <2>1, PushbackHolds
<1>11. p.paused => queueSize # 0
  BY <1>0, <1>1 DEF Pushback, PauseFits
<1>12. Uncount(counted) = queued'
  BY <1>5, <1>7
<1>13. /\ DOMAIN conns' = DOMAIN conns
       /\ \A k \in DOMAIN conns :
             /\ conns'[k].sent = conns[k].sent
             /\ conns'[k].read = IF k = b THEN buffer.from + n ELSE conns[k].read
  BY <1>3, <1>5, <1>6, <1>9 DEF Streams
<1>14. Line' = Line
  BY <1>5 DEF Line
<1>15. DataFits(Line, buffer', conns', queued - counted, queueSize, bound.bytes, missed)
  <2>1. n <= buffer.to - buffer.from
    BY DEF BufferLen
  <2>2. DataFits(Line, buffer, conns, queued, queueSize, bound.bytes, missed)
    BY <1>1 DEF Bytes
  <2> SUFFICES ASSUME NEW ds, ds = conns', NEW d, d = buffer', NEW max \in Nat, max = bound.bytes
               PROVE  DataFits(Line, d, ds, queued - counted, queueSize, max, missed)
    BY <1>1
  <2>3. /\ Line \in Seq(ItemType) /\ buffer \in ItemType /\ queued \in Int
        /\ DataFits(Line, buffer, conns, queued, queueSize, max, missed)
        /\ n \in Int /\ n > 0 /\ n <= buffer.to - buffer.from
        /\ counted \in Int /\ counted <= n /\ (queueSize # 0 => counted = n)
        /\ DOMAIN ds = DOMAIN conns /\ d = [buffer EXCEPT !.from = @ + n]
    BY <1>1, <1>5, <1>13, <2>1, <2>2
  <2>4. \A k \in DOMAIN conns :
           /\ ds[k].sent = conns[k].sent
           /\ ds[k].read = IF k = buffer.conn THEN buffer.from + n ELSE conns[k].read
    BY <1>13
  <2> QED BY ONLY <2>3, <2>4, max \in Nat, DataConsume
<1>16. Bytes'
  BY <1>5, <1>14, <1>15 DEF Bytes
<1>17. FlowFits'
  <2>1. future # "pending" /\ result = <<>>
    BY <1>1 DEF WaitFits
  <2>2. pc' \in {"dead", "run", pc} /\ awake' \in BOOLEAN
    BY <1>5
  <2> QED BY <1>1, <1>5, <1>10, <2>1, <2>2 DEF FlowFits
<1>18. PauseFits'
  <2>1. pc' # "dead" => ~p.raises
    BY <1>5
  <2> QED BY <1>5, <1>6, <1>9, <1>10, <1>11, <1>12, <2>1 DEF PauseFits
<1> QED BY <1>16, <1>17, <1>18 DEF ReadFits

LEMMA ReadRecv ==
    ASSUME IInv, ReadFits, Recv, UNCHANGED bound
    PROVE  ReadFits'
<1> DEFINE length == IF want = 0 THEN BufferLen ELSE want
           n == IF length <= BufferLen THEN length ELSE BufferLen
           next == IF n = length THEN "run" ELSE pc
<1>1. want \in Nat /\ BufferLen \in Int
  BY DEF ReadFits, FlowFits, IInv, Types, BufferLen, ItemType
<1>2. /\ awake /\ pc \in Waiting /\ BufferLen > 0 /\ Consume(n, n, next) /\ want' = length - n
  BY DEF Recv, Waiting
<1>3. n \in Int /\ want' \in Nat /\ n > 0 /\ n <= BufferLen
  BY <1>1, <1>2
<1>4. next \in {"run", pc}
  OBVIOUS
<1> HIDE DEF n, next
<1> QED BY <1>2, <1>3, <1>4, ReadConsumes

LEMMA ReadUntil ==
    ASSUME IInv, ReadFits, RecvUntil, UNCHANGED bound
    PROVE  ReadFits'
<1>1. /\ want' \in Nat /\ BufferLen \in Int /\ buffer.from \in Int /\ buffer.to \in Int
      /\ awake /\ BufferLen > 0 /\ pc \in Waiting /\ queueSize = 0
  BY DEF IInv, Types, BufferLen, ItemType, RecvUntil, ReadFits, FlowFits, Waiting
<1>2. \/ Consume(BufferLen, BufferLen, pc)
      \/ \E i \in (buffer.from + 1)..buffer.to :
            Consume(i - buffer.from, i - buffer.from - 1, "run")
  BY DEF RecvUntil
<1>3. CASE Consume(BufferLen, BufferLen, pc)
  BY <1>1, <1>3, ReadConsumes
<1>4. ASSUME NEW i \in (buffer.from + 1)..buffer.to,
             Consume(i - buffer.from, i - buffer.from - 1, "run")
      PROVE  ReadFits'
  <2> SUFFICES ASSUME NEW n, n = i - buffer.from, NEW counted, counted = n - 1 PROVE ReadFits'
    OBVIOUS
  <2>1. n \in Int /\ n > 0 /\ n <= BufferLen /\ counted \in Int /\ counted <= n
        /\ Consume(n, counted, "run")
    BY <1>1, <1>4 DEF BufferLen
  <2> QED BY <1>1, <2>1, ReadConsumes
<1> QED BY <1>2, <1>3, <1>4

LEMMA ReadGrows ==
    ASSUME IInv, ReadFits, NEW x \in ItemType, CheckFuture(Append(queue, x)),
           InRange(x, bound.bytes), queued' = queued + (x.to - x.from),
           DOMAIN conns \subseteq DOMAIN conns',
           \A k \in DOMAIN conns : /\ conns'[k].read = conns[k].read
                                   /\ conns'[k].sent = IF Carries(x, k) THEN x.to ELSE conns[k].sent
                                   /\ Carries(x, k) => x.from = conns[k].sent,
           \A k \in DOMAIN conns' \ DOMAIN conns :
              k # 0 /\ conns'[k].read = 0 /\ conns'[k].sent = 0 /\ ~Carries(x, k),
           UNCHANGED <<bound, queueSize, readerVars>>, readPaused' \in BOOLEAN
    PROVE  FlowFits' /\ Bytes'
<1>1. /\ Types /\ WaitFits /\ LineFits /\ FlowFits /\ Line \in Seq(ItemType)
      /\ queueSize \in Nat /\ bound.bytes \in Nat /\ queued \in Int /\ buffer \in ItemType
      /\ DOMAIN conns = 1..Len(conns)
      /\ UNCHANGED <<buffer, pc, awake, want>>
  BY LineProperties, LenProperties, BoundType DEF IInv, ReadFits, Types, readerVars
<1>2. /\ future' # "pending"
      /\ result' # <<>> => result # <<>> \/ future = "pending"
      /\ \/ future # "cancelled" /\ Line' = Append(Line, x) /\ missed' = missed /\ future' = "none"
         \/ /\ future = "cancelled" /\ Line' = Tail(Append(Line, x)) /\ missed' = TRUE
            /\ future' = future
  BY <1>1, CheckFutureLine
<1>3. FlowFits'
  <2>1. queueSize # 0 => future # "cancelled"
    BY <1>1 DEF FlowFits
  <2>2. queueSize # 0 => future' # "cancelled" /\ missed' = missed
    BY <1>2, <2>1
  <2>3. (future' = "pending" \/ result' # <<>>) => BufferLen' = 0
    BY <1>1, <1>2 DEF FlowFits, BufferLen
  <2>4. missed' \in BOOLEAN
    BY <1>1, <1>2 DEF FlowFits
  <2> QED BY <1>1, <2>2, <2>3, <2>4 DEF FlowFits
<1>4. ASSUME NEW k \in DOMAIN conns' \ DOMAIN conns
      PROVE  /\ conns'[k].read = 0 /\ conns'[k].sent = 0 /\ ~Carries(x, k) /\ ~Carries(buffer, k)
             /\ \A i \in 1..Len(Line) : ~Carries(Line[i], k)
  <2>1. k # 0 /\ k \notin DOMAIN conns
    BY <1>4
  <2>2. ~Carries(buffer, k)
    BY <1>1, <2>1 DEF LineFits, Carries
  <2>3. \A i \in 1..Len(Line) : ~Carries(Line[i], k)
    BY <1>1, <2>1, LenProperties DEF LineFits, Carries
  <2> QED BY <1>4, <2>2, <2>3
<1>5. DataFits(Append(Line, x), buffer, conns', queued', queueSize, bound.bytes, missed)
  <2>1. DataFits(Line, buffer, conns, queued, queueSize, bound.bytes, missed)
    BY DEF ReadFits, Bytes
  <2>2. DataFits(Append(Line, x), buffer, conns', queued + (x.to - x.from), queueSize, bound.bytes, missed)
    BY <1>1, <1>4, <2>1, DataGrow
  <2> QED BY <2>2
<1>6. CASE Line' = Append(Line, x) /\ missed' = missed
  BY <1>1, <1>3, <1>5, <1>6 DEF Bytes
<1>7. CASE future = "cancelled" /\ Line' = Tail(Append(Line, x)) /\ missed' = TRUE
  <2>1. queueSize = 0
    BY <1>1, <1>7 DEF FlowFits
  <2>2. Append(Line, x) \in Seq(ItemType) /\ Append(Line, x) # <<>>
    BY <1>1, AppendProperties
  <2>3. queued' \in Int
    BY <1>1 DEF InRange
  <2>4. DataFits(Append(Line, x), buffer, conns', queued', 0, bound.bytes, missed)
    BY <1>5, <2>1
  <2>5. DataFits(Tail(Append(Line, x)), buffer, conns', queued', 0, bound.bytes, TRUE)
    BY <1>1, <2>2, <2>3, <2>4, DataDrop
  <2> QED BY <1>1, <1>3, <1>7, <2>1, <2>5 DEF Bytes
<1> QED BY <1>2, <1>6, <1>7
LEMMA ReadData ==
    ASSUME IInv, ReadFits, NEW k \in DOMAIN conns, DataReceived(k), UNCHANGED bound
    PROVE  ReadFits'
<1>1. /\ Types /\ NewFits /\ Alone /\ FlowFits /\ PauseFits
      /\ DOMAIN conns = 1..Len(conns) /\ Len(conns) \in Nat
      /\ conns[k] \in ConnType /\ k \in Nat /\ conns[k].state = "open" /\ ~Lost(k) /\ pc # "dead"
      /\ queueSize \in Nat /\ bound.bytes \in Nat /\ queued \in Int
      /\ conns \in Seq(ConnType) /\ transport \in 0..Len(conns)
      /\ UNCHANGED <<bound, transport, newTransport, queueSize, readerVars>>
  BY LenProperties, ElementOfSeq, BoundType
     DEF IInv, ReadFits, Types, DataReceived, Suspended, Lost
<1> DEFINE sent == conns[k].sent
<1>2. PICK n \in 1..(bound.bytes - sent) :
         LET push == Pushback([conns EXCEPT ![k].sent = sent + n], queued + n, transport)
             q    == Append(queue, Data(k, sent, sent + n))
         IN  /\ queued' = queued + n
             /\ readPaused' = push.paused
             /\ conns' = IF push.raises \/ future = "cancelled"
                         THEN Broken(push.conns, k, "other") ELSE push.conns
             /\ IF push.raises THEN queue' = q /\ UNCHANGED <<result, future, missed>>
                ELSE CheckFuture(q)
  BY DEF DataReceived
<1> DEFINE c == [conns[k] EXCEPT !.sent = sent + n]
           cs == [conns EXCEPT ![k] = c]
           p == Pushback(cs, queued + n, transport)
           x == Data(k, sent, sent + n)
<1>3. n \in Nat /\ sent \in Int /\ sent + n \in Int /\ queued + n \in Int /\ n <= bound.bytes - sent
      /\ n > 0
  BY <1>1 DEF ConnType
<1>4. /\ x \in ItemType /\ x.conn = k /\ x.end = "no" /\ x.from = sent /\ x.to = sent + n
      /\ c \in ConnType /\ c.state = conns[k].state /\ c.paused = conns[k].paused
      /\ c.sent = sent + n /\ c.read = conns[k].read
  BY <1>1, <1>3 DEF Data, Item, ItemType, ConnType
<1>5. cs = [conns EXCEPT ![k].sent = sent + n]
  BY <1>1
<1>6. /\ queued' = queued + n /\ readPaused' = p.paused
      /\ conns' = IF p.raises \/ future = "cancelled" THEN Broken(p.conns, k, "other") ELSE p.conns
      /\ ~p.raises => CheckFuture(Append(queue, x))
  BY <1>2, <1>5
<1> HIDE DEF c, x
<1>7. /\ cs \in Seq(ConnType) /\ Len(cs) = Len(conns) /\ DOMAIN cs = DOMAIN conns
      /\ \A j \in DOMAIN conns : cs[j] = IF j = k THEN c ELSE conns[j]
  BY <1>1, <1>4, ExceptSeq
<1> HIDE DEF cs
<1>0. p = Pushback(cs, queued + n, transport)
  OBVIOUS
<1> HIDE DEF p
<1>8. transport \in 0..Len(cs)
  BY <1>1, <1>7
<1>9. /\ p.conns \in Seq(ConnType) /\ DOMAIN p.conns = DOMAIN conns /\ Streams(cs, p.conns)
      /\ p.raises => transport = 0 /\ queueSize # 0
  BY <1>0, <1>7, <1>8, PushbackType, PushbackStreams
<1>10. ~p.raises
  <2> SUFFICES ASSUME transport = 0, queueSize # 0 PROVE FALSE
    BY <1>9
  <2>1. newTransport = 0
    BY <1>1 DEF NewFits
  <2>2. PICK r \in 0..transport : \A j \in DOMAIN conns : ~Lost(j) <=> j \in {r, newTransport}
    BY <1>1 DEF Alone
  <2>3. r = 0 /\ k # 0
    BY <1>1, <2>2
  <2> QED BY <1>1, <2>1, <2>2, <2>3
<1>11. \A j \in DOMAIN cs : Held(cs[j]) => readPaused /\ j = transport
  BY <1>1, <1>4, <1>7 DEF Held, PauseFits
<1>12. /\ p.paused \in BOOLEAN
       /\ \A j \in DOMAIN cs : Held(p.conns[j]) => p.paused /\ j = transport
       /\ p.paused /\ ~p.raises => queueSize # 0 /\ queued + n >= queueSize
  <2> SUFFICES ASSUME NEW count \in Int, count = queued + n
               PROVE  /\ p.paused \in BOOLEAN
                      /\ \A j \in DOMAIN cs : Held(p.conns[j]) => p.paused /\ j = transport
                      /\ p.paused /\ ~p.raises => queueSize # 0 /\ count >= queueSize
    BY <1>3
  <2>1. /\ readPaused \in BOOLEAN /\ (readPaused => queueSize # 0)
        /\ cs \in Seq(ConnType) /\ transport \in 0..Len(cs) /\ p = Pushback(cs, count, transport)
        /\ queueSize \in Nat /\ count \in Int
        /\ \A j \in DOMAIN cs : Held(cs[j]) => readPaused /\ j = transport
    BY <1>0, <1>1, <1>7, <1>8, <1>11 DEF FlowFits, PauseFits
  <2> QED BY ONLY <2>1, PushbackHolds
<1>13. /\ DOMAIN conns' = DOMAIN conns /\ Streams(cs, conns')
       /\ \A j \in DOMAIN conns : Held(conns'[j]) => Held(p.conns[j])
  <2>1. CASE conns' = p.conns
    BY <1>9, <2>1
  <2>2. CASE conns' = Broken(p.conns, k, "other")
    <3> SUFFICES ASSUME NEW pushed, pushed = p.conns, NEW exc \in {"eof", "other"}, exc = "other"
                 PROVE  /\ DOMAIN conns' = DOMAIN conns /\ Streams(cs, conns')
                        /\ \A j \in DOMAIN conns : Held(conns'[j]) => Held(pushed[j])
      OBVIOUS
    <3>1. pushed \in Seq(ConnType) /\ k \in DOMAIN pushed /\ conns' = Broken(pushed, k, exc)
          /\ DOMAIN pushed = DOMAIN conns /\ Streams(cs, pushed)
      BY <1>9, <2>2
    <3>2. DOMAIN Broken(pushed, k, exc) = DOMAIN pushed
      BY <3>1, BrokenType
    <3>3. /\ Streams(pushed, Broken(pushed, k, exc))
          /\ \A j \in DOMAIN pushed : Held(Broken(pushed, k, exc)[j]) => Held(pushed[j])
      BY <3>1, BrokenStreams
    <3> QED BY <1>7, <3>1, <3>2, <3>3 DEF Streams
  <2> QED BY <1>6, <2>1, <2>2
<1>14. \A j : Carries(x, j) <=> j = k
  BY <1>3, <1>4 DEF Carries
<1>15. /\ DOMAIN conns \subseteq DOMAIN conns'
       /\ \A j \in DOMAIN conns : /\ conns'[j].read = conns[j].read
                                  /\ conns'[j].sent = IF Carries(x, j) THEN x.to ELSE conns[j].sent
                                  /\ Carries(x, j) => x.from = conns[j].sent
       /\ DOMAIN conns' \ DOMAIN conns = {}
  BY <1>4, <1>7, <1>13, <1>14 DEF Streams
<1>16. InRange(x, bound.bytes) /\ queued' = queued + (x.to - x.from)
  <2>1. sent \in 0..bound.bytes
    BY DEF ReadFits, Bytes, DataFits, Ranged
  <2> SUFFICES ASSUME NEW s \in Int, s = sent, NEW max \in Nat, max = bound.bytes
               PROVE  InRange(x, max) /\ queued' = queued + (x.to - x.from)
    BY <1>1, <1>3
  <2>2. s \in 0..max /\ s + n \in 0..max /\ s <= s + n /\ (s + n) - s = n
    BY <1>3, <2>1
  <2>3. x.from = s /\ x.to = s + n /\ x.end = "no"
    BY <1>4
  <2>4. InRange(x, max)
    BY ONLY <2>2, <2>3 DEF InRange
  <2> QED BY <1>6, <2>2, <2>3, <2>4
<1>17. CheckFuture(Append(queue, x))
  BY <1>6, <1>10
<1>18. FlowFits' /\ Bytes'
  BY <1>1, <1>4, <1>6, <1>12, <1>15, <1>16, <1>17, ReadGrows
<1>19. PauseFits'
  <2>1. p.paused => queueSize # 0
    BY <1>10, <1>12
  <2> QED BY <1>1, <1>6, <1>7, <1>10, <1>12, <1>13, <2>1 DEF PauseFits
<1> QED BY <1>18, <1>19 DEF ReadFits

LEMMA ReadMade ==
    ASSUME IInv, ReadFits, ConnectionMade, UNCHANGED bound
    PROVE  ReadFits'
<1> SUFFICES ASSUME NEW k, k = Len(conns) + 1 PROVE ReadFits'
  OBVIOUS
<1> DEFINE old == IF transport = 0 THEN conns ELSE Closed(conns, transport)
           t == IF transport = 0 THEN k ELSE transport
           c == [state |-> "open", exc |-> "eof", full |-> FALSE, paused |-> FALSE,
                 sent |-> 0, read |-> 0]
           cs == Append(old, c)
           x == Data(k, 0, 0)
           p == Pushback(cs, queued, t)
<1>1. /\ Types /\ FlowFits /\ PauseFits /\ DOMAIN conns = 1..Len(conns) /\ Len(conns) \in Nat /\ k \in Nat
      /\ queueSize \in Nat /\ bound.bytes \in Nat /\ queued \in Int /\ pc # "dead"
      /\ transport' = t /\ conns' = p.conns /\ readPaused' = p.paused
      /\ CheckFuture(Append(queue, x))
      /\ UNCHANGED <<bound, queueSize, queued, readerVars>>
  BY LenProperties, BoundType DEF IInv, ReadFits, Types, ConnectionMade, Suspended
<1>2. /\ c \in ConnType /\ ~Held(c) /\ c.sent = 0 /\ c.read = 0
      /\ x \in ItemType /\ x.conn = k /\ x.end = "no" /\ x.from = 0 /\ x.to = 0
  BY <1>1 DEF ConnType, Data, Item, ItemType, Held
<1>3. /\ old \in Seq(ConnType) /\ Len(old) = Len(conns) /\ DOMAIN old = DOMAIN conns
      /\ Streams(conns, old) /\ \A j \in DOMAIN conns : ~Held(old[j])
  <2>1. CASE transport = 0
    <3>1. \A j \in DOMAIN conns : j # 0 /\ ~Held(conns[j])
      BY <1>1, <2>1 DEF PauseFits
    <3> QED BY <1>1, <2>1, <3>1 DEF Types, Streams
  <2>2. CASE transport # 0
    <3>1. transport \in DOMAIN conns /\ conns \in Seq(ConnType) /\ old = Closed(conns, transport)
      BY <1>1, <2>2 DEF Types
    <3>2. old \in Seq(ConnType) /\ Len(old) = Len(conns) /\ DOMAIN old = DOMAIN conns
      BY <3>1, ClosedType
    <3>3. Streams(conns, old) /\ \A j \in DOMAIN conns : Held(old[j]) => Held(conns[j]) /\ j # transport
      BY <3>1, ClosedStreams
    <3> QED BY <1>1, <3>2, <3>3 DEF PauseFits
  <2> QED BY <2>1, <2>2
<1> HIDE DEF old, c, x
<1>4. /\ cs \in Seq(ConnType) /\ Len(cs) = k /\ DOMAIN cs = 1..k /\ cs[k] = c
      /\ \A j \in DOMAIN conns : cs[j] = old[j]
  BY <1>1, <1>2, <1>3, AppendProperties, LenProperties
<1> HIDE DEF cs
<1>0. p = Pushback(cs, queued, t)
  OBVIOUS
<1> HIDE DEF p
<1>5. t \in 0..Len(cs) /\ t # 0
  BY <1>1, <1>4 DEF Types
<1>6. DOMAIN p.conns = 1..k /\ Streams(cs, p.conns) /\ (p.raises => t = 0)
  BY <1>0, <1>4, <1>5, PushbackType, PushbackStreams
<1>7. \A j \in 1..k : j \in DOMAIN conns \/ j = k
  BY <1>1
<1>8. \A j \in DOMAIN cs : ~Held(cs[j])
  BY <1>2, <1>3, <1>4, <1>7
<1>9. /\ p.paused \in BOOLEAN
      /\ \A j \in DOMAIN cs : Held(p.conns[j]) => p.paused /\ j = t
      /\ p.paused /\ ~p.raises => queueSize # 0 /\ queued >= queueSize
  <2> SUFFICES ASSUME NEW u, u = t
               PROVE  /\ p.paused \in BOOLEAN
                      /\ \A j \in DOMAIN cs : Held(p.conns[j]) => p.paused /\ j = u
                      /\ p.paused /\ ~p.raises => queueSize # 0 /\ queued >= queueSize
    OBVIOUS
  <2>1. /\ readPaused \in BOOLEAN /\ (readPaused => queueSize # 0)
        /\ cs \in Seq(ConnType) /\ u \in 0..Len(cs) /\ p = Pushback(cs, queued, u)
        /\ queueSize \in Nat /\ queued \in Int
        /\ \A j \in DOMAIN cs : Held(cs[j]) => readPaused /\ j = u
    BY <1>0, <1>1, <1>4, <1>5, <1>8 DEF FlowFits, PauseFits
  <2> QED BY ONLY <2>1, PushbackHolds
<1>10. /\ DOMAIN conns \subseteq DOMAIN conns' /\ \A j : ~Carries(x, j)
       /\ \A j \in DOMAIN conns : conns'[j].read = conns[j].read /\ conns'[j].sent = conns[j].sent
  BY <1>1, <1>2, <1>3, <1>4, <1>6 DEF Streams, Carries
<1>11. \A j \in DOMAIN conns' \ DOMAIN conns : j # 0 /\ conns'[j].read = 0 /\ conns'[j].sent = 0
  BY <1>1, <1>2, <1>4, <1>6, <1>7 DEF Streams
<1>12. InRange(x, bound.bytes) /\ queued' = queued + (x.to - x.from)
  BY <1>1, <1>2 DEF InRange
<1>13. FlowFits' /\ Bytes'
  BY <1>1, <1>2, <1>9, <1>10, <1>11, <1>12, ReadGrows
<1>14. PauseFits'
  BY <1>1, <1>4, <1>5, <1>6, <1>9 DEF PauseFits
<1> QED BY <1>13, <1>14 DEF ReadFits

LEMMA ReadLost ==
    ASSUME IInv, ReadFits, NEW k \in DOMAIN conns, ConnectionLost(k), UNCHANGED bound
    PROVE  ReadFits'
<1> DEFINE c == [conns[k] EXCEPT !.state = "lost", !.exc = "eof", !.full = FALSE]
           x == Item(k, 0, 0, conns[k].exc)
<1>1. /\ Types /\ NewFits /\ Alone /\ FlowFits /\ PauseFits /\ pc # "dead"
      /\ DOMAIN conns = 1..Len(conns) /\ Len(conns) \in Nat /\ k \in Nat
      /\ conns[k] \in ConnType /\ conns[k].state = "closing" /\ ~Lost(k)
      /\ queueSize \in Nat /\ bound.bytes \in Nat /\ queued \in Int
      /\ UNCHANGED <<bound, queueSize, queued, readPaused, readerVars>>
  BY LenProperties, ElementOfSeq, BoundType
     DEF IInv, ReadFits, Types, ConnectionLost, Suspended, Lost
<1>2. conns' = [conns EXCEPT ![k] = c]
  BY <1>1 DEF ConnectionLost
<1>3. c.sent = conns[k].sent /\ c.read = conns[k].read /\ c.state = "lost"
  BY <1>1 DEF ConnType
<1>4. x \in ItemType /\ x.from = 0 /\ x.to = 0
  <2>1. conns[k].exc \in {"eof", "other"}
    BY <1>1 DEF ConnType
  <2> QED BY <1>1, <2>1 DEF Item, ItemType
<1> HIDE DEF c
<1>5. /\ DOMAIN conns' = DOMAIN conns /\ Streams(conns, conns')
      /\ \A j \in DOMAIN conns : Held(conns'[j]) => j # k /\ Held(conns[j])
  BY <1>2, <1>3 DEF Streams, Held
<1>6. CASE transport = 0
  <2>1. UNCHANGED <<transport, queue, future, result, missed, buffer, pc, awake, want>>
    BY <1>1, <1>6 DEF ConnectionLost, readerVars
  <2>2. Line' = Line /\ BufferLen' = BufferLen
    BY <2>1 DEF Line, BufferLen
  <2>3. FlowFits'
    BY <1>1, <2>1, <2>2 DEF FlowFits
  <2> QED BY <1>1, <1>5, <2>1, <2>2, <2>3, ReadQuiet
<1>7. CASE transport # 0
  <2>1. transport' = newTransport /\ CheckFuture(Append(queue, x))
    BY <1>7 DEF ConnectionLost
  <2> HIDE DEF x
  <2>2. \A j : ~Carries(x, j)
    BY <1>4 DEF Carries
  <2>3. InRange(x, bound.bytes) /\ queued' = queued + (x.to - x.from)
    BY <1>1, <1>4 DEF InRange
  <2>4. readPaused' \in BOOLEAN
    BY <1>1 DEF FlowFits
  <2>5. /\ DOMAIN conns \subseteq DOMAIN conns' /\ DOMAIN conns' \ DOMAIN conns = {}
        /\ \A j \in DOMAIN conns : conns'[j].read = conns[j].read /\ conns'[j].sent = conns[j].sent
    BY <1>5 DEF Streams
  <2>6. FlowFits' /\ Bytes'
    BY <1>1, <1>4, <2>1, <2>2, <2>3, <2>4, <2>5, ReadGrows
  <2>7. ASSUME NEW j \in DOMAIN conns, Held(conns'[j]) PROVE FALSE
    <3>1. Held(conns[j]) /\ j # k /\ j = transport /\ queueSize # 0 /\ ~Lost(j) /\ conns[j].state = "open"
      BY <1>1, <1>5, <2>7 DEF PauseFits, Held, Lost
    <3>2. PICK r \in 0..transport : \A i \in DOMAIN conns : ~Lost(i) <=> i \in {r, newTransport}
      BY <1>1, <3>1 DEF Alone
    <3>3. newTransport # 0 => transport < newTransport
      BY <1>1 DEF NewFits
    <3>4. j = r /\ k = newTransport /\ newTransport # 0
      BY <1>1, <3>1, <3>2, <3>3
    <3>5. PICK s \in 1..transport : ClosedBefore(s, newTransport)
      BY <1>1, <3>4 DEF NewFits
    <3>6. s \in DOMAIN conns /\ s # newTransport /\ conns[s].state = "closing" /\ ~Lost(s)
      BY <1>1, <3>1, <3>3, <3>4, <3>5 DEF ClosedBefore, Lost
    <3> QED BY <3>1, <3>2, <3>4, <3>6
  <2>8. PauseFits'
    BY <1>1, <1>5, <2>7 DEF PauseFits, readerVars
  <2> QED BY <2>6, <2>8 DEF ReadFits
<1> QED BY <1>6, <1>7
LEMMA ReadInit ==
    ASSUME Init
    PROVE  ReadFits
<1>1. /\ conns = <<>> /\ queue = <<>> /\ result = <<>> /\ buffer = Data(0, 0, 0)
      /\ queued = 0 /\ readPaused = FALSE /\ pc = "idle" /\ awake = FALSE /\ want = 0 /\ missed = FALSE
      /\ future = "none" /\ bound \in Bounds /\ queueSize \in QueueSizes
  BY DEF Init
<1>2. /\ buffer.from = 0 /\ buffer.to = 0 /\ buffer.end = "no" /\ BufferLen = 0
  BY <1>1 DEF Data, Item, BufferLen
<1>3. Line = <<>> /\ Len(Line) = 0 /\ DOMAIN conns = {}
  <2>1. <<>> \in Seq(ItemType)
    OBVIOUS
  <2> QED BY <1>1, <2>1, ConcatEmptySeq DEF Line
<1>4. FlowFits
  BY <1>1, <1>2 DEF FlowFits
<1>5. PauseFits
  BY <1>1, <1>3 DEF PauseFits
<1>6. Ranged(Line, buffer, conns, bound.bytes)
  BY <1>2, <1>3, <1>4, BoundType DEF Ranged, InRange
<1>7. Counted(Line, buffer, queued, queueSize)
  BY <1>1, <1>2, <1>3, SumEmpty DEF Counted
<1>8. Streamed(Line, buffer, conns)
  BY <1>3 DEF Streamed
<1> QED BY <1>4, <1>5, <1>6, <1>7, <1>8 DEF ReadFits, Bytes, DataFits

LEMMA ReadNext == IInv /\ ReadFits /\ [Next]_vars => ReadFits'
<1> SUFFICES ASSUME IInv, ReadFits, [Next]_vars PROVE ReadFits'
  OBVIOUS
<1>1. CASE Callback /\ UNCHANGED bound
  BY <1>1, ReadMade, ReadData, ReadLost, ReadSocket DEF Callback
<1>2. CASE Application /\ UNCHANGED bound
  BY <1>2, ReadPauses, ReadRefill, ReadRecv, ReadUntil, ReadSocket DEF Application
<1>3. CASE UNCHANGED vars
  <2>1. UNCHANGED <<bound, conns, transport, queueSize, streamVars, readerVars, missed>>
    BY <1>3 DEF vars, readerVars
  <2>2. DOMAIN conns' = DOMAIN conns /\ Streams(conns, conns')
        /\ \A k \in DOMAIN conns : Held(conns'[k]) => Held(conns[k])
    BY <2>1 DEF Streams
  <2> QED BY <2>1, <2>2, ReadConns
<1> QED BY <1>1, <1>2, <1>3 DEF Next

LEMMA ReadAlways == Spec => []ReadFits
<1> QED BY ReadInit, ReadNext, Inductive, PTL DEF Spec

--------------------------------------------------------------------------------
(* What follows from it *)

LEMMA Largest ==
    ASSUME NEW n \in Nat, NEW S \in SUBSET (1..n), S # {}
    PROVE  Max(S) \in S /\ \A y \in S : y <= Max(S)
<1> DEFINE T == {k \in Nat : n - k \in S}
<1>1. \A y \in S : y \in Int /\ n - y \in Nat /\ n - (n - y) = y
  OBVIOUS
<1>2. T \in SUBSET Nat /\ T # {} /\ \A y \in S : n - y \in T
  BY <1>1
<1>3. PICK m \in T : \A k \in T : m <= k
  BY <1>2, LeastNatural
<1>4. n - m \in S /\ m \in Nat /\ \A y \in S : n - m >= y
  <2>1. \A y \in S : m <= n - y /\ y \in Int
    BY <1>1, <1>2, <1>3
  <2> QED BY <1>3, <2>1
<1>5. Max(S) \in S /\ \A y \in S : Max(S) >= y
  BY <1>4 DEF Max
<1> QED BY <1>5

(* An item in front of a chain. *)
LEMMA ChainCons ==
    ASSUME NEW L \in Seq(ItemType), NEW b, NEW k, NEW r, NEW s,
           Carries(b, k) => b.from = r, Chain(L, k, Reached(b, k, r), s),
           NEW A, Len(A) = Len(L) + 1, A[1] = b, \A i \in 1..Len(L) : A[i + 1] = L[i]
    PROVE  Chain(A, k, r, s)
<1> SUFFICES ASSUME NEW n \in Nat, n = Len(L) PROVE Chain(A, k, r, s)
  BY LenProperties
<1>1. \A i \in 1..n : Carries(A[i + 1], k) <=> Carries(L[i], k)
  OBVIOUS
<1>2. \A i \in 2..(n + 1) : i - 1 \in 1..n /\ (i - 1) + 1 = i /\ A[i] = L[i - 1]
  <2> TAKE i \in 2..(n + 1)
  <2>1. i - 1 \in 1..n /\ (i - 1) + 1 = i
    OBVIOUS
  <2> QED BY <2>1
<1>3. /\ \A i \in 1..n : FirstOf(L, k, i) => L[i].from = Reached(b, k, r)
      /\ \A i, j \in 1..n : Follows(L, k, i, j) => L[j].from = L[i].to
      /\ \A i \in 1..n : LastOf(L, k, i) => L[i].to = s
      /\ (\A i \in 1..n : ~Carries(L[i], k)) => Reached(b, k, r) = s
  BY DEF Chain
<1>4. ASSUME NEW i \in 1..(n + 1), FirstOf(A, k, i) PROVE A[i].from = r
  <2>1. CASE i = 1
    BY <1>4, <2>1 DEF FirstOf
  <2>2. CASE i \in 2..(n + 1)
    <3>1. ~Carries(b, k)
      BY <1>4, <2>2 DEF FirstOf
    <3>2. ASSUME NEW j \in 1..(i - 2) PROVE ~Carries(L[j], k)
      <4>1. j \in 1..n /\ j + 1 \in 1..(i - 1)
        BY <2>2
      <4>2. ~Carries(A[j + 1], k)
        BY <1>4, <4>1 DEF FirstOf
      <4> QED BY <1>1, <4>1, <4>2
    <3>3. FirstOf(L, k, i - 1)
      BY <1>2, <1>4, <2>2, <3>2 DEF FirstOf
    <3> QED BY <1>2, <1>3, <2>2, <3>1, <3>3 DEF Reached
  <2> QED BY <2>1, <2>2
<1>5. ASSUME NEW i \in 1..(n + 1), NEW j \in 1..(n + 1), Follows(A, k, i, j) PROVE A[j].from = A[i].to
  <2>0. j \in 2..(n + 1) /\ i < j
    BY <1>5 DEF Follows
  <2>1. CASE i = 1
    <3>1. ASSUME NEW m \in 1..(j - 2) PROVE ~Carries(L[m], k)
      <4>1. m \in 1..n /\ m + 1 \in (i + 1)..(j - 1)
        BY <2>0, <2>1
      <4>2. ~Carries(A[m + 1], k)
        BY <1>5, <4>1 DEF Follows
      <4> QED BY <1>1, <4>1, <4>2
    <3>2. FirstOf(L, k, j - 1) /\ Carries(b, k)
      BY <1>2, <1>5, <2>0, <2>1, <3>1 DEF Follows, FirstOf
    <3> QED BY <1>2, <1>3, <2>0, <2>1, <3>2 DEF Reached
  <2>2. CASE i \in 2..(n + 1)
    <3>1. ASSUME NEW m \in i..(j - 2) PROVE ~Carries(L[m], k)
      <4>1. m \in 1..n /\ m + 1 \in (i + 1)..(j - 1)
        BY <2>0, <2>2
      <4>2. ~Carries(A[m + 1], k)
        BY <1>5, <4>1 DEF Follows
      <4> QED BY <1>1, <4>1, <4>2
    <3>2. Follows(L, k, i - 1, j - 1)
      BY <1>2, <1>5, <2>0, <2>2, <3>1 DEF Follows
    <3> QED BY <1>2, <1>3, <2>0, <2>2, <3>2
  <2> QED BY <2>1, <2>2
<1>6. ASSUME NEW i \in 1..(n + 1), LastOf(A, k, i) PROVE A[i].to = s
  <2>0. ASSUME NEW m \in i..n PROVE ~Carries(L[m], k)
    <3>1. m \in 1..n /\ m + 1 \in (i + 1)..(n + 1)
      BY <1>6
    <3>2. ~Carries(A[m + 1], k)
      BY <1>2, <1>6, <3>1 DEF LastOf
    <3> QED BY <1>1, <3>1, <3>2
  <2>1. CASE i = 1
    BY <1>3, <1>6, <2>0, <2>1 DEF LastOf, Reached
  <2>2. CASE i \in 2..(n + 1)
    <3>1. LastOf(L, k, i - 1)
      BY <1>2, <1>6, <2>0, <2>2 DEF LastOf
    <3> QED BY <1>2, <1>3, <2>2, <3>1
  <2> QED BY <2>1, <2>2
<1>7. ASSUME \A i \in 1..(n + 1) : ~Carries(A[i], k) PROVE r = s
  <2>1. ~Carries(b, k) /\ \A i \in 1..n : ~Carries(L[i], k)
    BY <1>1, <1>7
  <2> QED BY <1>3, <2>1 DEF Reached
<1> QED BY <1>4, <1>5, <1>6, <1>7 DEF Chain

Earlier(A, k, i) == {j \in 1..(i - 1) : Carries(A[j], k)}

(* What precedes an item of a chain, or its end, is the last item before. *)
LEMMA ChainUpTo ==
    ASSUME NEW A, NEW n \in Nat, n = Len(A), NEW k, NEW r, NEW s, Chain(A, k, r, s),
           NEW i \in 1..(n + 1), i # n + 1 => Carries(A[i], k),
           NEW before, before = Earlier(A, k, i)
    PROVE  (IF i = n + 1 THEN s ELSE A[i].from) = IF before = {} THEN r ELSE A[Max(before)].to
<1>0. before = {j \in 1..(i - 1) : Carries(A[j], k)}
  BY DEF Earlier
<1>1. CASE before = {}
  <2>1. \A j \in 1..(i - 1) : ~Carries(A[j], k)
    BY <1>0, <1>1
  <2>2. CASE i = n + 1
    BY <1>1, <2>1, <2>2 DEF Chain
  <2>3. CASE i # n + 1
    BY <1>1, <2>1, <2>3 DEF Chain, FirstOf
  <2> QED BY <2>2, <2>3
<1>2. CASE before # {}
  <2>0. i - 1 \in Nat /\ before \in SUBSET (1..(i - 1))
    BY <1>0
  <2>1. PICK m : m = Max(before) /\ m \in before /\ \A y \in before : y <= m
    BY <1>2, <2>0, Largest
  <2>2. m \in 1..(i - 1) /\ m \in 1..n /\ Carries(A[m], k)
    BY <1>0, <2>1
  <2>3. \A j \in (m + 1)..(i - 1) : ~Carries(A[j], k)
    <3> SUFFICES ASSUME NEW j \in (m + 1)..(i - 1), Carries(A[j], k) PROVE FALSE
      OBVIOUS
    <3>1. j \in before /\ ~(j <= m)
      BY <1>0, <2>2
    <3> QED BY <2>1, <3>1
  <2>4. CASE i = n + 1
    <3>1. LastOf(A, k, m)
      BY <2>2, <2>3, <2>4 DEF LastOf
    <3> QED BY <1>2, <2>1, <2>2, <2>4, <3>1 DEF Chain
  <2>5. CASE i # n + 1
    <3>1. Follows(A, k, m, i) /\ i \in 1..n
      BY <2>2, <2>3, <2>5 DEF Follows
    <3> QED BY <1>2, <2>1, <2>2, <2>5, <3>1 DEF Chain
  <2> QED BY <2>4, <2>5
<1> QED BY <1>1, <1>2
(* The state keeps its types: _queued does not become negative, the epoch  *)
(* is at most one ahead of the connections made, and an item is a range of *)
(* the bytes that its connection sent.                                     *)
THEOREM TypeCorrect == Spec => []TypeOK
<1>1. ASSUME IInv, ReadFits PROVE TypeOK
  <2>1. /\ Types /\ WaitFits /\ LineFits /\ FlowFits /\ Line \in Seq(ItemType)
        /\ DOMAIN conns = 1..Len(conns) /\ Len(conns) \in Nat /\ bound.bytes \in Nat
        /\ Ranged(Line, buffer, conns, bound.bytes) /\ Counted(Line, buffer, queued, queueSize)
    BY <1>1, LineProperties, LenProperties, BoundType DEF IInv, ReadFits, Types, Bytes, DataFits
  <2>2. conns \in Seq(Conn)
    <3>1. ASSUME NEW k \in 1..Len(conns) PROVE conns[k] \in Conn
      <4>1. conns[k] \in ConnType
        BY <2>1, <3>1, ElementOfSeq DEF Types
      <4>2. conns[k].sent \in 0..bound.bytes /\ conns[k].read \in 0..bound.bytes
        BY <2>1, <3>1, <4>1 DEF Ranged, ConnType
      <4> QED BY <4>1, <4>2 DEF ConnType, Conn
    <3> QED BY <2>1, <3>1, SeqDef DEF Types
  <2>3. recvEpoch \in 1..(Len(conns) + 1)
    <3>1. PICK ended : EndedFits(ended)
      BY <1>1 DEF IInv
    <3>2. IsFiniteSet(DOMAIN conns) /\ Cardinality(DOMAIN conns) = Len(conns)
      <4>1. SUFFICES ASSUME NEW n, n = Len(conns)
                     PROVE IsFiniteSet(1..n) /\ Cardinality(1..n) = n
        BY <2>1
      <4>2. 1 \in Int /\ n \in Int /\ n >= 0
        BY <2>1, <4>1
      <4>3. IsFiniteSet(1..n) /\ Cardinality(1..n) = IF 1 > n THEN 0 ELSE n - 1 + 1
        BY ONLY <4>2, FS_Interval
      <4> QED BY <4>2, <4>3
    <3>3. IsFiniteSet(ended) /\ Cardinality(ended) <= Len(conns) /\ Cardinality(ended) \in Nat
      BY <3>1, <3>2, FS_Subset, FS_CardinalityType DEF EndedFits
    <3> QED BY <2>1, <3>1, <3>3 DEF EndedFits, Types
  <2>4. queued \in Nat
    <3>1. LineSum(Line) \in Nat
      BY <2>1, RangedSized, SumType DEF Ranged
    <3>2. buffer.from \in Int /\ buffer.to \in Int /\ buffer.from <= buffer.to /\ queued \in Int
      BY <2>1 DEF Ranged, InRange, Types
    <3> QED BY <2>1, <3>1, <3>2 DEF Counted
  <2>5. Len(result) <= 1
    <3>1. CASE result = <<>>
      BY <3>1
    <3>2. CASE result # <<>>
      <4>1. Len(result) = 1
        BY <2>1, <3>2 DEF WaitFits
      <4> QED BY ONLY <4>1
    <3> QED BY <3>1, <3>2
  <2>6. ASSUME NEW item \in ItemType, item.conn \in 0..Len(conns), InRange(item, bound.bytes)
        PROVE  /\ item.conn \in 0..Len(conns) /\ item.from \in 0..item.to /\ item.to \in 0..bound.bytes
               /\ item.end \in {"no", "eof", "other"}
    BY <2>1, <2>6 DEF ItemType, InRange
  <2>7. \A item \in ToSet(queue \o result \o <<buffer>>) :
           item \in ItemType /\ item.conn \in 0..Len(conns) /\ InRange(item, bound.bytes)
    <3>1. ASSUME NEW i \in DOMAIN Line
          PROVE  /\ Line[i] \in ItemType /\ Line[i].conn \in 0..Len(conns)
                 /\ InRange(Line[i], bound.bytes)
      BY <2>1, LenProperties, ElementOfSeq DEF LineFits, Ranged
    <3>2. /\ buffer \in ItemType /\ buffer.conn \in 0..Len(conns) /\ InRange(buffer, bound.bytes)
      BY <2>1 DEF Types, LineFits, Ranged
    <3>3. /\ queue \in Seq(ItemType) /\ result \in Seq(ItemType) /\ <<buffer>> \in Seq(ItemType)
          /\ Len(<<buffer>>) = 1 /\ <<buffer>>[1] = buffer
      BY <2>1 DEF Types
    <3>4. /\ \A i \in DOMAIN queue : \E j \in DOMAIN Line : queue[i] = Line[j]
          /\ \A i \in DOMAIN result : \E j \in DOMAIN Line : result[i] = Line[j]
      <4>1. /\ Len(Line) = Len(result) + Len(queue)
            /\ \A i \in 1..(Len(result) + Len(queue)) :
                  Line[i] = IF i <= Len(result) THEN result[i] ELSE queue[i - Len(result)]
        BY <3>3, ConcatProperties DEF Line
      <4>2. /\ DOMAIN Line = 1..Len(Line) /\ DOMAIN queue = 1..Len(queue) /\ Len(queue) \in Nat
            /\ DOMAIN result = 1..Len(result) /\ Len(result) \in Nat
        BY <2>1, <3>3, LenProperties
      <4>3. ASSUME NEW i \in DOMAIN queue PROVE queue[i] = Line[i + Len(result)] /\ i + Len(result) \in DOMAIN Line
        <5>1. /\ i + Len(result) \in 1..(Len(result) + Len(queue)) /\ ~(i + Len(result) <= Len(result))
              /\ (i + Len(result)) - Len(result) = i
          BY <4>2
        <5> QED BY <4>1, <4>2, <5>1
      <4>4. ASSUME NEW i \in DOMAIN result PROVE result[i] = Line[i] /\ i \in DOMAIN Line
        BY <4>1, <4>2
      <4> QED BY <4>3, <4>4
    <3>5. \A item \in ToSet(queue \o result \o <<buffer>>) :
             \/ item = buffer \/ (\E i \in DOMAIN queue : item = queue[i])
             \/ \E i \in DOMAIN result : item = result[i]
      <4> DEFINE Q == queue \o result
                 A == Q \o <<buffer>>
      <4>1. /\ Q \in Seq(ItemType) /\ Len(Q) = Len(queue) + Len(result)
            /\ \A i \in 1..(Len(queue) + Len(result)) :
                  Q[i] = IF i <= Len(queue) THEN queue[i] ELSE result[i - Len(queue)]
        BY <3>3, ConcatProperties
      <4>2. /\ A \in Seq(ItemType) /\ Len(A) = Len(Q) + Len(<<buffer>>)
            /\ \A i \in 1..(Len(Q) + Len(<<buffer>>)) :
                  A[i] = IF i <= Len(Q) THEN Q[i] ELSE <<buffer>>[i - Len(Q)]
        <5> HIDE DEF Q
        <5> QED BY SMTT(30), ZenonT(30), <3>3, <4>1, ConcatProperties
      <4>3. /\ Len(queue) \in Nat /\ DOMAIN queue = 1..Len(queue)
            /\ Len(result) \in Nat /\ DOMAIN result = 1..Len(result) /\ DOMAIN A = 1..Len(A)
        BY <3>3, <4>2, LenProperties
      <4>4. ToSet(A) = {A[i] : i \in DOMAIN A}
        BY DEF ToSet
      <4> HIDE DEF A, Q
      <4>5. ASSUME NEW i \in DOMAIN A
            PROVE  \/ A[i] = buffer \/ (\E j \in DOMAIN queue : A[i] = queue[j])
                   \/ \E j \in DOMAIN result : A[i] = result[j]
        <5>1. i \in 1..(Len(Q) + 1)
          BY <3>3, <4>2, <4>3
        <5>2. CASE i <= Len(queue)
          <6>1. i \in DOMAIN queue /\ A[i] = queue[i]
            BY <3>3, <4>1, <4>2, <4>3, <5>1, <5>2
          <6> QED BY <6>1
        <5>3. CASE i > Len(queue) /\ i <= Len(Q)
          <6>1. i - Len(queue) \in DOMAIN result /\ A[i] = result[i - Len(queue)]
            BY <3>3, <4>1, <4>2, <4>3, <5>1, <5>3
          <6> QED BY <6>1
        <5>4. CASE i > Len(Q)
          <6>1. i - Len(Q) = 1
            BY <4>1, <4>3, <5>1, <5>4
          <6> QED BY <3>3, <4>1, <4>2, <4>3, <5>1, <5>4, <6>1
        <5> QED BY <4>1, <4>3, <5>1, <5>2, <5>3, <5>4
      <4> QED BY <4>4, <4>5 DEF A, Q
    <3> QED BY <3>1, <3>2, <3>4, <3>5
  <2> QED BY <2>1, <2>2, <2>3, <2>4, <2>5, <2>6, <2>7 DEF TypeOK, Types, FlowFits
<1>2. IInv /\ ReadFits => TypeOK
  BY <1>1
<1> QED BY <1>2, Inductive, ReadAlways, PTL

(* recv() and recv_until() return the bytes of every client in the order   *)
(* in which it sent them, each of them once, as long as no cancelled       *)
(* recv_wait() takes any along.                                            *)
THEOREM ReadsInOrder == Spec => []StreamOrder
<1>1. ASSUME IInv, ReadFits PROVE StreamOrder
  <2> SUFFICES ASSUME ~missed, NEW k \in DOMAIN conns
               PROVE  /\ \A i \in DOMAIN Ahead : Carries(Ahead[i], k) => Ahead[i].from = UpTo(k, i)
                      /\ conns[k].sent = UpTo(k, Len(Ahead) + 1)
    BY DEF StreamOrder
  <2>1. /\ Types /\ Line \in Seq(ItemType) /\ Streamed(Line, buffer, conns)
    BY <1>1, LineProperties DEF IInv, ReadFits, Bytes, DataFits
  <2> DEFINE r == conns[k].read
             s == conns[k].sent
  <2>2. /\ Carries(buffer, k) => buffer.from = r
        /\ Chain(Line, k, Reached(buffer, k, r), s)
    BY <2>1 DEF Streamed
  <2> SUFFICES ASSUME NEW A, A = Ahead, NEW n, n = Len(A)
               PROVE  /\ \A i \in DOMAIN A : Carries(A[i], k) => A[i].from = UpTo(k, i)
                      /\ s = UpTo(k, n + 1)
    OBVIOUS
  <2>3. /\ A \in Seq(ItemType) /\ n \in Nat /\ n = Len(Line) + 1 /\ DOMAIN A = 1..n
        /\ A[1] = buffer /\ \A i \in 1..Len(Line) : A[i + 1] = Line[i]
    <3>1. <<buffer>> \in Seq(ItemType) /\ Len(<<buffer>>) = 1 /\ <<buffer>>[1] = buffer
          /\ queue \in Seq(ItemType) /\ result \in Seq(ItemType)
      BY <2>1 DEF Types
    <3>2. A = <<buffer>> \o Line
      BY <3>1, ConcatAssociative DEF Ahead, Line
    <3>3. /\ A \in Seq(ItemType) /\ Len(A) = Len(<<buffer>>) + Len(Line)
          /\ \A i \in 1..(Len(<<buffer>>) + Len(Line)) :
                A[i] = IF i <= Len(<<buffer>>) THEN <<buffer>>[i] ELSE Line[i - Len(<<buffer>>)]
      BY <2>1, <3>1, <3>2, ConcatProperties
    <3>4. Len(Line) \in Nat /\ Len(A) \in Nat /\ DOMAIN A = 1..Len(A)
      BY <2>1, <3>3, LenProperties
    <3>5. ASSUME NEW i \in 1..Len(Line) PROVE A[i + 1] = Line[i]
      <4>1. i + 1 \in 1..(1 + Len(Line)) /\ ~(i + 1 <= 1) /\ (i + 1) - 1 = i
        BY <3>4
      <4> QED BY <3>1, <3>3, <4>1
    <3> QED BY <3>1, <3>3, <3>4, <3>5
  <2>4. Chain(A, k, r, s)
    BY <2>1, <2>2, <2>3, ChainCons
  <2>5. ASSUME NEW i \in 1..(n + 1), i # n + 1 => Carries(A[i], k)
        PROVE  (IF i = n + 1 THEN s ELSE A[i].from) = UpTo(k, i)
    <3> SUFFICES ASSUME NEW before, before = {j \in 1..(i - 1) : Carries(A[j], k)},
                        NEW first, first = r, NEW last, last = s
                 PROVE  (IF i = n + 1 THEN last ELSE A[i].from) = UpTo(k, i)
      OBVIOUS
    <3>1. UpTo(k, i) = IF before = {} THEN first ELSE A[Max(before)].to
      BY DEF UpTo
    <3>2. n \in Nat /\ n = Len(A) /\ Chain(A, k, first, last) /\ i \in 1..(n + 1) /\ (i # n + 1 => Carries(A[i], k))
          /\ before = Earlier(A, k, i)
      BY <2>3, <2>4, <2>5 DEF Earlier
    <3> HIDE DEF r, s
    <3>3. (IF i = n + 1 THEN last ELSE A[i].from) = IF before = {} THEN first ELSE A[Max(before)].to
      BY ONLY <3>2, ChainUpTo
    <3> QED BY <3>1, <3>3
  <2>6. n + 1 \in 1..(n + 1) /\ \A i \in 1..n : i \in 1..(n + 1) /\ i # n + 1
    BY <2>3
  <2>7. s = UpTo(k, n + 1)
    BY <2>5, <2>6
  <2>8. \A i \in 1..n : Carries(A[i], k) => A[i].from = UpTo(k, i)
    BY <2>5, <2>6
  <2> QED BY <2>3, <2>7, <2>8
<1>2. IInv /\ ReadFits => StreamOrder
  BY <1>1
<1> QED BY <1>2, Inductive, ReadAlways, PTL

(* Pushback ends: when the application waits for data all that was counted *)
(* is read, and no connection is paused.                                   *)
THEOREM NeverStalls == Spec => []NoStall
<1>1. ASSUME IInv, ReadFits, future = "pending", NEW k \in DOMAIN conns, Held(conns[k])
      PROVE  FALSE
  <2>1. /\ Types /\ WaitFits /\ FlowFits /\ PauseFits /\ queueSize \in Nat
        /\ Counted(Line, buffer, queued, queueSize)
    BY <1>1, BoundType DEF IInv, ReadFits, Bytes, DataFits
  <2>2. pc # "dead" /\ BufferLen = 0 /\ queue = <<>> /\ result = <<>>
    BY <1>1, <2>1 DEF WaitFits, Waiting, FlowFits
  <2>3. queueSize # 0 /\ queued >= queueSize
    BY <1>1, <2>1, <2>2 DEF PauseFits
  <2>4. Line = <<>>
    <3>1. <<>> \in Seq(ItemType)
      OBVIOUS
    <3> QED BY <2>2, <3>1, ConcatEmptySeq DEF Line
  <2>5. queued = 0
    BY <2>1, <2>2, <2>3, <2>4, SumEmpty DEF Counted, BufferLen
  <2> QED BY <2>1, <2>3, <2>5
<1>2. IInv /\ ReadFits => NoStall
  BY <1>1 DEF NoStall, Held
<1> QED BY <1>2, Inductive, ReadAlways, PTL

================================================================================
