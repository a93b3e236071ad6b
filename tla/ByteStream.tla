------------------------------- MODULE ByteStream ------------------------------
(***************************************************************************)
(* What a pipe promises: a stream of bytes, numbered as they are sent,     *)
(* leaves it in order, each byte once.  Bytes get lost only by a reset,    *)
(* whichever, and by the failure of a transfer: some that are next to each *)
(* other, or that have not been accepted yet.                              *)
(***************************************************************************)
EXTENDS Naturals, Sequences, Functions

VARIABLES queue,      \* bytes that have been sent and not received
          sent,       \* bytes sent
          faults,     \* transfers that have failed
          resetting

vars == <<queue, sent, faults, resetting>>

Run(a, b) == [i \in 1..(b - a) |-> a + i]

Init == queue = <<>> /\ sent = 0 /\ faults = 0 /\ resetting = FALSE

Send ==
    /\ sent' > sent
    /\ queue' = queue \o Run(sent, sent')
    /\ UNCHANGED <<faults, resetting>>

Suffix == \E n \in 0..Len(queue) : queue' = SubSeq(queue, n + 1, Len(queue))

Receive == Suffix /\ UNCHANGED <<sent, faults, resetting>>

(* A run of bytes is taken out of the queue. *)
Gap ==
    \E i, j \in 0..Len(queue) :
        i <= j /\ queue' = SubSeq(queue, 1, i) \o SubSeq(queue, j + 1, Len(queue))

Fail == faults' = faults + 1 /\ Gap /\ sent' >= sent /\ UNCHANGED resetting

StartReset == ~resetting /\ resetting' = TRUE /\ UNCHANGED <<queue, sent, faults>>

Ascending(s) == \A i, j \in DOMAIN s : i < j => s[i] < s[j]

(* Bytes are dropped, whichever, and the reset goes on or ends.  The queue  *)
(* is in the order of the numbers of its bytes, and what is left still is.  *)
Drop ==
    /\ resetting
    /\ Ascending(queue') /\ Range(queue') \subseteq Range(queue)
    /\ UNCHANGED <<sent, faults>>
    /\ resetting' \in BOOLEAN

Next == Send \/ Receive \/ Fail \/ StartReset \/ Drop

Spec == Init /\ [][Next]_vars

================================================================================
