----------------------------- MODULE OutPipeStream -----------------------------
(***************************************************************************)
(* An OUT pipe is a ByteStream: what its transfers and its buffer hold, in *)
(* the order in which the device is to get it, is the queue.               *)
(***************************************************************************)
EXTENDS OutPipe, SequencesExt

Run(a, b) == [i \in 1..(b - a) |-> a + i]

Carried(t) == Run(tasks[t].from, tasks[t].to)

(* A task that has not started yet submits its transfer after those that have. *)
Created ==
    LET new == {t \in TaskIds : tasks[t].state = "created"}
    IN  CHOOSE s \in [1..Cardinality(new) -> new] : \A i, j \in DOMAIN s : i < j => s[i] < s[j]

Held == urbs \o Created

Resetting == \E c \in Callers : pc[c] = "cancel"

Stream == INSTANCE ByteStream WITH
    queue     <- FlattenSeq([i \in DOMAIN Held |-> Carried(Held[i])]) \o Run(pos, wtotal),
    sent      <- wtotal,
    faults    <- failures,
    resetting <- Resetting

(* Whatever callers, tasks, cancellations and the host controller do, the   *)
(* application's bytes reach the device in order and once, and only a reset *)
(* or a failed transfer loses any.                                          *)
IsByteStream == Stream!Spec

================================================================================
