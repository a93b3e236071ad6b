------------------------------ MODULE InPipeStream -----------------------------
(***************************************************************************)
(* An IN pipe is a ByteStream: the queue is its buffer, and behind it what *)
(* transfers that have completed hold, whose tasks the event loop has yet  *)
(* to run.                                                                 *)
(***************************************************************************)
EXTENDS InPipe, SequencesExt

(* Completed transfers of unfinished tasks, in the order of completion. *)
Complete ==
    LET full == {t \in Unfinished : tasks[t].urb = "ok" /\ Stored(t) > 0}
    IN  CHOOSE s \in [1..Cardinality(full) -> full] :
            \A i, j \in DOMAIN s : i < j => tasks[s[i]].from < tasks[s[j]].from

Arrived == FlattenSeq([i \in DOMAIN Complete |->
                          [n \in 1..Stored(Complete[i]) |-> tasks[Complete[i]].from + n]])

Resetting == \E c \in Callers : pc[c] = "cancel"

Stream == INSTANCE ByteStream WITH
    queue <- buffer \o Arrived, sent <- produced, faults <- failures, resetting <- Resetting

(* However many transfers complete at once and tasks are held back, the     *)
(* application reads the device's bytes in order and once, and only a reset *)
(* or a failed transfer loses any.                                          *)
IsByteStream == Stream!Spec

================================================================================
