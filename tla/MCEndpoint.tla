------------------------------- MODULE MCEndpoint ------------------------------
(* Small instances of Endpoint: with and without a limit of the queue, and *)
(* with many connections or many bytes.                                    *)
EXTENDS Endpoint

Bound(c, b) == [conns |-> c, bytes |-> b]

MCBounds == {Bound(3, 1), Bound(2, 3)}

MCReplyBounds == {Bound(2, 1)}

================================================================================
