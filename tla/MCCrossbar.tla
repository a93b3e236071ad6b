------------------------------- MODULE MCCrossbar ------------------------------
(* A small instance of Crossbar: two endpoints are in use at a time. *)
EXTENDS Crossbar

MCMaxBytes == [e \in 0..3 |-> <<5, 2, 3, 2>>[e + 1]]

MCUses == {{0, 1}, {1, 2}, {2, 3}}

================================================================================
