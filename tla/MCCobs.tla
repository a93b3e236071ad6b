--------------------------------- MODULE MCCobs --------------------------------
(* A small instance of Cobs: bytes of two bits. *)
EXTENDS Cobs

================================================================================
