-------------------------------- MODULE MCInPipe -------------------------------
(* Small instances of InPipe: the callers are interchangeable. *)
EXTENDS InPipeStream, TLC

Symmetry == Permutations(Callers)

================================================================================
