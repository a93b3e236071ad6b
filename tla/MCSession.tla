------------------------------- MODULE MCSession -------------------------------
(* Small instances of Session: builds and host processes are interchangeable. *)
EXTENDS Session, TLC

Symmetry == Permutations(Hosts) \cup Permutations(Builds)

================================================================================
