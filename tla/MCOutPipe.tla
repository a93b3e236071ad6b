------------------------------- MODULE MCOutPipe -------------------------------
EXTENDS OutPipeStream, TLC

Symmetry == Permutations(Callers)

================================================================================
