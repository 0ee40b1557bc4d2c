--------------------------- MODULE MCBoxLifecycle ---------------------------
EXTENDS BoxProperties, TLC

ProcSymmetry == Permutations(Procs)
ProcImageSymmetry == Permutations(Procs) \cup Permutations(Images)
=============================================================================
