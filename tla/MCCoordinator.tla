---------------------------- MODULE MCCoordinator ----------------------------
\* CoordinatorSpec for TLC: no step tells processes, signatures or callers apart.
EXTENDS CoordinatorSpec, TLC

Alike == Permutations(Proc) \cup Permutations(Sig) \cup Permutations(Call)
=============================================================================
