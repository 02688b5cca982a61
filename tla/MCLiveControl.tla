--------------------------- MODULE MCLiveControl ---------------------------
(* LiveControl on a small instance; no step tells one run from another. *)
EXTENDS LiveControl, TLC

Alike == Permutations(Run)
=============================================================================
