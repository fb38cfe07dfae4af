--------------------------- MODULE MCAppJobRunner ---------------------------
(* AppJobRunner for TLC: callers run the same code, so they are symmetric   *)
(* (safety runs only).                                                      *)
EXTENDS AppJobRunner, TLC

CallerSymmetry == Permutations(Callers)

=============================================================================
