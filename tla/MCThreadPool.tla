----------------------------- MODULE MCThreadPool ----------------------------
(***************************************************************************)
(* TLC instances of ThreadPool.  Tasks are the addresses 1, 2, 3; workers  *)
(* are interchangeable, so the runs that check no liveness are reduced by  *)
(* their permutations.  A word of 16 is wide enough for a counter below    *)
(* zero to be greater than every number of threads, as it is with 2^32.    *)
(***************************************************************************)
EXTENDS ThreadPool, TLC

Symmetry == Permutations(Workers)

==============================================================================
