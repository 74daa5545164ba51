------------------------------- MODULE MCFiles -------------------------------
(* The instances of Files that TLC checks: the symmetry of its sets. *)
EXTENDS Files, TLC

Symmetric ==
    Permutations(Objects) \cup Permutations(Processes) \cup Permutations(Names) \cup
    Permutations(Inodes)
==============================================================================
