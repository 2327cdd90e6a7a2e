-------------------------- MODULE MCConfiguration --------------------------
(* Instances of Configuration for TLC.                                     *)
EXTENDS Configuration, TLC

Symmetry == Permutations(Api) \cup Permutations(Token)
=============================================================================
