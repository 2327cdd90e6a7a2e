----------------------------- MODULE MCSessions -----------------------------
(* Instances of Sessions for model checking. *)
EXTENDS Sessions, TLC

Symmetry == Permutations(Api) \cup Permutations(Session)
=============================================================================
