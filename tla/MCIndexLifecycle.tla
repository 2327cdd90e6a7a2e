------------------------- MODULE MCIndexLifecycle -------------------------
(* Instances of IndexLifecycle for model checking. *)
EXTENDS IndexLifecycle

OneDepartment == {"sales"}
=============================================================================
