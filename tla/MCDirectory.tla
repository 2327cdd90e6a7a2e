----------------------------- MODULE MCDirectory -----------------------------
(* Instances of Directory for model checking. *)
EXTENDS Directory, TLC

CONSTANTS d0, d1

Admin == [role |-> "system_admin", scope |-> "enterprise"]
Local == [role |-> "department_admin", scope |-> d1]
Employee == [role |-> "employee", scope |-> "enterprise"]
MCGrantSets == {{Admin}, {Local}, {Employee}}

Symmetry == Permutations(Requests)
=============================================================================
