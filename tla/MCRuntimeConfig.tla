-------------------------- MODULE MCRuntimeConfig --------------------------
(* A process with two threads, and one that only makes changes. *)
EXTENDS RuntimeConfig

MCProcessOf == [t \in Thread |-> "p1"]
MCKeyRef == [v \in VersionNumber |-> "k1"]
==============================================================================
