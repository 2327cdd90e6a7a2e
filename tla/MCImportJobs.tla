--------------------------- MODULE MCImportJobs ---------------------------
(* Instances of ImportJobs for TLC. *)
EXTENDS ImportJobs, TLC

CONSTANTS w1, w2, w3, idA, idB

(* w1 and w2 run under one WORKER_ID, w3 under another. *)
SharedIds == [w \in Worker |-> IF w = w3 THEN idB ELSE idA]
UniqueIds == [w \in Worker |-> IF w = w1 THEN idA ELSE idB]

SameIdWorkers == Permutations({w1, w2})
===========================================================================
