--------------------------- MODULE JobLifecycle ---------------------------
(***************************************************************************)
(* What an import job promises to the rest of Little Bear, without         *)
(* workers, locks, leases or attempts: a live job performs the effects of  *)
(* its stages once each and in order, and settles as a success (all of     *)
(* them), a failure or a cancellation.                                     *)
(***************************************************************************)
EXTENDS Naturals

CONSTANTS Job, WorkStage   \* WorkStage is an interval of naturals

VARIABLES
  phase,    \* absent, live, success, failed or cancelled
  begin,    \* the stage the job begins with
  effects   \* how often the effect of each stage was performed

jvars == <<phase, begin, effects>>

Init ==
  /\ phase = [j \in Job |-> "absent"]
  /\ effects = [j \in Job |-> [s \in WorkStage |-> 0]]
  /\ begin \in [Job -> WorkStage]

(* The stages still to perform, of which the least is next. *)
Rest(j) == {s \in WorkStage : s >= begin[j] /\ effects[j][s] = 0}
IsNext(j, s) == s \in Rest(j) /\ \A r \in Rest(j) : s <= r

Create(j) ==
  /\ phase[j] = "absent"
  /\ phase' = [phase EXCEPT ![j] = "live"]
  /\ \E s \in WorkStage : begin' = [begin EXCEPT ![j] = s]
  /\ UNCHANGED effects

Perform(j, s) ==
  /\ phase[j] = "live"
  /\ IsNext(j, s)
  /\ effects' = [effects EXCEPT ![j][s] = 1]
  /\ phase' = [phase EXCEPT ![j] = IF Rest(j) = {s} THEN "success" ELSE "live"]
  /\ UNCHANGED begin

Fail(j) ==
  /\ phase[j] = "live"
  /\ phase' = [phase EXCEPT ![j] = "failed"]
  /\ UNCHANGED <<begin, effects>>

(* The code cancels a job that settled meanwhile, too: see ImportJobs. *)
Cancel(j) ==
  /\ phase[j] \in {"live", "success", "failed"}
  /\ phase' = [phase EXCEPT ![j] = "cancelled"]
  /\ UNCHANGED <<begin, effects>>

Next == \E j \in Job : \/ Create(j)
                      \/ \E s \in WorkStage : Perform(j, s)
                      \/ Fail(j)
                      \/ Cancel(j)

Spec == Init /\ [][Next]_jvars
===========================================================================
