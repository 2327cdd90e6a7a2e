---------------------------- MODULE ImportStages ----------------------------
(***************************************************************************)
(* The stages and types of import jobs, which the job rows (ImportJobs)    *)
(* and what the stages write (IndexLifecycle) have in common.              *)
(***************************************************************************)
EXTENDS Integers

AllJobTypes == {"upload", "url", "metadata_batch",
                "index_rebuild", "permission_refresh", "index_delete"}

(* IMPORT_STAGES, by position. *)
Validate == 1
Parse    == 2
Clean    == 3
Chunk    == 4
Embed    == 5
Index    == 6
Publish  == 7
Cleanup  == 8
Finished == 9
WorkStage == Validate..Cleanup
Stage     == Validate..Finished

(* The stage a job of each type is queued at. *)
FirstStage(t) == CASE t = "index_rebuild"      -> Embed
                   [] t = "permission_refresh" -> Index
                   [] t = "index_delete"       -> Cleanup
                   [] OTHER                    -> Validate

(* The stage a manual retry of a job is queued at. *)
RetryStage(t) == IF t = "index_rebuild" THEN Embed ELSE Validate
=============================================================================
