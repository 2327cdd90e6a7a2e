--------------------------- MODULE IndexLifecycle ---------------------------
(***************************************************************************)
(* What the stages of import jobs write for one document, which has one    *)
(* document version: its lifecycle and index status, its chunks, its index *)
(* versions with their keyword entries and Qdrant points, and the blocks   *)
(* that permission changes put on it.                                      *)
(*                                                                         *)
(* Jobs behave as JobLifecycle promises, one runner at a time.  A stage is *)
(* a READ COMMITTED transaction: what it reads, what it does to Qdrant     *)
(* (seen at once, kept when the transaction rolls back) and what it        *)
(* commits are steps of their own wherever another job or an administrator *)
(* can come in between.  Chunks, references, keyword entries and points    *)
(* are written for all chunks of an index version by one statement each,   *)
(* so one value per index version stands for them.                         *)
(***************************************************************************)
EXTENDS ImportStages, FiniteSets

CONSTANTS
  MaxJobs,     \* jobs that a behaviour may create
  MaxIndexes,  \* index versions that a behaviour may create
  MaxPolicy,   \* permission changes
  Department   \* departments that may own the document

ASSUME SizesAssumption ==
  MaxJobs \in Nat \ {0} /\ MaxIndexes \in Nat /\ MaxPolicy \in Nat

ASSUME DepartmentAssumption == "enterprise" \notin Department

Job      == 1..MaxJobs
IndexVersion == 1..MaxIndexes   \* in the order of created_at
Audience == {"enterprise"} \cup Department

Draft == {"draft", "ready"}
Past  == {"pending_delete", "archived"}

VARIABLES
  \* documents: lifecycle_status, index_status, deleted_at, the audience of
  \* owner_department_id and visibility, its snapshot; the version; the chunks
  life, idx, gone, audience, policy, version, chunk,
  \* access_blocks: active permission_tightened ones, an active deleted one
  tight, barred,
  \* index_versions: status, permission_snapshot_hash, visibility_state of
  \* the references and their keyword entries, number of draft keyword
  \* entries per chunk, audience in the payload, Qdrant points
  status, hash, refs, drafts, shown, point,
  \* import_jobs, as JobLifecycle has them, and their types
  phase, begin, effects, jobType,
  \* the open stage transaction of each job, and what it has read
  step, saw

document == <<life, idx, gone, audience, policy, version, chunk>>
blocks   == <<tight, barred>>
indexes  == <<status, hash, refs, drafts, shown, point>>
jobs     == <<phase, begin, effects, jobType>>
txs      == <<step, saw>>
vars     == <<document, blocks, indexes, jobs, txs>>

Jobs == INSTANCE JobLifecycle

Nothing == [ivs |-> {}, bare |-> {}, hash |-> 0, audience |-> "enterprise",
            searchable |-> FALSE]

TypeOK ==
  /\ life \in {"draft", "active", "archived", "deleted"}
  /\ idx \in {"none", "indexing", "indexed", "blocked"}
  /\ gone \in BOOLEAN
  /\ audience \in Audience
  /\ policy \in 0..MaxPolicy
  /\ version \in {"draft", "parsed", "chunked", "active"}
  /\ chunk \in {"none", "draft", "active"}
  /\ tight \in Nat
  /\ barred \in BOOLEAN
  /\ status \in [IndexVersion -> {"absent", "active"} \cup Draft \cup Past]
  /\ hash \in [IndexVersion -> 0..MaxPolicy]
  /\ refs \in [IndexVersion -> {"none", "draft", "active", "deleted"}]
  /\ drafts \in [IndexVersion -> Nat]
  /\ shown \in [IndexVersion -> Audience]
  /\ point \in [IndexVersion -> {"none", "draft", "active", "hidden"}]
  /\ phase \in [Job -> {"absent", "live", "success", "failed", "cancelled"}]
  /\ begin \in [Job -> WorkStage]
  /\ effects \in [Job -> [WorkStage -> {0, 1}]]
  /\ jobType \in [Job -> AllJobTypes]
  /\ step \in [Job -> {"idle", "embedding", "indexing", "upserted", "publishing",
                      "activated", "refreshing"}]
  /\ saw \in [Job -> [ivs : SUBSET IndexVersion, bare : SUBSET IndexVersion,
                      hash : 0..MaxPolicy, audience : Audience,
                      searchable : BOOLEAN]]

(* A document was imported: its upload job, the first one, is queued.      *)
Init ==
  /\ life = "draft" /\ idx = "none" /\ gone = FALSE
  /\ audience \in Audience /\ policy = 0
  /\ version = "draft" /\ chunk = "none"
  /\ tight = 0 /\ barred = FALSE
  /\ status = [i \in IndexVersion |-> "absent"]
  /\ hash = [i \in IndexVersion |-> 0]
  /\ refs = [i \in IndexVersion |-> "none"]
  /\ drafts = [i \in IndexVersion |-> 0]
  /\ shown = [i \in IndexVersion |-> "enterprise"]
  /\ point = [i \in IndexVersion |-> "none"]
  /\ phase = [j \in Job |-> IF j = 1 THEN "live" ELSE "absent"]
  /\ begin = [j \in Job |-> Validate]
  /\ effects = [j \in Job |-> [s \in WorkStage |-> 0]]
  /\ jobType = [j \in Job |-> "upload"]
  /\ step = [j \in Job |-> "idle"]
  /\ saw = [j \in Job |-> Nothing]

---------------------------------------------------------------------------
(* Faulty variants of definitions below, each named for the definition it  *)
(* would replace: with it, TLC finds the property it breaks violated.      *)

Switched_NoReadyGuard(i, L) ==
  IF i \in L /\ \A k \in L : k <= i THEN "active"
  ELSE IF status[i] = "active" \/ (i \in L /\ status[i] = "ready")
       THEN "pending_delete" ELSE status[i]
RefreshTargets_AnyReference == {i \in IndexVersion : refs[i] \in {"draft", "active"}}
BlocksLeft_IfNoTarget(j) == IF saw[j].ivs = {} THEN tight ELSE 0
NewSnapshot_OnlyIfTightened(a) == IF a = "enterprise" THEN policy ELSE policy + 1
KeywordHit_AnyBlock ==
  /\ life = "active" /\ idx = "indexed" /\ chunk = "active" /\ tight = 0
  /\ \E i \in IndexVersion : status[i] = "active" /\ refs[i] = "active"

---------------------------------------------------------------------------
(* Jobs and their transactions.                                            *)

AtStage(j, s) == phase[j] = "live" /\ Jobs!IsNext(j, s)
At(j, s, p) == AtStage(j, s) /\ step[j] = p

Builds(j) == jobType[j] \in {"upload", "index_rebuild"}
IsRebuild(j) == jobType[j] = "index_rebuild"

(* A transaction goes on to step p, having read r. *)
Go(j, p, r) ==
  /\ step' = [step EXCEPT ![j] = p]
  /\ saw' = [saw EXCEPT ![j] = r]
  /\ UNCHANGED jobs

(* It commits the effect of stage s ... *)
Commit(j, s) ==
  /\ Jobs!Perform(j, s)
  /\ step' = [step EXCEPT ![j] = "idle"]
  /\ saw' = [saw EXCEPT ![j] = Nothing]
  /\ UNCHANGED jobType

(* ... or rolls back, and a worker runs the stage again: an error that is  *)
(* retried, a crash, or a violated unique index.                           *)
Abort(j) ==
  /\ phase[j] = "live" /\ step[j] # "idle"
  /\ Go(j, "idle", Nothing)
  /\ UNCHANGED <<document, blocks, indexes>>

(* The job fails or is cancelled. *)
Stop(j) ==
  /\ Jobs!Fail(j)
  /\ step' = [step EXCEPT ![j] = "idle"]
  /\ saw' = [saw EXCEPT ![j] = Nothing]
  /\ UNCHANGED <<document, blocks, indexes, jobType>>

Enqueue(j, t, s) ==
  /\ \A i \in Job : i < j => phase[i] # "absent"
  /\ Jobs!Create(j)
  /\ begin' = [begin EXCEPT ![j] = s]
  /\ jobType' = [jobType EXCEPT ![j] = t]
  /\ UNCHANGED txs

RetryJob(i, j) ==
  /\ phase[i] = "failed"
  /\ Enqueue(j, jobType[i], RetryStage(jobType[i]))
  /\ UNCHANGED <<document, blocks, indexes>>

---------------------------------------------------------------------------
(* Validate, parse, clean and chunk: one statement each for the document.  *)

(* Requests of other job types name no document_ids and fail to validate.  *)
ValidateStage(j) ==
  /\ Builds(j)
  /\ idx' = IF idx = "none" /\ life = "draft" THEN "indexing" ELSE idx
  /\ Commit(j, Validate)
  /\ UNCHANGED <<life, gone, audience, policy, version, chunk, blocks, indexes>>

ParseStage(j) ==
  /\ version' = IF version = "draft" THEN "parsed" ELSE version
  /\ Commit(j, Parse)
  /\ UNCHANGED <<life, idx, gone, audience, policy, chunk, blocks, indexes>>

CleanStage(j) ==
  /\ Commit(j, Clean)
  /\ UNCHANGED <<document, blocks, indexes>>

(* write_draft_chunks: ON CONFLICT DO NOTHING keeps chunks that exist.     *)
ChunkStage(j) ==
  /\ chunk' = IF chunk = "none" THEN "draft" ELSE chunk
  /\ version' = IF version \in {"parsed", "chunked"} THEN "chunked" ELSE version
  /\ Commit(j, Chunk)
  /\ UNCHANGED <<life, idx, gone, audience, policy, blocks, indexes>>

---------------------------------------------------------------------------
(* Embed: the index version's row.                                         *)

IsTarget == version \in {"chunked", "active"} /\ life \in {"draft", "active"}

(* A rebuild builds anew beside the active index version.                  *)
Reusable(j) ==
  {i \in IndexVersion :
     status[i] \in Draft \cup IF IsRebuild(j) THEN {} ELSE {"active"}}

HasChunks(j) == chunk = "draft" \/ (IsRebuild(j) /\ chunk = "active")

(* Nothing to do: no target, or an index version is there already, whatever*)
(* permission snapshot it was made for.                                    *)
EmbedKeeps(j) ==
  /\ At(j, Embed, "idle")
  /\ ~IsTarget \/ Reusable(j) # {}
  /\ Commit(j, Embed)
  /\ UNCHANGED <<document, blocks, indexes>>

EmbedRead(j) ==
  /\ At(j, Embed, "idle")
  /\ IsTarget /\ Reusable(j) = {} /\ HasChunks(j)
  /\ Go(j, "embedding", [Nothing EXCEPT !.hash = policy])
  /\ UNCHANGED <<document, blocks, indexes>>

EmbedCommit(j, i) ==
  /\ At(j, Embed, "embedding")
  /\ status[i] = "absent"
  /\ \A k \in IndexVersion : k < i => status[k] # "absent"
  /\ status' = [status EXCEPT ![i] = "draft"]
  /\ hash' = [hash EXCEPT ![i] = saw[j].hash]
  /\ Commit(j, Embed)
  /\ UNCHANGED <<document, blocks, refs, drafts, shown, point>>

---------------------------------------------------------------------------
(* Index: keyword entries, references and points of every draft index      *)
(* version of the document.                                                *)

Unreferenced(I) == {i \in I : refs[i] = "none"}

IndexRead(j) ==
  LET D == {i \in IndexVersion : status[i] = "draft"} IN
  /\ Builds(j)
  /\ At(j, Index, "idle")
  /\ D # {} /\ HasChunks(j)
  /\ Go(j, "indexing", [Nothing EXCEPT !.ivs = D, !.bare = Unreferenced(D),
                                       !.audience = audience])
  /\ UNCHANGED <<document, blocks, indexes>>

(* Another transaction that inserted references and has not ended. *)
RefsPending(j) ==
  \E k \in Job \ {j} : step[k] = "upserted" /\ saw[k].bare \cap saw[j].ivs # {}

(* A keyword entry is inserted where no reference is seen (NOT EXISTS, at a *)
(* moment since the read), then the reference, which waits for a pending   *)
(* one and yields to it (ON CONFLICT DO NOTHING); then the points.         *)
IndexWrite(j) ==
  /\ At(j, Index, "indexing")
  /\ ~RefsPending(j)
  /\ \E F \in SUBSET saw[j].bare :
       /\ Unreferenced(saw[j].ivs) \subseteq F
       /\ Go(j, "upserted", [saw[j] EXCEPT !.bare = F])
  /\ point' = [i \in IndexVersion |-> IF i \in saw[j].ivs THEN "draft" ELSE point[i]]
  /\ UNCHANGED <<document, blocks, status, hash, refs, drafts, shown>>

IndexCommit(j) ==
  LET new == Unreferenced(saw[j].bare) IN
  /\ At(j, Index, "upserted")
  /\ drafts' = [i \in IndexVersion |->
                  IF i \in saw[j].bare THEN drafts[i] + 1 ELSE drafts[i]]
  /\ refs' = [i \in IndexVersion |-> IF i \in new THEN "draft" ELSE refs[i]]
  /\ shown' = [i \in IndexVersion |->
                 IF i \in new THEN saw[j].audience ELSE shown[i]]
  /\ status' = [i \in IndexVersion |->
                  IF i \in saw[j].ivs /\ status[i] = "draft" /\ refs'[i] = "draft"
                  THEN "ready" ELSE status[i]]
  /\ Commit(j, Index)
  /\ UNCHANGED <<document, blocks, hash, point>>

---------------------------------------------------------------------------
(* Publish: switch the document to its ready index versions, in order.     *)

(* load_ready_index_versions: built for the current permission snapshot.   *)
PublishRead(j) ==
  LET L == {i \in IndexVersion : status[i] = "ready" /\ hash[i] = policy} IN
  /\ Builds(j)
  /\ At(j, Publish, "idle")
  /\ L # {}
  /\ Go(j, "publishing", [Nothing EXCEPT !.ivs = L])
  /\ UNCHANGED <<document, blocks, indexes>>

(* validate_publish_preflight *)
Preflight(i) ==
  /\ status[i] = "ready"
  /\ chunk \in {"draft", "active"}
  /\ refs[i] = "draft"
  /\ drafts[i] = 1

IsOldest(i, L) == i \in L /\ \A k \in L : i <= k
IsNewest(i, L) == i \in L /\ \A k \in L : k <= i

Activated(I) == [i \in IndexVersion |->
                   IF i \in I /\ point[i] # "none" THEN "active" ELSE point[i]]

(* The points of the first one become visible before the database commits. *)
PublishWrite(j) ==
  /\ At(j, Publish, "publishing")
  /\ \E i \in saw[j].ivs : /\ IsOldest(i, saw[j].ivs)
                            /\ Preflight(i)
                            /\ point' = Activated({i})
  /\ Go(j, "activated", saw[j])
  /\ UNCHANGED <<document, blocks, status, hash, refs, drafts, shown>>

(* One after the other archives the active index version and takes its     *)
(* place, if it is still ready: what the newest leaves.                    *)
Switched(i, L) ==
  CASE IsNewest(i, L) /\ status[i] = "ready" -> "active"
    [] ~IsNewest(i, L) /\ status[i] = "active" -> "pending_delete"
    [] ~IsNewest(i, L) /\ i \in L /\ status[i] = "ready" -> "pending_delete"
    [] OTHER -> status[i]

(* The document is activated whatever became of it since the read.         *)
PublishCommit(j) ==
  LET L == saw[j].ivs
      later == {i \in L : ~IsOldest(i, L)} IN
  /\ At(j, Publish, "activated")
  /\ \A i \in later : Preflight(i)
  /\ status' = [i \in IndexVersion |-> Switched(i, L)]
  /\ version' = IF version = "chunked" THEN "active" ELSE version
  /\ life' = "active"
  /\ idx' = "indexed"
  /\ chunk' = IF chunk = "draft" THEN "active" ELSE chunk
  /\ refs' = [i \in IndexVersion |->
                IF i \in L /\ refs[i] = "draft" THEN "active" ELSE refs[i]]
  /\ drafts' = [i \in IndexVersion |-> IF i \in L THEN 0 ELSE drafts[i]]
  /\ point' = Activated(later)
  /\ Commit(j, Publish)
  /\ UNCHANGED <<gone, audience, policy, blocks, hash, shown>>

---------------------------------------------------------------------------
(* Cleanup of replaced index versions.                                     *)

CleanupStage(j) ==
  LET P == {i \in IndexVersion : status[i] = "pending_delete" /\ refs[i] # "deleted"}
  IN
  /\ jobType[j] # "permission_refresh"
  /\ status' = [i \in IndexVersion |-> IF i \in P THEN "archived" ELSE status[i]]
  /\ refs' = [i \in IndexVersion |-> IF i \in P THEN "deleted" ELSE refs[i]]
  /\ drafts' = [i \in IndexVersion |-> IF i \in P THEN 0 ELSE drafts[i]]
  /\ point' = [i \in IndexVersion |-> IF i \in P THEN "none" ELSE point[i]]
  /\ Commit(j, Cleanup)
  /\ UNCHANGED <<document, blocks, hash, shown>>

---------------------------------------------------------------------------
(* Permission refresh.                                                     *)

(* load_permission_refresh_targets *)
RefreshTargets ==
  {i \in IndexVersion : /\ ~gone /\ life # "deleted" /\ chunk = "active"
                        /\ status[i] = "active" /\ refs[i] = "active"}

RefreshRead(j) ==
  /\ jobType[j] = "permission_refresh"
  /\ At(j, Index, "idle")
  /\ Go(j, "refreshing", [Nothing EXCEPT
                      !.ivs = RefreshTargets, !.audience = audience,
                      !.searchable = life = "active" /\ idx = "indexed"])
  /\ UNCHANGED <<document, blocks, indexes>>

(* The blocks left by release_permission_tightened_blocks, which does not  *)
(* ask what change made them.                                              *)
BlocksLeft(j) == 0

(* The payloads are written by identifier, without a look at the state; the*)
(* points take the lifecycle and index status that were read.              *)
RefreshCommit(j) ==
  LET T == saw[j].ivs IN
  /\ At(j, Index, "refreshing")
  /\ shown' = [i \in IndexVersion |-> IF i \in T THEN saw[j].audience ELSE shown[i]]
  /\ refs' = [i \in IndexVersion |-> IF i \in T THEN "active" ELSE refs[i]]
  /\ point' = [i \in IndexVersion |->
                 IF i \in T /\ point[i] # "none"
                 THEN IF saw[j].searchable THEN "active" ELSE "hidden"
                 ELSE point[i]]
  /\ tight' = BlocksLeft(j)
  /\ Commit(j, Index)
  /\ UNCHANGED <<document, barred, status, hash, drafts>>

(* A refresh job has nothing to publish or clean up. *)
RefreshSkips(j) ==
  /\ jobType[j] = "permission_refresh"
  /\ Commit(j, Publish) \/ Commit(j, Cleanup)
  /\ UNCHANGED <<document, blocks, indexes>>

---------------------------------------------------------------------------
(* Administrators.  Only documents that are not deleted are loaded.        *)

Loaded == ~gone /\ life # "deleted"

(* PATCH lifecycle_status. *)
SetLifecycle(l) ==
  /\ Loaded
  /\ l \in {"active", "archived"}
  /\ life' = l
  /\ life' # life
  /\ UNCHANGED <<idx, gone, audience, policy, version, chunk, blocks, indexes,
                 jobs, txs>>

(* document_permission_tightens *)
Tightens(a) == a # "enterprise" /\ a # audience

(* A new permission snapshot, with a hash of its own. *)
NewSnapshot(a) == policy + 1

(* A permission change takes effect at once; its refresh job follows.  The *)
(* owner may change without effect on the audience of an enterprise-wide   *)
(* document.                                                               *)
ChangePermission(j, a) ==
  /\ Loaded
  /\ policy < MaxPolicy
  /\ a # audience \/ a = "enterprise"
  /\ audience' = a
  /\ policy' = NewSnapshot(a)
  /\ tight' = IF Tightens(a) THEN tight + 1 ELSE tight
  /\ Enqueue(j, "permission_refresh", FirstStage("permission_refresh"))
  /\ UNCHANGED <<life, idx, gone, version, chunk, barred, indexes>>

Rebuild(j) ==
  /\ Loaded
  /\ life = "active" /\ version = "active"
  /\ idx' = "indexing"
  /\ Enqueue(j, "index_rebuild", FirstStage("index_rebuild"))
  /\ UNCHANGED <<life, gone, audience, policy, version, chunk, blocks, indexes>>

Delete(j) ==
  /\ Loaded
  /\ barred' = TRUE
  /\ life' = "deleted" /\ idx' = "blocked" /\ gone' = TRUE
  /\ Enqueue(j, "index_delete", FirstStage("index_delete"))
  /\ UNCHANGED <<audience, policy, version, chunk, tight, indexes>>

(* Every job is absent or settled. *)
Rest == (\A j \in Job : phase[j] # "live") /\ UNCHANGED vars

---------------------------------------------------------------------------
StageStep(j) ==
  \/ ValidateStage(j)
  \/ ParseStage(j)
  \/ CleanStage(j)
  \/ ChunkStage(j)
  \/ EmbedKeeps(j)
  \/ EmbedRead(j)
  \/ \E i \in IndexVersion : EmbedCommit(j, i)
  \/ IndexRead(j)
  \/ IndexWrite(j)
  \/ IndexCommit(j)
  \/ PublishRead(j)
  \/ PublishWrite(j)
  \/ PublishCommit(j)
  \/ CleanupStage(j)
  \/ RefreshRead(j)
  \/ RefreshCommit(j)
  \/ RefreshSkips(j)

AdminStep(j) ==
  \/ \E a \in Audience : ChangePermission(j, a)
  \/ Rebuild(j)
  \/ Delete(j)
  \/ \E i \in Job : RetryJob(i, j)

Next ==
  \/ \E j \in Job : StageStep(j) \/ Abort(j) \/ Stop(j) \/ AdminStep(j)
  \/ \E l \in {"active", "archived"} : SetLifecycle(l)
  \/ Rest

Spec == Init /\ [][Next]_vars

---------------------------------------------------------------------------
(* Properties.                                                             *)

(* What queries use is whole, however publishes, rebuilds, refreshes and   *)
(* roll-backs of several jobs interleave: one index version at most is     *)
(* active, and then its references, its chunks and the document version    *)
(* are active, while those of a draft or ready one are not.                *)
Coherent ==
  /\ \A i, k \in IndexVersion : status[i] = "active" /\ status[k] = "active" => i = k
  /\ \A i \in IndexVersion :
       /\ status[i] = "active" =>
            refs[i] = "active" /\ chunk = "active" /\ version = "active"
       /\ status[i] \in Draft => refs[i] \in {"none", "draft"}

(* An index version that was replaced never serves again, and none is made *)
(* active except a ready one.                                              *)
NoRevival ==
  [][\A i \in IndexVersion :
       /\ status[i] \in Past => status'[i] \in Past
       /\ status[i] # "active" /\ status'[i] = "active" => status[i] = "ready"]_vars

(* The permission snapshot an index version was built for vouches for its  *)
(* payload: while it is the document's, the entries show the document's    *)
(* audience, whatever changes and refreshes ran meanwhile.                 *)
HashVouches ==
  \A i \in IndexVersion :
    status[i] \in {"ready", "active"} /\ hash[i] = policy => shown[i] = audience

(* The refresh that follows a change begins with the index stage; a retry  *)
(* of one begins with validate, where it always fails.                     *)
Uncommitted(j) ==
  jobType[j] = "permission_refresh" /\ begin[j] = Index /\ effects[j][Index] = 0

(* The refreshes still to commit, each of which releases every block ...   *)
Unrefreshed == {j \in Job : phase[j] = "live" /\ Uncommitted(j)}

(* ... and those that failed or were cancelled first, and release none.    *)
Stranded == {j \in Job : phase[j] \in {"failed", "cancelled"} /\ Uncommitted(j)}

(* A block that a tightening put on the document has a live refresh job    *)
(* that will release it, except for one block at most per stranded refresh.*)
(* While no refresh is stranded, no block is.                              *)
BlocksHaveJobs == tight <= Cardinality(Unrefreshed) + Cardinality(Stranded)

(* The keyword leg of a query, which does not look at deleted_at. *)
KeywordHit ==
  /\ life = "active" /\ idx = "indexed" /\ chunk = "active"
  /\ tight = 0 /\ ~barred
  /\ \E i \in IndexVersion : status[i] = "active" /\ refs[i] = "active"

(* A deleted document is never found, not even when a job that was already *)
(* publishing it activates it again.                                       *)
DeletedNeverHit == gone => ~KeywordHit

(* What the documentation says and the code does not do.                   *)

(* A deleted document stays deleted. *)
DeletedForGood == [][life = "deleted" => life' = "deleted"]_vars
=============================================================================
