# Little Bear: formal models

TLA+ models of Little Bear, a self-hosted knowledge base with permission-aware
retrieval: modules that follow the source, TLC configurations that check them
on small instances, and TLAPS proofs of what matters most for all instances.

How to run (inside this directory):

    tlc -workers 2 -config jobs_safety.cfg MCImportJobs
    tlapm ImportJobsProofs.tla

`PROJECT.json` lists the runs, the definitions with the source lines they
stand for, the hazards of the code with the properties that watch them, the
faulty variants that show each property can fail, and the theorems.

## 1. The system

Python services over one PostgreSQL database (READ COMMITTED; a request or a
worker step is one session, committed on exit and rolled back on an exception,
`src/apps/api/app/db/session.py`), the vector store Qdrant, an object store,
and HTTP model services; two browser clients. The API's handlers are `async`
functions that call the database without awaiting, so one API process handles
one request at a time; requests interleave because the API is replicated
(`src/docs/operations/生产部署拓扑说明.md`) and because workers run beside it.

| component | state | operations | talks to |
|---|---|---|---|
| Import jobs and workers | `import_jobs` (type, stage, status, lock, lease, attempts, back-off) | submit, retry, cancel; claim, stage, succeed, cancel at a boundary, report a failure | API and N worker processes over the row; stages below |
| Stage effects | `documents`, `document_versions`, `chunks`, `index_versions`, `keyword_index_entries`, `chunk_index_refs`, Qdrant points | validate, parse, clean, chunk, embed, index, publish, cleanup | run by workers in the job's transaction; Qdrant outside it |
| Permission refresh and access blocks | `permission_snapshots`, `resource_policies`, `access_blocks`, audience columns of entries and points | change a permission, refresh payloads, release blocks | administrators enqueue a job; changes what queries see |
| Folders and knowledge bases | `knowledge_bases`, their access rules, `folders` | create, patch, move, delete, replace rights, import into | blocks and refresh jobs for their documents |
| Document administration | `documents`, `access_blocks`, jobs | patch, move, archive, delete, rebuild | enqueues jobs |
| Query permission filter and candidate gate | none (reads) | read departments and scope, search, gate, load chunks | entries, points, blocks, rows |
| Knowledge browsing | none (reads) | list and get bases, folders, documents, versions, chunks, sources | rows, active index versions |
| Users, roles, departments | `users`, `user_department_memberships`, `role_bindings`, `departments`, the permission version | create, lock, disable, delete, bind, replace | decides who is an administrator and who may read |
| Login sessions and tokens | `jwt_tokens`, `user_credentials` | login, refresh, logout, change password | web clients |
| First-time setup | `setup_tokens`, `system_state` | issue a token, initialize, recover | start-up of several processes |
| Configuration and its caches | `config_versions`, `system_configs`; a snapshot and the authentication settings in each process | save a draft, edit, publish, archive; load, drop | every service, through the cache; secrets |
| Query rewriting | none | split a question, merge, fall back | a model |
| Retrieval, ranking, context | none (pure) | fuse, gate, rerank, expand, fit a budget, validate citations | query |
| Query, conversations, streams | `query_conversations`, `query_messages`, three log tables | ask, stream, finish, fail, delete | retrieval, models, clients |
| Web client | the screen, the running stream | ask, hear, cancel, reload, select, delete | API |
| Administration client, model and storage adapters, log readers, health reports, tools | presentation, external calls, read-only reports | | |

What is hard in each, and what makes it right:

* **Jobs.** Workers take over jobs whose lease ran out while the first worker
  may still be in the stage; worker ids may coincide; failures are reported in
  a second transaction; cancels race with all of it. Right: each stage takes
  effect once and in order, one runner at a time, nothing takes effect after a
  cancel, late reports hit only what failed, jobs settle, attempts are
  accounted for.
* **Stage effects.** Several jobs may work on one document; a stage reads,
  writes to Qdrant, and commits at three different moments. Right: what
  queries use is whole and unique, what was replaced stays replaced; the chunks
  hold the whole text once, and cite where it stands.
* **Permissions.** A change takes effect on the document at once and on its
  index entries later; a block covers the gap. Right: entries never vouch for
  an audience they were not built for; no tightening is left uncovered or a
  block left without a job; policies say what the rows say.
* **Containers.** Requests check what they read without a lock and write later.
  Right: defaults fit the rights of their base, paths are the tree.
* **Access.** A question or a look around is a series of statements beside all
  of this. Right: what is cited or shown could be read.
* **Document administration.** Deletion and archiving race with jobs in
  flight. Right: what is deleted is not found.
* **Directory.** The check that an administrator remains and the change it
  guards are separate statements. Right: requests one after another leave one;
  every loss of a right raises the permission version.
* **Sessions.** Refresh races with a password change; counters are written in
  transactions that roll back. Right: a refresh token works once, a revocation
  covers what was issued.
* **Setup and configuration.** Several processes start, initialize, recover,
  edit or publish at once, and each keeps what it loaded. Right: setup is
  completed by spending the one live token, one version is active and readable,
  an old one is served for a bounded time.
* **Ranking.** Limits shared by sub-questions, failures of a reranker for one of
  them, budgets that bind together. Right: no sub-question is starved, the
  prompt fits, what is shown rests on chunks that passed the gate.
* **Streams.** Clients leave in the middle, the provider cuts text anywhere, the
  answer is three transactions. Right: shown, stored and logged agree; every
  question settles.

## 2. Modules

    ImportStages          the stages and types of jobs
      ImportJobs          job rows, workers, API commands   <- MCImportJobs, ImportJobsProofs
      IndexLifecycle      what the stages write             <- MCIndexLifecycle, PipelineProofs
    JobLifecycle          what a job promises (abstract): ImportJobs implements it,
                          IndexLifecycle takes its jobs from it
    Chunking              from text to chunks               <- MCChunking, PipelineProofs
    Containers            bases, folders, documents, rights
      QueryAccess         + one question
        KnowledgeBrowsing + one look around                 <- MCQueryAccess, KnowledgeBrowsingProofs
    Directory             users, departments, roles         <- MCDirectory, DirectoryProofs
    Sessions              the login sessions of one user    <- MCSessions, SessionsProofs
    Configuration         setup, recovery, config versions  <- MCConfiguration, ConfigurationProofs
    RuntimeConfig         what processes keep of it         <- MCRuntimeConfig, ConfigurationProofs
    Lists                 parts, places and sums of lists (operators); ListProofs:
                          lemmas about them, for PipelineProofs and QueryProofs
    CandidateRanking      fusion, quota, reranking, gates (operators)
    ContextBudget         selection and budgets of the prompt (operators)
      QueryRanking        one question with both            <- MCQueryRanking, QueryProofs
    AnswerFilters         what is removed from a model's text (operators)
      QueryStreams        both routes, conversations, browser <- MCQueryStreams, QueryProofs

`JobLifecycle` is the joint between the two: `ImportJobs` is shown to implement
it (run `jobs_safety`, theorem `JobsImplementContract`), and the jobs of
`IndexLifecycle` are shown to do only what it allows (`ContractKept`). So
`IndexLifecycle` does not need workers, leases or attempts: by the contract, a
job is live or settled, and performs the effects of its stages once each, in
order, from one runner at a time.

### ImportJobs

One record per job row (`status`, `stage`, `lockedBy`, `lease`, `backoff`,
`attempts`, ...) and per worker process (`pc`, `held`, `loaded`, `renewed`,
`retryable`). A step is a transaction, or the part of one between two waits:

| action | code |
|---|---|
| `Submit`, `RetryJob` | the inserts of the API, first stage by type |
| `CancelRead`, then `CancelWaiting` or `CancelRunning` | `request_cancel`: a status read without a lock, then one of two updates |
| `Claim` | `claim_next_job`, FOR UPDATE SKIP LOCKED |
| `BeginStage` ... `CommitStage` / `Succeed` / `CancelAtBoundary` / `StageFails` | one stage transaction: heartbeat, load, effect, next stage. The row lock is held in between (`RowLocked`) |
| `MarkLoad`, then `MarkWrite` / `MarkRefused` / `MarkLost` | the failure report, a transaction of its own |
| `Abandon` | the worker crashes or is stopped, at any point |
| `Tick` | time: leases and back-offs run out |

The effect of a stage is a count (`done[j][s]`). Remaining times stand for
instants. `takeovers[j]` is history: the claims that found the job running, with
a lease that had run out. `attempts` saturates at `AttemptCap`, above
`max_attempts`, and `takeovers` at the difference, as only comparisons matter.

### IndexLifecycle

One document with its one version (the code never makes a second one), any
number of jobs, index versions, permission changes. A stage is split where
another transaction can come in between: `EmbedRead`/`EmbedCommit`,
`IndexRead`/`IndexWrite`/`IndexCommit`, `PublishRead`/`PublishWrite`/
`PublishCommit`, `RefreshRead`/`RefreshCommit`. `saw[j]` is what the open
transaction of job `j` has read. `*Write` is the Qdrant call, seen at once and
not undone by `Abort`. Stages of one statement per row are one step.

| variable | code |
|---|---|
| `life`, `idx`, `gone`, `audience`, `policy` | `documents`: lifecycle_status, index_status, deleted_at, owner department and visibility, permission snapshot |
| `version`, `chunk` | status of the document version and of the chunks |
| `tight`, `barred` | number of active `permission_tightened` blocks; an active `deleted` block |
| `status`, `hash` | `index_versions`: status, permission_snapshot_hash |
| `refs`, `drafts`, `shown`, `point` | `chunk_index_refs` and keyword entries: visibility_state; draft entries per chunk; audience in the payload; Qdrant points |

Abstractions:

* All chunks of an index version are written by the same statements, so one
  value stands for all.
* What a stage writes after its last call outside is one step, at its commit.
  Interleavings this leaves out end in a violated unique index (one active
  index version per document, one reference per chunk and index version), an
  exception and a roll-back: that is `Abort`.
* Between the first and the last INSERT of two index stages the code may see
  no reference (`NOT EXISTS`) for any subset of the rows: `IndexWrite` chooses it.
* Administrators' commands are one step each: a row they loaded is not changed
  before they commit. A rebuild that races with a deletion inside these
  commands is not covered.
* Cleanup is one step; `created_at` order is the order of insertion.
* A snapshot's hash is its `policy_version`: every change makes a new one, and
  the hash is over a payload that contains the version.
* `Stop` is a job that fails or is cancelled; which one makes no difference here.

### Sessions

One user, its password (as the number of changes so far) and its rows in
`jwt_tokens`, which are written in pairs. `req[a]` is the request that the API
process `a` handles; `pc` is where it stands between two points at which
another process can come in.

| action | code |
|---|---|
| `LoginVerify`, `LoginLoad`, `LoginCommit` | `create_session`: verify, load the account, write |
| `RefreshLock`, `RefreshLoad`, `RefreshCommit` | `refresh_session`: `FOR UPDATE` on the old row, load the account, insert a pair and mark the old row used |
| `LogoutLock`, `LogoutCommit` | `revoke_current_session` |
| `ChangeAuthenticate`, `ChangeLock`, `RevokeStart`, `PasswordCommit` | `change_current_password` |
| `AdminLock`, `RevokeStart`, then `PasswordCommit` or `RemovalCommit` | `reset_user_password`, `patch_user` (disabled), `delete_user`, with `_revoke_user_tokens` |
| `SetStatus`, `UnlockUser` | `patch_user` (active, locked), `unlock_user` |
| `Abort` | rejected, failed or crashed: rolled back |

`root`, `late` and `ended` are history for the properties: the password that a
session goes back to, the sessions whose request overlapped a password change,
the rows that a committed logout or revocation covers.

Abstractions:

* A revocation picks its rows when its statement starts and changes them in one
  step once none is locked. The database locks them one after the other; what
  that adds is deadlocks, which it ends with an exception: `Abort`.
* A row past its expiry is one that is not presented any more. The mark
  `expired`, the failed-login count and the lock after too many failures are
  written in a transaction that the rejection rolls back
  (`src/apps/api/app/api/routes/auth.py`), so they are constants.
* Scopes and the password policy only reject: `Abort`.
* A disabling that waits for a concurrent deletion of the same user, changes no
  user row and revokes what is already revoked is left out.

### Configuration

`initialized`, `phase`, `recovery` and `pointer` are the keys `initialized`,
`setup_status`, `recovery_setup_allowed` and `active_config_version` of
`system_state`; `version` and `payload` the status of a version's rows in
`config_versions` and `system_configs`; `token` the rows of `setup_tokens`.
`req[a]` is the request, or the start-up, that the API process `a` is in.

| action | code |
|---|---|
| `BootRead`, `BootProbe`, `IssueStart`, `IssueCommit` | `startup_service.run`: read the state, probe that version in another transaction, open recovery if it is missing, revoke and issue |
| `SetupLock`, `SetupOpen`, then `InitializeCommit`, or `Pick`, `Take`, `RecoverCommit` | `PUT /internal/v1/setup-initialization`: validate the token `FOR UPDATE`, setup must be open, test the services, write |
| `SetupFail`, `RecordFailure` | its exceptions, and the failure's own transaction |
| `PublishLock`, `Pick`, `Take`, `PublishCommit` | `publish_config_version`: lock the version, test, replace the payloads, replace the versions, set the pointer |
| `EditLock`, `EditCommit` | `update_config_version` |
| `SaveDraft`, `Archive` | `save_config_draft`, `create_config_version`, `archive_config_version` |
| `Abort` | rejected, failed, chosen as a deadlock's victim, or crashed: rolled back |
| `Damage` | the active payload is lost by other means; recovery is for this |

`Switch` is what a publish and a recovery have in common. Its two UPDATEs choose
their rows when they start (`Pick`, and `Take` for the second), wait for rows
that others have locked and test the status again once they have them.

Abstractions:

* The setup guard and the first statement of the request behind it are one step.
* `initialized` and `recovery_setup_allowed`, read in two statements, are read
  in one step.
* The statuses `validating` and `failed`, and a token's `expired`, are written
  in transactions that commit another status or roll back
  (`src/apps/api/app/modules/config/publisher.py`: the exception that reports a
  failed validation also takes back the mark), so no other process sees them.
* What a configuration contains, the process caches and the service bootstrap
  are left out. A draft is a copy of the configuration that was active when it
  was saved.

### Containers, QueryAccess, KnowledgeBrowsing

`Containers` has the rows of many knowledge bases, folders and documents with
their policies, blocks and queued refreshes. A request (`req[r]`) is two steps:
the checks, which read and lock nothing, and the writes, by what the checks
have seen.

| action | code |
|---|---|
| `CheckCreateBase`, `CreateBase`, `CheckPatchBase`, `PatchBase`, `CheckDeleteBase`, `DeleteBase` | `knowledge_base_writer.py` |
| `CheckReplaceBase`, `ReplaceBase`, `CheckReplaceDocument`, `ReplaceDocument` | `replace_knowledge_base_permissions`, `replace_document_permissions` (`permissions/admin_service.py`) |
| `CheckImport`, `Import` | the rows that an upload creates (`command_service.py`) |
| `CheckPatchDocument`, `PatchDocument`, `CheckDeleteDocument`, `DeleteDocument` | `admin/document_writer.py` |
| `CheckCreateFolder`, `CreateFolder`, `CheckPatchFolder`, `PatchFolder`, `CheckDeleteFolder`, `DeleteFolder` | `folders_service.py` |
| `Abort` | a clash of policy versions, a row that is gone, a deadlock: rolled back |

`QueryAccess` adds one question: `ReadContext` (departments), `ReadScope` (bases
that may be queried), `ReadIndexVersions` (the identifiers of the index versions
that are active there), `Retrieve` (keyword entries and points of those
versions; the vector leg may bring any point that matches, of a version since
replaced too), `Gate` (the rows as they are now, against the identifiers read),
`BuildContext` (the chunks of the answer); beside it `Reassign` (the user's
departments change) and, in outline, `PublishDocument`, `RebuildDocument` (an
administrator asks for one, which sets `index_status`), `CleanupDocument` and
`RefreshDocument`, which are step by step in `IndexLifecycle`. `index[d]` numbers
the index versions of a document: the active one, up to which they are cleaned
up, and whether the document is being indexed anew. `KnowledgeBrowsing` adds one
read of the other endpoints: `PermissionContext`, `ListKnowledgeBases`,
`GetKnowledgeBase`, `LoadDocumentBase` and `EnsureQueryable`, `ListFolders`,
`LoadActiveIndexVersions`, then one `Select` of documents, versions, chunks or a
source under the row filter, which asks for `index_status` and for references,
not cleaned up, in the index versions whose identifiers were read
(`filter_builder.py:137-150`).

Abstractions:

* The writes of a request are one step. Two requests that write the same row
  wait for one another there; where they lock in opposite orders
  (`patch_document` against `delete_document`) the database ends one: `Abort`.
* Access rules name departments; rules of users and roles work the same way.
  A rule allows to discover and to query together, as the administration client
  writes them (`src/apps/admin`, `knowledgePermissionRules.ts`).
* Requests come from a system administrator; the asking user is none, and has no
  scope that would let him query everything.
* Chunks of one document share its rights and its index versions, so documents
  stand for them.
* A document is rebuilt or cleaned up, in outline, while the identifiers of its
  index versions are read and not yet used: before and after, another index
  makes no difference to the reader.
* `stale`, `shifted`, `stood`, `readable` and `reindexed` are history for the
  properties.

### Directory

Users, departments, memberships, role bindings and the permission version. A
request is cut after its checks (`pc = "checked"`) and after the first statement
that picks the rows to end (`Pick`); `Commit` writes. Every request but an
unlock updates the row of the enterprise, those on departments first, the others
last, and holds it from then on (`EnterpriseFree`).

| action | code |
|---|---|
| `CheckCreate`, `CreateUser`, `CheckStatus`, `SetStatus`, `CheckDelete`, `DeleteUser`, `CheckUnlock`, `UnlockUser` | `user_writer.py`, `user_security_service.py` |
| `CheckDepartments`, `ReplaceDepartments` | `user_department_service.py` |
| `CheckGrant`, `CheckReplace`, `CheckRevoke`, `InsertBindings`, `ReplaceBindings`, `RevokeBinding` | `roles_service.py`, `role_binding_writer.py` |
| `CheckNewDepartment`, `CheckPatchDepartment`, `CheckDeleteDepartment` and the writes | `departments_service.py` |

Unique indexes are `NoClash` and `NoSecondBinding`: a violated one is `Abort`.
`raced`, `locked` and `late` are history.

### Chunking

The parsers read lines (or the elements of a Word file) into blocks, the chunker
packs blocks of one section up to `max_chars`, cuts what is longer at sentence
ends and, where a sentence is too long, anywhere. A line is its kind, size and
whether it ends a sentence. One action for each branch of the loops
(`PageMark`, `Fence`, `CodeLine`, `Single`, `Blank`, `TextLine`, `Element`,
`EndOfText`; `SkipBreak`, `TakeHeading`, `TakeAtomic`, `TakeBody`, `ChunkEnd`).
Character offsets, token counts and what the cleaner trims are left out. As in
the code, `overlap_chars` is used nowhere.

### CandidateRanking, ContextBudget, QueryRanking

The two operator modules are the algorithms of `retrieval/service.py`,
`query/orchestrator.py` and `context/service.py`; `QueryRanking` runs one
question through them: `Rewrite`, `Recall`, `Gate`, `RerankAdmitted`, `Filter`,
`Expand`, then `CiteOnly` or `Build` and `Generate`, or `Explain`. What the
models, the two legs and the gate return is drawn from constants. Scores are
integers of a unit in which the fused shares are exact; the code's floats round.
A chunk's text is its length and what its prefixes cost in tokens. Loops over
candidates are functions on the number of turns made (`run` in `Fuse`,
`SelectByRank`, `SelectWithMmr`, `BuildContext`), with one operator for a turn
(`Absorb`, `TakeNext`, `TakeBest`, `Grant`); comprehensions and filters are
sublists (`Lists`).

### AnswerFilters, QueryStreams

`AnswerFilters` has both ways to clean an answer: of the whole text, and chunk by
chunk (`ThinkingFeed`, `SourceFeed`, with what they hold back). `QueryStreams`
has the handlers of `POST /queries` and `POST /query-streams`, the rows they
write and the browser.

| action | code |
|---|---|
| `Ask`, `LoadOwned`, `CreateOwn`, `NotFound`, `InsertMessages` | the request; `conversation_repository.py`, `conversation_messages.py` |
| `PlanFails`, `PlainDenied`, `PlainAnswered` | `query_execute.py`, `execute_query` |
| `PlanReady`, `StreamDenied`, `SendMetadata` | the first transaction of `query_stream.py` |
| `NextChunk`, `EndOfStream`, `ModelFails` | `AnswerStreamRunner` over the provider's chunks, cut in every way |
| `Finalize`, `FinalizeFails`, `MarkFailed`, `SendError`, `SendDone` | the last transaction, or the one that marks the message failed, and the last event |
| `Abandon`, `Crash` | the client is gone; the process dies, and the bodies under way end, as if complete (`cut`) or with an error (`broken`), also behind their last event (`Dropped`) |
| `Hear`, `Cancel`, `Reload`, `Fetch`, `Select`, `Create`, `Delete` | `useQueryStream.ts`, `useConversations.ts` |

What a screen shows is `Shown`, from the events of the stream and from its end:
`streamQuery` returns on any clean end of the body (`api/query.ts:81-90`), and
the browser then says "done" (`useQueryStream.ts:156-157`).
What planning does before the answer is `QueryRanking`; here it succeeds, is
denied or fails. The order in which the browser sorts messages is left out.

### RuntimeConfig

`ConfigCache` (`cache[p]`) and `AuthRuntimeConfigProvider` (`runtime[p]`) of
every process; a request of a thread is `Get`, on a miss `ReadPointer`,
`ReadRow`, `SetCache`, then `AuthRuntime` and `Answer`. `Publish` and `Edit`
drop the caches of their own process before `Commit`; `PutSecret` is the
command-line tool. Versions are in `Configuration`; here one is its number and
the count of its edits. A request ends within `MaxRequest` ticks of time.

## 3. Runs

| run | instance | shows | states, time |
|---|---|---|---|
| `jobs_safety` | 1 job of three stages, 3 workers of which two share a WORKER_ID, slow stages, a crash, cancels | exactly-once stages in order, one runner, cancel honoured, late reports harmless, attempts accounted for, the contract | 793,818 states, about 90 s |
| `jobs_live` | 2 jobs of one stage, 2 workers, a crash | every job settles | 156,406 states, about 30 s |
| `index_safety` | import + 2 jobs, 2 index versions, 2 permission changes | `Coherent`, `NoRevival`, `HashVouches`, `BlocksHaveJobs`, `DeletedNeverHit` | 268,601 states, about 25 s |
| `index_deleted` | 2 jobs | *violation*: a deleted document becomes active, section 6 | seconds |
| `chunking` | every document of up to 5 lines of 10 sorts, 3 formats | `NothingLost`, `CutOnlyWhenLong`, `PlaceCited` | 994,892 states, about 80 s |
| `access` | 2 requests, 2 bases, 3 folders, 2 documents, one reader | `PolicyAgrees`, `DefaultsFit`, `PathsAreAncestors`, `CitedWasReadable`, `FoundIsReadable` | 525,192 states, about 90 s |
| `directory` | 2 requests, 3 users, 2 departments | `AdminKept`, `OrphansAreLate`, `AsDeclared`, `LossVersioned` | 106,390 states, about 50 s |
| `sessions` | 2 processes, 3 sessions, 2 password changes | `RotatedOnce`, `RevocationHolds`, `OldPasswordEnds` | 909,104 states, about 40 s |
| `configuration` | 2 processes, 3 versions, 3 setup tokens | `PointerAgrees`, `Served`, `SetupSpendsToken` | 360,068 states, about 12 s |
| `runtime_config` | 2 threads of one process, another process, 2 changes | `StaleBounded`, `AuthFollows` | 202,432 states, about 12 s |
| `ranking` | 1 question, 2 sub-questions, 4 chunks | `NothingStarved`, `SubQuestionsSurvive`, `PromptWithinLimits`, `AnswersGrounded` | 89,070 states, seconds |
| `query_streams` | 2 questions, 2 conversations, every cut of the text | `ShownIsStored`, `AnswersLogged`, `StreamMatchesAnswer`, `StreamsSettle` | 125,716 states, about 50 s |

What the properties say, in a line or two each:

* `EffectsMatchStage`: the committed effects of a job are those before its
  stage, once each. `StageExclusion`: at most one process is inside a stage of
  a job, and works from the current row. `CancelHonoured`: no effect after a
  cancel, which is what the code does and not all that the documentation asks
  for (section 6, 2): a job that has published does not clean up either.
  `FailureNamesItsStage`: a late report hits only what failed.
  `AttemptsAccounted`: a job is attempted beyond `max_attempts` only as often as
  it was taken over; no failure, late report, shared id or crash adds to that.
  `JobSettles`: a job ends, where no stage outlives its lease.
* `Coherent`: at most one index version is active; its references, chunks and
  document version are active with it; those of drafts are not.
* `NoRevival`: a replaced index version never serves again.
* `HashVouches`: an index version built for the document's present snapshot
  shows the document's present audience. The publish check compares hashes
  only; this is what makes that comparison mean something.
* `BlocksHaveJobs`: no more tightened blocks than live refresh jobs still to
  commit, and those that failed or were cancelled before they did, which do
  leave a block (section 6, 5). As long as there is none of these, every block
  has a job that will release it.
* `DeletedNeverHit`: the keyword leg of a query does not look at `deleted_at`,
  and publish may activate a deleted document, so only the block hides it.
* `NothingLost`: every character that is no heading is in exactly one chunk, in
  order. `CutOnlyWhenLong`: chunks fit, and a block that fits is not cut.
  `PlaceCited`: a chunk names the headings above its text, if no level was
  skipped, and the pages of its lines, if no page mark is inside a code block.
* `PolicyAgrees`: the active policy of a base or document says what its row
  says. The exception (`stale`) is real: a patch writes back a column that it
  read before another request changed it.
* `DefaultsFit`: what is imported with the defaults of its base can be read by
  somebody who may query the base; again but for overlapping patches.
* `PathsAreAncestors`: paths are the paths of the tree, until a folder with
  others below it is moved: the code does not rewrite what is below it.
* `CitedWasReadable`: what is cited could be read when the gate looked, as long
  as the departments and scope that the question had read still held.
  `FoundIsReadable`: browsing shows only what may be read at that moment, and
  all of it that was published before, but for a document that is being indexed
  anew or was since its index version was read (section 6, 4).
* `AdminKept`: requests one after another leave an active administrator, unless
  one is locked by hand. `OrphansAreLate`: rows of somebody deleted, or of a
  department that is closed, come only from requests that overlapped.
  `AsDeclared`: after a replacement there are the declared rows and no other.
  `LossVersioned`: a step that takes a right away raises the permission version.
* `RotatedOnce`: a refresh token is exchanged once, also when several requests
  present it at the same time.
* `RevocationHolds`: what a logout or a revocation covers is never active
  again. It covers the rows that exist when its statement starts.
* `OldPasswordEnds`: after a password change, a session obtained with an earlier
  password can only be refreshed if its own request, or one it was refreshed
  from, overlapped the change. The exception is real: a refresh that holds the
  row the revocation waits for commits a pair that the statement does not
  see, and a login that has compared the password commits after it.
* `PointerAgrees`: a version is active if and only if the pointer of an
  initialized system names it. `Served`: its payload is active with it. Two
  statements replace the old rows and each sees what was committed when it
  started, so this rests on the unique index over the active version.
* `SetupSpendsToken`: the system becomes initialized, or leaves recovery, in
  exactly the steps that turn the live token into a used one.
* `StaleBounded`: no request works with a version that was replaced longer ago
  than the life of a snapshot and two requests. `AuthFollows`: once the
  configuration is left alone, all processes authenticate with the version that
  is active, whoever published, edited, restarted or loaded an older one last.
  It says nothing of the key and the payload under one version number: those
  stay as cached (section 6, 13).
* `NothingStarved`, `SubQuestionsSurvive`: every sub-question that found
  something keeps its share up to the gate, and a candidate that passes the
  thresholds up to the answer, whatever the reranker does.
  `PromptWithinLimits`: all limits of the prompt hold together.
  `AnswersGrounded`: neighbours are gated, references outside the prompt are
  not shown, nor is the text that has them, unless a malformed reference stands
  beside them (section 6, 24); a text of nothing but references is explained.
* `ShownIsStored`: what the browser shows as complete is the committed message,
  unless its process died under the stream, and an error that the service told
  hides no stored answer; a connection that breaks does (section 6, 23).
  `AnswersLogged`: answer and log exist together or not at all.
  `StreamMatchesAnswer`: what was read while it arrived is what was stored.
  `StreamsSettle`: an answer under way ends, and a browser that listens hears
  the end; except where the browser left, the process died or marking the
  failure failed too.

**Why the bounds are enough.** Jobs of `ImportJobs` share nothing but workers
and time (`AttemptCap` leaves room for no takeover, one, and more): one job with
three workers has every race for its row (two claims after an expired lease,
plus a reporter), and two jobs add the choice a claim makes. In
`IndexLifecycle`, the import and two more jobs give every pair of stages that
can overlap on a document that was published before; two index versions give a
replaced and a replacing one; two permission changes give a change after a
change. Four jobs exceed TLC's reach. In `Sessions`, requests meet in pairs over
a row or a row set; three sessions give a login, its refresh and one beside
them, and two password changes a session that goes back two. In `Configuration`,
two requests over three versions are the active one and two that replace it;
three tokens are one spent on initialization, one on a recovery and one issued
beside it. Three processes (with two tokens), and four versions, were checked
once by hand: 3,298,907 and 8,478,769 states. In `Containers` and `Directory`
requests meet in pairs over what one has read and the other writes; a folder,
its child and one beside it give every sort of move; a third request only adds
another pair. The reader sees two documents, one of which is imported meanwhile.
`MaxIndexes` is two for one of them, an index version and the one that replaces
it, and one for the other. `access` stops (`Unfinished`) once the reader has its
result, which nothing changes afterwards, keeps folders as they are while
documents are read (`FoldersRest`), rebuilds the first document only, and gives
the reader one department at a time (the proofs make none of these cuts). Five
lines have every neighbour of a line on both sides, a heading and a page mark,
and lengths are chosen around `max_chars`. Four chunks of two documents make
every limit of the prompt bind. In `query_streams` two questions are enough for
one conversation to be shared, and the text has a think block, a reference and a
word, cut anywhere; one turn of the browser or the platform besides asking
(`MaxTurns`) comes between any two steps. In `runtime_config` two threads give a
load that another one overtakes. Where proofs exist they have no bounds.

**Fairness.** `jobs_live`: weak fairness of each worker's steps (the worker loop
runs), of the two updates of a cancel that has read its row, and of time.
`JobSettles` is checked where a stage ends within its lease; without that it
does not hold (section 6, 1). `query_streams`: of the handler of a request that
is being handled and of the browser that reads what arrived. `runtime_config`:
requests keep coming and are worked on, a change that began commits or aborts,
time passes. None for users, administrators and faults. `IndexLifecycle`,
`Containers` and `Directory` state no liveness: the code promises none there.

**Deadlock** is checked in `jobs_safety`, `jobs_live`, `index_safety`,
`configuration` and `runtime_config`. The other systems really stop: a deleted
user's account has no step left (`sessions`), a document is in chunks, a
question answered, every request of the instance handled. In `ImportJobs` and
`IndexLifecycle`, `Rest` is the only step of a system in which every job is
settled.

## 4. Faulty variants

Beside each definition that a plausible bug would change, a module defines the
bug under the definition's name with a suffix (`Switched_NoReadyGuard`,
`Owns_AnyWorker`, ...). Put in its place, TLC finds the property named for it
in `PROJECT.json` violated in the same configuration.

## 5. What is proved

For every number of jobs, workers, index versions, departments, users, roles,
processes, resources, requests, conversations and changes, every text a model
may produce, and every value of the time bounds. The assumptions are named in
the modules: `BoundsAssumption`, `WorkerAssumption`, `TypesAssumption`,
`SizesAssumption`, `DepartmentAssumption`, `SessionsAssumption`,
`ConfigurationAssumption`, `RuntimeAssumption`, `IndexAssumption`: numbers are
naturals; `NoSession` is no session and `NoToken` no token; `max_attempts`, the
lease, the versions, the life of a snapshot and the jobs of `IndexLifecycle` are
positive; the job types are those of the code; no department is called
"enterprise". `ContainerAssumption` and `EditAssumption`: resources are of one
kind, belong to a base that exists, paths at the start are those of a tree, and
requests ask for values that the columns can have. `DirectoryAssumption`: there
are finitely many departments, the default one is among them, the first user is
no member of staff. `StreamsAssumption`: the name of a conversation yet to be
created is that of none, the ways are those of the API. `ScriptsAssumption`: a
model speaks in sequences of words, and none of its answers is the refusal that
the service words itself, by which the model tells the two apart.
`RankingAssumption`, `ContextAssumption`, `QuestionAssumption`: thresholds and
weights are naturals, limits of a prompt positive, `MaxTokens = 0` is no limit,
and what the models and the legs return has the types of its columns. Nothing is
assumed of how the reranker orders, of positions in its reply, of similarities,
of weights or scores, or of what a gate lets pass.

`ImportJobsProofs`: `TypeCorrect`, `OneRunner`, `ExactlyOnce`,
`NoEffectAfterCancel`, `LockedWhileRunning`, `LateReportsHarmless`. The
inductive invariant `IndInv` is typing (`Typed`: a worker that is not polling
holds a job), the row lock (`RunnerInv`: two workers are never in a stage of one
job, the one that is owns it, works from the row as it is, and no cancel of that
job is committed), and progress (`ProgressInv`: the effects are those before the
stage, a row that does not exist has none, a live job has a stage left).
`EffectsMatchStage` alone is not inductive: a worker in a stage commits the
stage number it loaded, and only `RunnerInv` says that this is still the row's;
`CancelHonoured` needs its last part. `FailureNamesItsStage` speaks only of
workers whose id no other has, and needs `ReportInv` besides; the default id
`worker-<pid>` does not guarantee unique ids across containers.

In the same module, `AttemptsBounded`: a job is attempted beyond `max_attempts`
only as often as it was taken over, for stages of any length, any ids and any
faults. `AttemptsAccounted` alone is not inductive: a worker that read the
attempts for its failure report sends the job back to wait by what it read,
perhaps after others have raised them. `Account` keeps the books of a job: the
workers that hold it are no more than those that took it over, and one more
while it runs; and once the attempts have reached the maximum, the attempts, the
holders that saw attempts left and are about to report (`Senders`) and the claim
that a waiting job invites are together within `max_attempts + takeovers`. A
takeover pays for the attempt it makes, a report for the claim that follows it.

And `JobsImplementContract`: every step of the rows and workers maps to one step
of `JobLifecycle` or a stutter, under `phase <- Phase, effects <- done,
begin <- first`. Besides `IndInv` it needs that a cancel is only pending for a
job that exists (`PendingExists`).

`PipelineProofs`, index versions:

| theorem | argument |
|---|---|
| `IndexTypeCorrect` | each action keeps the types |
| `IndexCoherent` | `Whole`: references follow the status of their index version (`RefsFollowStatus`), index versions are made from chunks that stay (`BuiltFirst`), and what an open transaction has read still exists, or was active when a refresh read it (`SawExists`). `Coherent` alone is not inductive: a refresh writes references by identifiers it read earlier, and only `SawExists` says that those were active and can since only have been replaced |
| `NothingRevived` | `StatusSteps`: all the ways a status can change in one step |
| `HashesVouch` | hashes are never ahead of the document's snapshot (`HashesPast`), so a change leaves every index version behind; what an open transaction will write is right for index versions with the present hash (`ReadVouches`) |
| `NoBlockOrphaned` | `Owing`, the live refreshes still to commit and those that failed or were cancelled before: each step leaves the blocks and at least the same of these, adds one of each, or releases all blocks; by cardinalities |
| `DeletedIsHidden` | nothing lifts the block of a deletion |
| `ContractKept` | every step is a step of `JobLifecycle` or leaves its variables alone |

The strengthened invariants were checked by TLC on the instance of
`index_safety` before they were proved.

In the same module, chunking: `TextKept`, `TextCut`, `PlacesCited`, for texts of
any length, of any kinds and sizes of lines, and every positive `max_chars`.
`ChunkingInv` follows the phases. While the text is read, `Ledger`: each line
that is not blank is in exactly one of the blocks, the open paragraph and the
open code block, and blocks know their page. Afterwards that says of the blocks
what the chunker relies on (`Ready`), and `Chunked` holds before each block:

| part | says |
|---|---|
| `PathIs` | if no level was skipped, the path is the headings above the next block, each a level below the last |
| `Waiting` | the blocks that wait are all body blocks since the first of them, under this path, and fit together if they are several |
| `Met` | the headings met so far, in order |
| `Packed` | every character of the other body blocks so far is in exactly one chunk; the chunks are in order, fit, and cite what they should (`Fine`) |

At the end `Settled` says so of what `Remaining` returned, for a document of
headings or page marks alone too. `NothingLost` alone is not inductive, as it
only speaks of the end. The other half is what `Emit` makes of a list of blocks
(`EmitIs`), a lemma about operators: the places of lines fill the text
(`PiecesAre`), sentences and windows leave out nothing but what is between
pieces (`SentencesAre`, `WindowsAre`), and each turn of the loop that gathers
sentences keeps that (`AddSentenceIs`, `SplitIs`).

`SessionsProofs`: `SessionsTypeCorrect`, `RefreshOnce`, `TokensFinal`,
`RevocationsHold`, `OldPasswordsEnd`. All rest on `Base`: rows come in pairs,
requests name sessions, and a refresh has its row to itself and the row stays
active meanwhile. `RevocationHolds` needs
in addition that a row which a running revocation must end is among those it
picked or is active no more (`Owed`). `OldPasswordEnds` needs that a request
which compared an earlier password, or whose session goes back to one, is marked
late, and that a running change has picked every row whose session is not
(`Fresh`).

`ConfigurationProofs`: `ConfigurationTypeCorrect`, `OneActiveVersion`,
`ActiveIsServed`, `TokenCompletesSetup`, `ArchivedForGood`. The invariant adds
to `PointerAgrees` what a request knows of the rows it has locked
(`RequestOK`: a publish's version is a draft or inactive, an edit's has the
status that it will write back, a setup request's token is live, a recovery's
system is still in recovery) and that no two requests write one version or hold
the token (`Apart`). Without it, an edit could write `active` back over a
version that was replaced. That no other version stays active is the work of the
unique index (`Alone`), whatever the two statements picked.

`KnowledgeBrowsingProofs`: `ContainersTypeCorrect`, `PoliciesAgree`, `DefaultsStayFit`,
`PathsTell`, theorems of `BrowseSpec`, so that workers and readers are there
too. A request writes by what its checks have seen, so the invariant says what
every request knows of that (`Requested`): among the rest, the defaults that it
wants fit the rights that it wants, or has seen, which is all `DefaultsFit` needs
where no patch wrote back a stale column. `PolicyAgrees` holds pair by pair
(`BaseSays`, `DocSays`): a write renews the policy by the row that it writes, or
leaves what the policy speaks of. `PathsAreAncestors` needs `Tree`: two requests
never create one folder, a folder that is being created is there for nobody
else, and the parent of a folder, or of a planned move, was there before
(`SoundRequest`, `Grown`).

Also there, `OnlyReadableCited`, `ReadableIsFound`. `QueryOK` says that
what the gate let pass could be read when it looked, if departments and scope
stood, and that nothing is cited before; `BrowseOK`, that what a read has found
so far belongs to its base. `IndexOK`: only what was replaced is cleaned up, so
the row filter misses no document whose index version is the one that was read.
The steps of the administration matter only in that
they leave both alone; that rights grow with departments (`VisibleGrows`,
`QueryableGrows`) carries what was read earlier to the moment of the gate.

In the same module, `StalenessBounded`, of `RuntimeConfig`. `CacheOK`: what is left of a
snapshot's time and how long ago its version was replaced add up to at most its
life and one request, as the one grows while the other falls. `TaskOK`: a
request that loads has seen its version active since it began, and one that
found a snapshot has an old one that grew older since. No fairness is needed.

`DirectoryProofs`: `DirectoryTypeCorrect`, `AnAdminRemains`, `OrphansComeLate`,
`ReplacedAsDeclared`, `LossesVersioned`, for any users, departments, requests
and bundles of roles.

| theorem | argument |
|---|---|
| `AnAdminRemains` | `Alone`: as long as no two requests overlapped, one is under way at most, and what its check read (`Guarded`: another administrator remains) and what it picked (`Picked`) still hold when it writes. `AdminKept` alone is not inductive: the count and the write are two steps |
| `OrphansComeLate` | `LateInv`: a request whose check is outdated is late already, and a row that the statement of an ending request has not picked was written by a late one, until its commit |
| `ReplacedAsDeclared` | `Held`: a replacement of departments that has picked its rows holds the row of the enterprise, so no membership of that user is added before it commits; for roles nothing is held, and `Alone` takes its place |
| `LossesVersioned` | action by action: the steps that leave the version alone take no right away |

`QueryProofs`, ranking: `NothingIsStarved`, `SubQuestionsAreCovered`,
`PromptsAreWithinLimits`, `AnswersAreGrounded`, for any questions, candidates,
replies, texts and limits. The algorithms are functions over the turns of a loop,
so each needs an induction over numbers. The library's theorem takes a predicate
as its parameter; `Inductive` says the same of a set of numbers, and follows from
the well-foundedness of `<` (`WFMin`); each use names its set. From it come
`RunExists` (a function defined turn by turn exists, and keeps what every turn
keeps), `Ranks` (a finite set in a strict order has an n-th element for each n),
and what is known of sublists, joined lists and sums. They are in `ListProofs`,
and the proofs about chunking use them too.

| theorem | argument |
|---|---|
| `NothingIsStarved` | `FuseOrders`: an entry per chunk, each chunk that was found has one, and the places are a permutation by falling scores. `PrioritizeQuotaKeeps`: the rounds put the first candidates of every sub-question before the rest. `QuotaKept`: the rounds fit before the place where the gate stops, by arithmetic on quotas rounded up and shares rounded down (`ShareIsWithinQuota`) |
| `SubQuestionsAreCovered` | `Survival`: the admitted candidates are distinct, the reranked ones are distinct and among them, until the filter runs. `RerankForQueriesIs`: that is so whatever the reranker answers. `SelectionsCover`: the first of each sub-question goes before the limit, and through both selections and both gates in between |
| `PromptsAreWithinLimits` | `RankingInv`, its part `Prompted`: the prompt is what a selection within the limits is granted, one turn after the other. `SelectionGrows`: adding one that is within the limits keeps them for all, for either order; `GrantAdds`: what is granted is within what is left, so the sums of characters and tokens are |
| `AnswersAreGrounded` | `RankingInv`: at every stage the chunks at hand are among those that passed (`Passing`), and what is said agrees with what may be cited (`Answered`) |

`RankingInv` also types the candidates and queries, as the code does by its
classes, and says that there is a query once the question is rewritten
(`Searched`), so that there is one to cover.

In the same module, streams: `AnswersAreLogged`, `ShownAnswersStored`, for any
requests, conversations, texts and ways to cut them. The invariant is a
conjunction for each request. `Agree`: message and logs agree. `Progress`: what
the database and the stream hold at each stage of the handler, among the rest
that what the model has said so far and what it has yet to say is one of its
texts, and that what the last transaction will write agrees. `Told`: each event
that is still on the wire says what is, or will not change any more. `Seen`: so
does the screen, where it shows an end; `Read`, the same for a reload whose
answer is on its way. `ShownIsStored` needs all of them: it is about the screen,
which hears an event long after it was sent, and about a message that a crash,
a failure or another transaction could have changed since. A body that ends
early is one of a stream that died with its process (`Orphan`), the exception
that the property names. There is one lemma
for each step of a handler, which says what it leaves true of its own request,
and one for each action of the browser.

**Only proved:** `LockedWhileRunning`, `TokensFinal`, `ArchivedForGood` and the
type invariants; the instances of section 3 were also checked for them, but no
run is kept.

**Only model-checked:** liveness (`JobSettles`, `StreamsSettle`,
`AuthFollows`), which is out of the prover's reach, and `StreamMatchesAnswer`:
it says what the stream filters have put out for all that they were fed, and the
invariant that would carry that from step to step, over words cut within tags
and references, is not worked out. Nor is it a theorem for every text as it stands:
an opening `<think` that never gets its `>` is cut from the stored text and
shown in the stream (`_ThinkingBlockStreamFilter.flush` is reached with the
words after it already sent), and a reference begun within an open one is held
back from its own beginning only. The texts of the run have neither; a theorem
would have to assume that of the model's answer.
And what is violated.

## 6. Where code and documentation disagree

Against `docs/contracts/状态机设计.md` where nothing else is named. 7 is shown by
the run `index_deleted`; the others follow from the modules, whose actions
allow them, and no run is kept for them. The properties exclude them by name
(history variables such as `raced`, `stale`, `shifted`, `late`, `reindexed`, or
sets such as `Stranded`).

Jobs and index versions:

1. A stage that fails after its lease ran out is not recorded as a failed
   attempt; the job stays running, and a claim that takes it over looks at no
   maximum: a stage that always outlives its lease is attempted for ever.
   `AttemptsAccounted` says that nothing else exceeds the maximum.
2. A cancel that comes when the job has already passed publish, block or delete
   must let the worker finish, and the job must then end as `success` or
   `failed` (line 469). The code looks at `cancel_requested_at` before every
   stage and ends the job as `cancelled` (`worker_service.py:303`), behind
   publish too, so that what the cleanup would have removed stays.
   `CancelHonoured` says what the code does.
3. `request_cancel` decides by a status it read without a lock, so the API can
   write a running job as cancelled (`command_service.py:371`).
4. Asking for a rebuild sets `index_status = indexing` on the active document,
   which takes it out of the search until a publish (`index_ops_service.py:79`),
   and out of browsing, as the row filter asks for `indexed`
   (`filter_builder.py:137`). A publish and the cleanup of the version it replaced,
   after a read has looked up the index versions (`document_reader.py:50`), hide
   the document from that read.
   `FoundIsReadable` says that nothing else is missing.
5. A tightening whose job fails keeps its block, as it must (line 474). But
   nothing makes up for that job: its retry is a new one that starts at
   `validate`, where a refresh fails every time, so the block stays until the
   refresh of a later change releases all of them
   (`permissions/admin_service.py:256`). The same for a refresh that is
   cancelled.
6. A publish makes points visible in Qdrant before it commits, and the index
   stage of another job may write them as drafts afterwards: vector search then
   misses them (`publish_service.py:261`).
7. Publish activates the document by id, a deleted one too. `DeletedNeverHit`
   shows that the block still hides it.
8. A refresh that runs while a publish is in flight finds no active references,
   releases the block, and the publish then activates entries for the old
   audience (`permission_payload_service.py:277`). The candidate gate still
   reads the document's present visibility: `CitedWasReadable`.
9. Two overlapping publishes of the same index versions archive the active one
   and find their own no longer ready: the document is left active and indexed
   without an index (`publish_service.py:338`).
10. Headings without text below them are in no chunk when the document has other
    text; under a skipped level two headings of one level are nested; a page mark
    inside a code block comes before the block. Cut parts get the offset of the
    first occurrence of their text, and 0 when there is none
    (`docs/contracts/database-schema.md:579`).

Setup, configuration, sessions:

11. A process that starts reads the pointer, a publish commits, and the probe of
    the old version finds it inactive: recovery setup is opened on a system whose
    configuration is whole (`startup_service.py:103`).
12. A failed initialization is recorded in a transaction of its own, also after
    another one has succeeded (`initialize_service.py:238`); only the reported
    `setup_status` is wrong.
13. An edit of the active version keeps its number, so the authentication
    settings that a process has cached stay until the version changes or it
    restarts (`auth/runtime.py:50`); the same for a secret replaced under its
    reference. 配置与Secret运行时说明.md:153 says that no secret is cached in plain
    text; this one is.
14. A snapshot loaded across a publish finds its version gone and is answered
    with 503, once.
15. Failed logins are counted in a transaction that the rejection rolls back
    (`api/routes/auth.py:72`). Locking a user revokes no token
    (`user_writer.py:266`, against line 373).

Containers and directory:

16. A folder can be moved below its own descendant by two moves, as paths below
    a moved folder are not rewritten (`folders_service.py:355`,
    `docs/contracts/database-schema.md:502`). Deleting a folder leaves what is
    in it (lines 527, 545).
17. A patch writes back the visibility it had read, and the row then says
    something else than the policy; a patch of the defaults beside one of the
    rights leaves defaults that nobody can read. Rights can be replaced after a
    base is deleted, which leaves an active policy (`admin_service.py:191`).
18. Two overlapping requests can remove the last two administrators, and an
    administrator can be locked by hand without a check (line 346).
19. `unlock_user` does not raise the permission version (lines 350, 1084);
    disabling a department ends its memberships without a refusal (line 374);
    two overlapping replacements of roles leave their union (line 356); late
    requests leave orphans, and bindings limited to a department outlive it.

Queries:

20. The logs of a denied stream roll back with its transaction
    (`审计事件字典.md:85`). The model calls of rewriting and reranking are
    logged only at the end.
21. Reasoning leaks into a stream when the provider cuts inside a think tag that
    has attributes (`answer/service.py:401`); the texts of
    `query_streams` have tags without.
22. A stream that is left or cancelled leaves its message `running`, and a
    cancel before the access token is there does nothing
    (`useQueryStream.ts:91`). Selecting a conversation just before the end shows
    the answer as running. Tokens are shown before citations are validated.
23. A stream whose body ends without a last event, as when its process dies, is
    shown as a complete answer, while the message is `running` and nothing is
    logged (`useQueryStream.ts:156`, `api/query.ts:81`). A connection that breaks
    behind the commit is shown as an error, although the answer is stored.
24. An answer with a reference that is malformed and one that is not allowed
    counts as malformed, as that is tested first (`citation_validator.py:37`):
    its references are replaced and its text is shown, where
    `降级策略与错误码说明.md:114-125` and `安全边界与威胁模型.md:204` have it fail
    closed.
25. The scope of knowledge bases is read once and not again at the gate, and an
    error while neighbours are read is swallowed (`retrieval_pipeline.py:141`).

## 7. Plan and what is not modelled

The order was: jobs, index lifecycle with document permissions, sessions, setup
and configuration, access and containers, directory, caches, ranking, streams,
chunking. All of it is there. What could follow:

* the access token of the web client, refreshed by several requests at once
  (the server's side is `RotatedOnce`);
* a refinement from the outline of publish and refresh in `QueryAccess` to
  `IndexLifecycle`;
* a proof of `StreamMatchesAnswer`, filter by filter.

**Not modelled:** the administration client, object storage and model adapters,
readers of logs, health reports and snapshots of collections, command-line
tools: presentation, external calls whose failures are failing steps here, or
reports that nothing reads back to decide anything. Of modelled parts: names,
titles, tags, paging, sorting; rebuilds of whole knowledge bases (one job for
each document); expiry of setup tokens; the service bootstrap; encryption of
secrets; how a question is split into sub-questions and how prompts are worded;
embeddings and floating-point scores.
