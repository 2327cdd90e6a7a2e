--------------------------- MODULE Configuration ---------------------------
(***************************************************************************)
(* First-time setup, recovery and the configuration versions.              *)
(*                                                                         *)
(* A configuration is a row of config_versions and a row of system_configs *)
(* with the same number; the pointer in system_state names the active one. *)
(* Administrators draft, edit, publish and archive versions.  An API       *)
(* process that starts issues a setup token when the system is not         *)
(* initialized, or when the active configuration cannot be read: then it   *)
(* opens recovery.  Whoever holds the token initializes or recovers.       *)
(*                                                                         *)
(* Requests are transactions at READ COMMITTED, cut where they wait for a  *)
(* row lock or for a dependency check, and where one statement's rows were *)
(* chosen before another process commits.                                  *)
(***************************************************************************)
EXTENDS Naturals

CONSTANTS
  Api,         \* API processes
  Token,       \* setup tokens that may be issued
  NoToken,
  MaxVersion   \* configuration versions that may be made

ASSUME ConfigurationAssumption == NoToken \notin Token /\ MaxVersion \in Nat \ {0}

Version == 1..MaxVersion

VARIABLES
  initialized, phase, recovery, pointer,  \* system_state: initialized, setup_status,
                                          \* recovery_setup_allowed, active_config_version
  version, payload,  \* status of the rows of config_versions and system_configs
  token,             \* status of the setup tokens
  req,               \* what each process does
  damaged            \* versions whose payload was lost outside the program

state == <<initialized, phase, recovery, pointer>>
rows  == <<version, payload>>
vars  == <<state, rows, token, req, damaged>>

Idle == [pc |-> "idle", recover |-> FALSE, saw |-> 0, tokens |-> {}, tok |-> NoToken,
         target |-> 1, status |-> "none", picked |-> {}, rivals |-> {}]

Status == {"none", "draft", "active", "inactive", "archived"}

Request ==
  [pc : {"idle", "probe", "issue", "issuing", "validated", "testing", "failed",
         "publish", "edit", "archive", "switch"},
   recover : BOOLEAN, saw : 0..MaxVersion, tokens : SUBSET Token,
   tok : Token \cup {NoToken}, target : Version, status : Status,
   picked : SUBSET Version, rivals : SUBSET Version]

TypeOK ==
  /\ initialized \in BOOLEAN /\ recovery \in BOOLEAN
  /\ phase \in {"not_initialized", "initialized", "initialization_failed", "recovery_required"}
  /\ pointer \in 0..MaxVersion
  /\ version \in [Version -> Status] /\ payload \in [Version -> Status]
  /\ token \in [Token -> {"none", "active", "used", "revoked"}]
  /\ req \in [Api -> Request]
  /\ damaged \in SUBSET Version

Init ==
  /\ initialized = FALSE /\ recovery = FALSE /\ phase = "not_initialized" /\ pointer = 0
  /\ version = [v \in Version |-> "none"]
  /\ payload = [v \in Version |-> "none"]
  /\ token = [t \in Token |-> "none"]
  /\ req = [a \in Api |-> Idle]
  /\ damaged = {}

---------------------------------------------------------------------------
Done(a) == req' = [req EXCEPT ![a] = Idle]
Go(a, r) == req' = [req EXCEPT ![a] = r]
To(a, pc) == Go(a, [req[a] EXCEPT !.pc = pc])

\* A setup request holds its token; an edit or a publish the rows of its version,
\* a publish or a recovery also the payloads that it is about to replace.
InSetup(a) == req[a].tok # NoToken /\ req[a].pc # "failed"
\* Faulty variant: the token is read without a lock.
TokenLocked_Never(t) == FALSE
TokenLocked(t) == \E a \in Api : InSetup(a) /\ req[a].tok = t

Publishing(a) == ~InSetup(a) /\ req[a].pc \in {"publish", "archive", "switch"}
\* Faulty variant: the version is edited without a lock.
Versions_Publishing(a) == IF Publishing(a) THEN {req[a].target} ELSE {}
Versions(a) == IF Publishing(a) \/ req[a].pc = "edit" THEN {req[a].target} ELSE {}
Payloads(a) == Versions(a) \cup IF req[a].pc = "switch" THEN req[a].picked ELSE {}
Free(a, v) == \A b \in Api \ {a} : v \notin Versions(b) \cup Payloads(b)

\* One that has written the setup status keeps it from the others to its end.
Holds(a) == \/ req[a].pc = "issuing" /\ req[a].recover
            \/ InSetup(a) /\ req[a].pc \in {"archive", "switch"}
StatusFree(a) == \A b \in Api \ {a} : ~Holds(b)

Available(v) == /\ v \in Version \ damaged
                /\ version[v] = "active" /\ payload[v] = "active"

\* What SetupGuard lets business requests through for.
Serving == initialized /\ Available(pointer)

\* One more than the last.
NextVersion(v) == /\ \A u \in Version : u >= v => version[u] = "none"
                  /\ v > 1 => version[v - 1] # "none"

---------------------------------------------------------------------------
(* A process starts: it reads the state, probes the version that the state *)
(* named, opens recovery if that is missing, and issues a setup token.     *)

BootRead(a) ==
  /\ req[a].pc = "idle"
  /\ Go(a, [Idle EXCEPT !.pc = IF initialized THEN "probe" ELSE "issue", !.saw = pointer])
  /\ UNCHANGED <<state, rows, token, damaged>>

BootProbe(a) ==
  /\ req[a].pc = "probe"
  /\ IF Available(req[a].saw) THEN Done(a)
     ELSE Go(a, [req[a] EXCEPT !.pc = "issue", !.recover = TRUE])
  /\ UNCHANGED <<state, rows, token, damaged>>

IssueStart(a) ==
  /\ req[a].pc = "issue"
  /\ req[a].recover => StatusFree(a)
  /\ Go(a, [req[a] EXCEPT !.pc = "issuing", !.tokens = {t \in Token : token[t] = "active"}])
  /\ UNCHANGED <<state, rows, token, damaged>>

\* Revokes the tokens it found, and inserts n; only one token may be active.
IssueCommit(a, n) ==
  /\ req[a].pc = "issuing"
  /\ \A t \in req[a].tokens : ~TokenLocked(t)
  /\ token[n] = "none"
  /\ \A t \in Token \ req[a].tokens : token[t] # "active"
  /\ token' = [t \in Token |-> IF t = n THEN "active"
                               ELSE IF token[t] = "active" THEN "revoked" ELSE token[t]]
  /\ phase' = IF req[a].recover THEN "recovery_required" ELSE phase
  /\ recovery' = (recovery \/ req[a].recover)
  /\ Done(a)
  /\ UNCHANGED <<initialized, pointer, rows, damaged>>

---------------------------------------------------------------------------
Consumed(t) == [token EXCEPT ![t] = IF @ = "active" THEN "used" ELSE @]

(* Initialization and recovery: the token is locked and validated, then    *)
(* setup must be open, then the services are tested.                       *)

SetupLock(a, t) ==
  /\ req[a].pc = "idle"
  /\ ~TokenLocked(t)
  /\ token[t] = "active"
  /\ Go(a, [Idle EXCEPT !.pc = "validated", !.tok = t])
  /\ UNCHANGED <<state, rows, token, damaged>>

SetupOpen(a, n) ==
  /\ req[a].pc = "validated"
  /\ ~initialized \/ recovery
  /\ recovery => NextVersion(n)
  /\ Go(a, [req[a] EXCEPT !.pc = "testing", !.recover = recovery, !.target = n])
  /\ UNCHANGED <<state, rows, token, damaged>>

\* The first version is inserted as the only active one.
InitializeCommit(a) ==
  /\ req[a].pc = "testing" /\ ~req[a].recover
  /\ StatusFree(a)
  /\ \A v \in Version : version[v] # "active"
  /\ version[req[a].target] = "none"
  /\ version' = [version EXCEPT ![req[a].target] = "active"]
  /\ payload' = [payload EXCEPT ![req[a].target] = "active"]
  /\ initialized' = TRUE /\ phase' = "initialized" /\ pointer' = req[a].target
  /\ token' = Consumed(req[a].tok)
  /\ Done(a)
  /\ UNCHANGED <<recovery, damaged>>

\* A failure is rolled back, and recorded in a transaction of its own.
SetupFail(a) ==
  /\ InSetup(a) /\ req[a].pc \in {"testing", "archive", "switch"}
  /\ To(a, "failed")
  /\ UNCHANGED <<state, rows, token, damaged>>

RecordFailure(a) ==
  /\ req[a].pc = "failed"
  /\ StatusFree(a)
  /\ phase' = "initialization_failed"
  /\ Done(a)
  /\ UNCHANGED <<initialized, recovery, pointer, rows, token, damaged>>

---------------------------------------------------------------------------
(* Publishing: the version is locked and tested; then every active payload *)
(* and every active version is replaced, and the pointer set.              *)

PublishLock(a, v) ==
  /\ req[a].pc = "idle"
  /\ Serving
  /\ Free(a, v)
  /\ version[v] \in {"draft", "inactive"} /\ v \notin damaged
  /\ Go(a, [Idle EXCEPT !.pc = "publish", !.target = v])
  /\ UNCHANGED <<state, rows, token, damaged>>

\* The statement on system_configs starts: it chooses its rows.
Pick(a) ==
  /\ \/ req[a].pc = "publish"
     \/ req[a].pc = "testing" /\ req[a].recover /\ StatusFree(a)
  /\ Go(a, [req[a] EXCEPT !.pc = "archive",
                          !.picked = {v \in Version : payload[v] = "active"}])
  /\ UNCHANGED <<state, rows, token, damaged>>

Rivals(a) == {v \in Version : version[v] = "active"}

\* It has got its rows, and the statement on config_versions chooses its own.
Take(a) ==
  /\ req[a].pc = "archive"
  /\ \A v \in req[a].picked : Free(a, v)
  /\ Go(a, [req[a] EXCEPT !.pc = "switch", !.rivals = Rivals(a),
                          !.picked = {v \in @ : payload[v] = "active"}])
  /\ UNCHANGED <<state, rows, token, damaged>>

\* The unique index on the active version; and the code without it.
Alone_NoIndex(a) == TRUE
Alone(a) == \A v \in Version \ req[a].rivals : version[v] # "active"

Replaced(row, S, to, n) ==
  [v \in Version |-> IF v = n THEN "active"
                     ELSE IF v \in S /\ row[v] = "active" THEN to ELSE row[v]]

Switch(a, to) ==
  LET n == req[a].target IN
  /\ req[a].pc = "switch"
  /\ \A v \in req[a].rivals : Free(a, v)
  /\ Alone(a)
  /\ version' = Replaced(version, req[a].rivals, to, n)
  /\ payload' = Replaced(payload, req[a].picked, to, n)
  /\ pointer' = n
  /\ Done(a)

PublishCommit(a) ==
  /\ Publishing(a)
  /\ Switch(a, "inactive")
  /\ UNCHANGED <<initialized, phase, recovery, token, damaged>>

\* A recovery inserts a version of its own.
RecoverCommit(a) ==
  /\ InSetup(a)
  /\ version[req[a].target] = "none"
  /\ Switch(a, "archived")
  /\ initialized' = TRUE /\ phase' = "initialized" /\ recovery' = FALSE
  /\ token' = Consumed(req[a].tok)
  /\ UNCHANGED damaged

---------------------------------------------------------------------------
(* The other commands of administrators on versions.                       *)

SaveDraft(n) ==
  /\ Serving
  /\ NextVersion(n)
  /\ version' = [version EXCEPT ![n] = "draft"]
  /\ payload' = [payload EXCEPT ![n] = "draft"]
  /\ UNCHANGED <<state, token, req, damaged>>

EditLock(a, v) ==
  /\ req[a].pc = "idle"
  /\ Serving
  /\ Free(a, v)
  /\ version[v] \in {"draft", "inactive", "active"} /\ v \notin damaged
  /\ Go(a, [Idle EXCEPT !.pc = "edit", !.target = v, !.status = version[v]])
  /\ UNCHANGED <<state, rows, token, damaged>>

\* Both rows get the status that the edit found.
EditCommit(a) ==
  LET v == req[a].target IN
  /\ req[a].pc = "edit"
  /\ version' = [version EXCEPT ![v] = req[a].status]
  /\ payload' = [payload EXCEPT ![v] = req[a].status]
  /\ Done(a)
  /\ UNCHANGED <<state, token, damaged>>

Archive(v) ==
  /\ Serving
  /\ \A b \in Api : v \notin Versions(b) \cup Payloads(b)
  /\ version[v] \in {"draft", "inactive"}
  /\ version' = [version EXCEPT ![v] = "archived"]
  /\ payload' = [payload EXCEPT ![v] = "archived"]
  /\ UNCHANGED <<state, token, req, damaged>>

---------------------------------------------------------------------------
\* A check rejects the request, a database error or a crash ends it: rolled back.
Abort(a) ==
  /\ req[a].pc # "idle"
  /\ Done(a)
  /\ UNCHANGED <<state, rows, token, damaged>>

\* The payload of the active version is lost by other means than this program.
Damage ==
  /\ initialized
  /\ damaged' = damaged \cup {pointer}
  /\ UNCHANGED <<state, rows, token, req>>

Next ==
  \/ \E a \in Api :
       \/ BootRead(a) \/ BootProbe(a) \/ IssueStart(a)
       \/ \E t \in Token : IssueCommit(a, t) \/ SetupLock(a, t)
       \/ \E v \in Version : SetupOpen(a, v) \/ PublishLock(a, v) \/ EditLock(a, v)
       \/ InitializeCommit(a) \/ SetupFail(a) \/ RecordFailure(a)
       \/ Pick(a) \/ Take(a) \/ PublishCommit(a) \/ RecoverCommit(a)
       \/ EditCommit(a) \/ Abort(a)
  \/ \E v \in Version : SaveDraft(v) \/ Archive(v)
  \/ Damage

Spec == Init /\ [][Next]_vars

---------------------------------------------------------------------------
(* The pointer names the active version, and no other version is active,   *)
(* however many publishes, recoveries and edits overlap.                   *)
PointerAgrees == \A v \in Version : version[v] = "active" <=> initialized /\ v = pointer

(* The configuration that the pointer names can be read, unless its        *)
(* payload was lost: no publish leaves the payload of another's behind.    *)
Served == initialized /\ pointer \notin damaged => Available(pointer)

(* First-time setup or recovery is completed exactly by spending the one    *)
(* live token: never with a token that a starting process has revoked, nor *)
(* is one spent on a system that another request has set up meanwhile.     *)
SetupSpendsToken ==
  [][(~initialized /\ initialized') \/ (recovery /\ ~recovery')
       <=> \E t \in Token : token[t] = "active" /\ token'[t] = "used"]_vars

(* An archived version stays archived: no edit or publish that began       *)
(* before writes over it.                                                  *)
ArchivedStays ==
  [][\A v \in Version : version[v] = "archived" => version'[v] = "archived"]_vars
=============================================================================
