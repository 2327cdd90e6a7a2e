------------------------ MODULE ConfigurationProofs ------------------------
(***************************************************************************)
(* The versions of the configuration, for every set of API processes, of   *)
(* tokens and of versions; and how old a configuration may be that a       *)
(* request works with, for every number of processes, threads and versions *)
(* and every lifetime of the caches.                                       *)
(***************************************************************************)
EXTENDS Configuration, RuntimeConfig, TLAPS

Setup(r) == r.tok # NoToken /\ r.pc # "failed"
Publishes(r) == ~Setup(r) /\ r.pc \in {"publish", "archive", "switch"}
Writes(r) == Publishes(r) \/ r.pc = "edit"

(* What a request knows of the rows that it has locked.                    *)
RequestOK(r) ==
  /\ Publishes(r) => initialized /\ version[r.target] \in {"draft", "inactive"}
  /\ r.pc = "edit" => /\ version[r.target] = r.status
                      /\ r.status \in {"draft", "inactive", "active"}
  /\ Setup(r) => token[r.tok] = "active"
  /\ r.pc \in {"validated", "testing"} => Setup(r)
  /\ r.pc = "publish" => ~Setup(r)
  /\ Setup(r) /\ ((r.pc = "testing" /\ r.recover) \/ r.pc \in {"archive", "switch"})
       => recovery

Requests == \A a \in Api : RequestOK(req[a])

(* Two requests neither write the same version nor hold the setup token.   *)
Apart ==
  \A a, b \in Api : a # b =>
    /\ Writes(req[a]) /\ Writes(req[b]) => req[a].target # req[b].target
    /\ ~(Setup(req[a]) /\ Setup(req[b]))

OneToken == \A s, t \in Token : token[s] = "active" /\ token[t] = "active" => s = t

ActivePayload == initialized => pointer \in Version /\ payload[pointer] = "active"

Stored == PointerAgrees /\ ActivePayload /\ OneToken

IInv == TypeOK /\ Stored /\ Requests /\ Apart

LEMMA VersionFacts == 1 \in Version /\ Version \subseteq 0..MaxVersion /\ Version \subseteq Nat
BY ConfigurationAssumption DEF Version

LEMMA IdleFacts == Idle \in Request /\ ~Writes(Idle) /\ ~Setup(Idle) /\ Idle.pc = "idle"
<1>1. Idle \in Request
  BY VersionFacts, ConfigurationAssumption DEF Idle, Request, Status, Version
<1>2. Idle.pc = "idle" /\ Idle.tok = NoToken
  BY DEF Idle
<1> QED  BY <1>1, <1>2 DEF Writes, Publishes, Setup

LEMMA IdleOK == RequestOK(Idle)
BY IdleFacts DEF RequestOK, Publishes, Writes

LEMMA Names ==
  \A a \in Api : /\ InSetup(a) <=> Setup(req[a])
                 /\ Publishing(a) <=> Publishes(req[a])
                 /\ Versions(a) = IF Writes(req[a]) THEN {req[a].target} ELSE {}
BY DEF InSetup, Setup, Publishing, Publishes, Versions, Writes

LEMMA InitInv == Init => IInv
<1> SUFFICES ASSUME Init PROVE IInv
  OBVIOUS
<1>1. TypeOK
  <2>1. pointer \in 0..MaxVersion
    BY ConfigurationAssumption DEF Init
  <2>2. req \in [Api -> Request] /\ damaged \in SUBSET Version
    BY IdleFacts DEF Init
  <2>3. initialized \in BOOLEAN /\ recovery \in BOOLEAN
    BY Zenon DEF Init
  <2> QED  BY <2>1, <2>2, <2>3 DEF Init, TypeOK, Status
<1>2. Stored
  BY DEF Init, Stored, PointerAgrees, ActivePayload, OneToken
<1>3. Requests /\ Apart
  BY IdleFacts, IdleOK DEF Init, Requests, Apart
<1> QED  BY <1>1, <1>2, <1>3 DEF IInv

(* A step of one request that leaves the rows as they are.                 *)
LEMMA OneRequest ==
  ASSUME IInv, NEW a \in Api, NEW r \in Request, Go(a, r),
         UNCHANGED <<initialized, recovery, pointer, rows, token>>,
         phase' \in {"not_initialized", "initialized", "initialization_failed",
                     "recovery_required"},
         damaged' = damaged,
         RequestOK(r),
         Writes(r) => \A b \in Api \ {a} : Writes(req[b]) => req[b].target # r.target,
         Setup(r) => \A b \in Api \ {a} : ~Setup(req[b])
  PROVE  IInv'
<1>1. /\ req'[a] = r
      /\ \A b \in Api \ {a} : req'[b] = req[b]
      /\ req' \in [Api -> Request]
  BY DEF IInv, TypeOK, Go
<1>2. TypeOK'
  BY <1>1 DEF IInv, TypeOK, rows
<1>3. Stored'
  BY DEF IInv, Stored, PointerAgrees, ActivePayload, OneToken, rows
<1>4. Requests'
  BY <1>1 DEF IInv, Requests, RequestOK, rows
<1>5. Apart'
  BY <1>1 DEF IInv, Apart
<1> QED  BY <1>2, <1>3, <1>4, <1>5 DEF IInv

(* A request that ends, or only moves on with what it has locked.          *)
LEMMA MovesOn ==
  ASSUME IInv, NEW a \in Api, NEW r \in Request, Go(a, r),
         UNCHANGED <<state, rows, token, damaged>>,
         RequestOK(r), Writes(r) => Writes(req[a]) /\ r.target = req[a].target,
         Setup(r) => Setup(req[a])
  PROVE  IInv'
<1>1. Writes(r) => \A b \in Api \ {a} : Writes(req[b]) => req[b].target # r.target
  BY DEF IInv, Apart
<1>2. Setup(r) => \A b \in Api \ {a} : ~Setup(req[b])
  BY DEF IInv, Apart
<1> QED  BY <1>1, <1>2, OneRequest DEF state, IInv, TypeOK

LEMMA BootSteps ==
  ASSUME IInv, NEW a \in Api, BootRead(a) \/ BootProbe(a) \/ IssueStart(a) \/ Abort(a)
  PROVE  IInv'
<1>t. req[a] \in Request
  BY DEF IInv, TypeOK
<1>1. CASE BootRead(a)
  <2> DEFINE r == [Idle EXCEPT !.pc = IF initialized THEN "probe" ELSE "issue", !.saw = pointer]
  <2>1. r \in Request /\ RequestOK(r) /\ ~Writes(r) /\ ~Setup(r)
    BY IdleFacts DEF IInv, TypeOK, Request, RequestOK, Writes, Publishes, Setup, Idle
  <2> QED  BY <1>1, <2>1, MovesOn DEF BootRead
<1>2. CASE BootProbe(a) /\ Available(req[a].saw)
  BY <1>2, IdleFacts, IdleOK, MovesOn DEF BootProbe, Done, Go
<1>3. CASE BootProbe(a) /\ ~Available(req[a].saw)
  <2> DEFINE r == [req[a] EXCEPT !.pc = "issue", !.recover = TRUE]
  <2>1. r \in Request /\ r.pc = "issue" /\ r.tok = req[a].tok
    BY <1>t DEF Request
  <2>2. RequestOK(r) /\ ~Writes(r) /\ (Setup(r) => Setup(req[a]))
    BY <1>3, <2>1 DEF IInv, Requests, RequestOK, Writes, Publishes, Setup, BootProbe
  <2> QED  BY <1>3, <2>1, <2>2, MovesOn DEF BootProbe
<1>4. CASE IssueStart(a)
  <2> DEFINE r == [req[a] EXCEPT !.pc = "issuing", !.tokens = {t \in Token : token[t] = "active"}]
  <2>1. r \in Request /\ r.pc = "issuing" /\ r.tok = req[a].tok
    BY <1>t DEF Request
  <2>2. RequestOK(r) /\ ~Writes(r) /\ (Setup(r) => Setup(req[a]))
    BY <1>4, <2>1 DEF IInv, Requests, RequestOK, Writes, Publishes, Setup, IssueStart
  <2> QED  BY <1>4, <2>1, <2>2, MovesOn DEF IssueStart
<1>5. CASE Abort(a)
  BY <1>5, IdleFacts, IdleOK, MovesOn DEF Abort, Done, Go
<1> QED  BY <1>1, <1>2, <1>3, <1>4, <1>5

LEMMA SetupSteps ==
  ASSUME IInv, NEW a \in Api,
         \/ \E t \in Token : SetupLock(a, t)
         \/ \E v \in Version : SetupOpen(a, v)
         \/ SetupFail(a) \/ RecordFailure(a)
  PROVE  IInv'
<1>t. req[a] \in Request
  BY DEF IInv, TypeOK
<1>1. ASSUME NEW t \in Token, SetupLock(a, t) PROVE IInv'
  <2> DEFINE r == [Idle EXCEPT !.pc = "validated", !.tok = t]
  <2>1. r \in Request /\ r.pc = "validated" /\ r.tok = t
    BY IdleFacts DEF Request, Idle
  <2>2. RequestOK(r) /\ ~Writes(r) /\ Setup(r)
    BY <1>1, <2>1, ConfigurationAssumption DEF RequestOK, Writes, Publishes, Setup, SetupLock
  <2>3. \A b \in Api \ {a} : ~Setup(req[b])
    <3> SUFFICES ASSUME NEW b \in Api \ {a}, Setup(req[b]) PROVE FALSE
      OBVIOUS
    <3>1. req[b].tok \in Token /\ token[req[b].tok] = "active"
      BY DEF IInv, TypeOK, Request, Requests, RequestOK, Setup
    <3>2. req[b].tok = t
      BY <1>1, <3>1 DEF SetupLock, IInv, Stored, OneToken
    <3> QED  BY <1>1, <3>2, Names DEF SetupLock, TokenLocked
  <2>4. /\ Go(a, r) /\ damaged' = damaged
        /\ UNCHANGED <<initialized, recovery, pointer, rows, token>>
        /\ phase' \in {"not_initialized", "initialized", "initialization_failed",
                       "recovery_required"}
    BY <1>1 DEF SetupLock, state, IInv, TypeOK
  <2> HIDE DEF r
  <2> QED  BY <2>1, <2>2, <2>3, <2>4, OneRequest
<1>2. ASSUME NEW n \in Version, SetupOpen(a, n) PROVE IInv'
  <2> DEFINE r == [req[a] EXCEPT !.pc = "testing", !.recover = recovery, !.target = n]
  <2>0. recovery \in BOOLEAN
    BY Zenon DEF IInv, TypeOK
  <2>1. /\ r \in Request /\ r.pc = "testing" /\ r.tok = req[a].tok
        /\ r.recover = recovery
    BY <1>t, <2>0 DEF Request
  <2>2. Setup(req[a]) /\ Setup(r) /\ token[r.tok] = "active" /\ ~Writes(r)
    BY <1>2, <2>1 DEF IInv, Requests, RequestOK, Writes, Publishes, Setup, SetupOpen
  <2>3. RequestOK(r)
    <3>1. r.recover => recovery
      BY <2>1, Zenon
    <3> QED  BY <2>1, <2>2, <3>1 DEF RequestOK, Writes, Publishes
  <2>4. Go(a, r) /\ UNCHANGED <<state, rows, token, damaged>>
    BY <1>2 DEF SetupOpen
  <2> HIDE DEF r
  <2> QED  BY <2>1, <2>2, <2>3, <2>4, MovesOn
<1>3. CASE SetupFail(a)
  <2> DEFINE r == [req[a] EXCEPT !.pc = "failed"]
  <2>1. r \in Request /\ r.pc = "failed"
    BY <1>t DEF Request
  <2>2. RequestOK(r) /\ ~Writes(r) /\ ~Setup(r)
    BY <2>1 DEF RequestOK, Writes, Publishes, Setup
  <2> QED  BY <1>3, <2>1, <2>2, MovesOn DEF SetupFail, To
<1>4. CASE RecordFailure(a)
  BY <1>4, IdleFacts, IdleOK, OneRequest DEF RecordFailure, Done, Go
<1> QED  BY <1>1, <1>2, <1>3, <1>4

LEMMA LockSteps ==
  ASSUME IInv, NEW a \in Api, NEW v \in Version, PublishLock(a, v) \/ EditLock(a, v)
  PROVE  IInv'
<1> DEFINE r == IF PublishLock(a, v)
                THEN [Idle EXCEPT !.pc = "publish", !.target = v]
                ELSE [Idle EXCEPT !.pc = "edit", !.target = v, !.status = version[v]]
<1>1. /\ r \in Request /\ r.tok = NoToken /\ r.target = v
      /\ PublishLock(a, v) => r.pc = "publish"
      /\ ~PublishLock(a, v) => r.pc = "edit" /\ r.status = version[v]
  BY IdleFacts DEF IInv, TypeOK, Request, Idle
<1>2. Go(a, r) /\ UNCHANGED <<state, rows, token, damaged>> /\ Free(a, v) /\ Serving
  BY DEF PublishLock, EditLock
<1>3. /\ PublishLock(a, v) => version[v] \in {"draft", "inactive"}
      /\ ~PublishLock(a, v) => version[v] \in {"draft", "inactive", "active"}
  BY DEF PublishLock, EditLock
<1> HIDE DEF r
<1>4. initialized
  BY <1>2, Zenon DEF Serving
<1>5. ~Setup(r) /\ RequestOK(r)
  BY <1>1, <1>3, <1>4 DEF RequestOK, Publishes, Setup
<1>6. \A b \in Api \ {a} : Writes(req[b]) => req[b].target # r.target
  BY <1>1, <1>2, Names DEF Free
<1>7. phase \in {"not_initialized", "initialized", "initialization_failed",
                 "recovery_required"}
  BY DEF IInv, TypeOK
<1> QED  BY <1>1, <1>2, <1>5, <1>6, <1>7, OneRequest DEF state

LEMMA PickSteps ==
  ASSUME IInv, NEW a \in Api, Pick(a) \/ Take(a)
  PROVE  IInv'
<1>t. req[a] \in Request /\ RequestOK(req[a])
  BY DEF IInv, TypeOK, Requests
<1>1. CASE Pick(a)
  <2> DEFINE r == [req[a] EXCEPT !.pc = "archive", !.picked = {v \in Version : payload[v] = "active"}]
  <2>1. /\ r \in Request /\ r.pc = "archive" /\ r.tok = req[a].tok
        /\ r.target = req[a].target
    BY <1>t DEF Request
  <2>2. Go(a, r) /\ UNCHANGED <<state, rows, token, damaged>>
    BY <1>1 DEF Pick
  <2>3. req[a].pc = "publish" \/ (req[a].pc = "testing" /\ req[a].recover)
    BY <1>1 DEF Pick
  <2> HIDE DEF r
  <2>4. (Setup(r) <=> Setup(req[a])) /\ (Writes(r) => Writes(req[a]))
    BY <1>t, <2>1, <2>3 DEF RequestOK, Writes, Publishes, Setup
  <2>5. Setup(r) => recovery
    BY <1>t, <2>1, <2>3, <2>4 DEF RequestOK, Setup, IInv, Requests
  <2>6. RequestOK(r)
    BY <1>t, <2>1, <2>3, <2>4, <2>5 DEF RequestOK, Writes, Publishes, Setup
  <2> QED  BY <2>1, <2>2, <2>4, <2>6, MovesOn
<1>2. CASE Take(a)
  <2> DEFINE r == [req[a] EXCEPT !.pc = "switch", !.rivals = Rivals(a),
                                 !.picked = {v \in @ : payload[v] = "active"}]
  <2>1. /\ r \in Request /\ r.pc = "switch" /\ r.tok = req[a].tok
        /\ r.target = req[a].target
    BY <1>t DEF Request, Rivals
  <2>2. Go(a, r) /\ UNCHANGED <<state, rows, token, damaged>> /\ req[a].pc = "archive"
    BY <1>2 DEF Take
  <2> HIDE DEF r
  <2>3. RequestOK(r) /\ (Setup(r) => Setup(req[a])) /\ (Writes(r) => Writes(req[a]))
    BY <1>t, <2>1, <2>2 DEF RequestOK, Writes, Publishes, Setup
  <2> QED  BY <2>1, <2>2, <2>3, MovesOn
<1> QED  BY <1>1, <1>2

(* A request commits: the rows that the others have locked stay as they    *)
(* are, and it frees its own.                                              *)
LEMMA Commits ==
  ASSUME IInv, NEW a \in Api, Done(a), TypeOK', Stored', initialized => initialized',
         \A b \in Api \ {a} :
           /\ Writes(req[b]) => version'[req[b].target] = version[req[b].target]
           /\ Setup(req[b]) => /\ token'[req[b].tok] = token[req[b].tok]
                               /\ recovery => recovery'
  PROVE  IInv'
<1>1. req'[a] = Idle /\ \A b \in Api \ {a} : req'[b] = req[b]
  BY DEF IInv, TypeOK, Done
<1>2. ASSUME NEW b \in Api \ {a} PROVE RequestOK(req[b])'
  <2>1. RequestOK(req[b]) /\ req'[b] = req[b]
    BY <1>1 DEF IInv, Requests
  <2> QED  BY <1>2, <2>1 DEF RequestOK, Writes, Publishes, Setup
<1>3. RequestOK(req[a])'
  BY <1>1, IdleFacts DEF RequestOK, Writes, Publishes, Setup
<1>4. Requests'
  BY <1>2, <1>3 DEF Requests
<1>5. Apart'
  BY <1>1, IdleFacts DEF IInv, Apart
<1> QED  BY <1>4, <1>5 DEF IInv

LEMMA EndsTyped ==
  ASSUME TypeOK, NEW a \in Api, Done(a)
  PROVE  req' \in [Api -> Request]
BY IdleFacts DEF TypeOK, Done

(* A starting process issues a token only when no request holds one.       *)
LEMMA IssueStep ==
  ASSUME IInv, NEW a \in Api, NEW n \in Token, IssueCommit(a, n)
  PROVE  /\ IInv'
         /\ \A t \in Token : token'[t] = "used" => token[t] = "used"
<1>1. \A b \in Api : ~Setup(req[b])
  <2> SUFFICES ASSUME NEW b \in Api, Setup(req[b]) PROVE FALSE
    OBVIOUS
  <2>1. req[b].tok \in Token /\ token[req[b].tok] = "active"
    BY DEF IInv, TypeOK, Request, Requests, RequestOK, Setup
  <2>2. TokenLocked(req[b].tok)
    BY Names DEF TokenLocked
  <2> QED  BY <2>1, <2>2 DEF IssueCommit
<1>2. /\ token' \in [Token -> {"none", "active", "used", "revoked"}]
      /\ \A t \in Token : token'[t] = "active" <=> t = n
      /\ \A t \in Token : token'[t] = "used" => token[t] = "used"
  BY DEF IssueCommit, IInv, TypeOK
<1>3. recovery' \in BOOLEAN
  BY Zenon DEF IssueCommit
<1>4. TypeOK'
  BY <1>2, <1>3, EndsTyped DEF IssueCommit, IInv, TypeOK, rows
<1>5. Stored'
  BY <1>2 DEF IssueCommit, IInv, Stored, PointerAgrees, ActivePayload, OneToken, rows
<1> QED  BY <1>1, <1>2, <1>4, <1>5, Commits DEF IssueCommit, rows

LEMMA ConsumedTokens ==
  ASSUME TypeOK, NEW t \in Token, token[t] = "active"
  PROVE  /\ Consumed(t) \in [Token -> {"none", "active", "used", "revoked"}]
         /\ Consumed(t)[t] = "used"
         /\ \A s \in Token \ {t} : Consumed(t)[s] = token[s]
BY DEF TypeOK, Consumed

LEMMA InitializeStep ==
  ASSUME IInv, NEW a \in Api, InitializeCommit(a)
  PROVE  /\ IInv' /\ ~initialized
         /\ token[req[a].tok] = "active" /\ token'[req[a].tok] = "used"
         /\ \A v \in Version : version[v] = "archived" => version'[v] = "archived"
<1> DEFINE n == req[a].target
           t == req[a].tok
<1>1. /\ n \in Version /\ version[n] = "none" /\ Setup(req[a])
      /\ t \in Token /\ token[t] = "active"
  BY DEF IInv, TypeOK, Request, Requests, RequestOK, InitializeCommit, Setup
<1>2. /\ version' \in [Version -> Status] /\ payload' \in [Version -> Status]
      /\ version'[n] = "active" /\ payload'[n] = "active" /\ pointer' = n /\ initialized'
      /\ \A v \in Version \ {n} : version'[v] = version[v] /\ version[v] # "active"
  BY <1>1 DEF InitializeCommit, IInv, TypeOK, Status
<1>3. ~initialized
  BY <1>2 DEF IInv, Stored, PointerAgrees, ActivePayload, InitializeCommit
<1>4. /\ token' \in [Token -> {"none", "active", "used", "revoked"}] /\ token'[t] = "used"
      /\ \A s \in Token \ {t} : token'[s] = token[s]
  BY <1>1, ConsumedTokens DEF IInv, InitializeCommit
<1>5. initialized' \in BOOLEAN /\ UNCHANGED <<recovery, damaged>> /\ Done(a)
      /\ phase' = "initialized"
  BY DEF InitializeCommit
<1>6. TypeOK'
  BY <1>1, <1>2, <1>4, <1>5, EndsTyped, VersionFacts DEF IInv, TypeOK
<1>7. Stored'
  <2>1. PointerAgrees'
    BY <1>2 DEF PointerAgrees
  <2>2. ActivePayload'
    BY <1>1, <1>2 DEF ActivePayload
  <2>3. OneToken'
    BY <1>4 DEF OneToken, IInv, Stored
  <2> QED  BY <2>1, <2>2, <2>3 DEF Stored
<1>8. \A b \in Api \ {a} : Writes(req[b]) => req[b].target \in Version \ {n}
  BY <1>1 DEF IInv, TypeOK, Request, Requests, RequestOK, Writes
<1>9. \A b \in Api \ {a} : ~Setup(req[b])
  BY <1>1 DEF IInv, Apart
<1>10. IInv'
  BY <1>2, <1>3, <1>5, <1>6, <1>7, <1>8, <1>9, Commits
<1> QED  BY <1>1, <1>2, <1>3, <1>4, <1>10

(* What the two statements of a publish do to the versions.                *)
LEMMA SwitchRows ==
  ASSUME IInv, NEW a \in Api, NEW to \in {"inactive", "archived"}, Switch(a, to),
         version[req[a].target] # "archived"
  PROVE  LET n == req[a].target IN
         /\ n \in Version /\ pointer' = n /\ Done(a)
         /\ version' \in [Version -> Status] /\ payload' \in [Version -> Status]
         /\ payload'[n] = "active"
         /\ \A v \in Version : version'[v] = "active" <=> v = n
         /\ \A v \in Version : version[v] = "archived" => version'[v] = "archived"
         /\ \A b \in Api \ {a} : Writes(req[b]) /\ req[b].target # n
              => version'[req[b].target] = version[req[b].target]
<1> DEFINE n == req[a].target
<1>1. n \in Version /\ req[a].rivals \in SUBSET Version
  BY DEF IInv, TypeOK, Request
<1>2. /\ version' = Replaced(version, req[a].rivals, to, n)
      /\ payload' = Replaced(payload, req[a].picked, to, n)
      /\ pointer' = n /\ Done(a) /\ Alone(a)
      /\ \A v \in req[a].rivals : Free(a, v)
  BY DEF Switch
<1>3. version' \in [Version -> Status] /\ payload' \in [Version -> Status]
  BY <1>2 DEF Replaced, IInv, TypeOK, Status
<1>4. payload'[n] = "active"
  BY <1>1, <1>2 DEF Replaced
<1>5. \A v \in Version : version'[v] = "active" <=> v = n
  BY <1>1, <1>2 DEF Replaced, Alone
<1>6. \A v \in Version : version[v] = "archived" => version'[v] = "archived"
  BY <1>1, <1>2 DEF Replaced
<1>7. ASSUME NEW b \in Api \ {a}, Writes(req[b]), req[b].target # n
      PROVE  version'[req[b].target] = version[req[b].target]
  <2>1. req[b].target \in Version
    BY DEF IInv, TypeOK, Request
  <2>2. req[b].target \notin req[a].rivals
    BY <1>2, <1>7, Names DEF Free
  <2> QED  BY <1>2, <1>7, <2>1, <2>2 DEF Replaced
<1> QED  BY <1>1, <1>2, <1>3, <1>4, <1>5, <1>6, <1>7

LEMMA PublishStep ==
  ASSUME IInv, NEW a \in Api, PublishCommit(a)
  PROVE  /\ IInv'
         /\ \A v \in Version : version[v] = "archived" => version'[v] = "archived"
<1> DEFINE n == req[a].target
<1>1. /\ ~Setup(req[a]) /\ Publishes(req[a]) /\ initialized
      /\ version[n] \in {"draft", "inactive"}
  BY Names DEF PublishCommit, IInv, Requests, RequestOK, Publishes
<1>2. UNCHANGED <<initialized, phase, recovery, token, damaged>> /\ Switch(a, "inactive")
  BY DEF PublishCommit
<1>3. /\ n \in Version /\ pointer' = n /\ Done(a)
      /\ version' \in [Version -> Status] /\ payload' \in [Version -> Status]
      /\ payload'[n] = "active"
      /\ \A v \in Version : version'[v] = "active" <=> v = n
      /\ \A v \in Version : version[v] = "archived" => version'[v] = "archived"
      /\ \A b \in Api \ {a} : Writes(req[b]) /\ req[b].target # n
           => version'[req[b].target] = version[req[b].target]
  BY <1>1, <1>2, SwitchRows
<1>4. \A b \in Api \ {a} : Writes(req[b]) => req[b].target # n
  BY <1>1 DEF IInv, Apart, Writes
<1>5. TypeOK'
  BY <1>2, <1>3, EndsTyped, VersionFacts DEF IInv, TypeOK
<1>6. Stored'
  <2>1. PointerAgrees' /\ ActivePayload'
    BY <1>1, <1>2, <1>3 DEF PointerAgrees, ActivePayload
  <2> QED  BY <1>2, <2>1 DEF OneToken, IInv, Stored
<1> QED  BY <1>2, <1>3, <1>4, <1>5, <1>6, Commits

LEMMA RecoverStep ==
  ASSUME IInv, NEW a \in Api, RecoverCommit(a)
  PROVE  /\ IInv' /\ recovery /\ ~recovery'
         /\ token[req[a].tok] = "active" /\ token'[req[a].tok] = "used"
         /\ \A v \in Version : version[v] = "archived" => version'[v] = "archived"
<1> DEFINE n == req[a].target
           t == req[a].tok
<1>1. Setup(req[a]) /\ version[n] = "none" /\ req[a].pc = "switch" /\ Switch(a, "archived")
  BY Names DEF RecoverCommit, Switch
<1>2. t \in Token /\ token[t] = "active" /\ recovery
  BY <1>1 DEF IInv, TypeOK, Request, Requests, RequestOK, Setup
<1>3. initialized' /\ ~recovery' /\ initialized' \in BOOLEAN /\ recovery' \in BOOLEAN
  BY Zenon DEF RecoverCommit
<1>4. phase' = "initialized" /\ damaged' = damaged /\ token' = Consumed(t)
  BY DEF RecoverCommit
<1>5. /\ n \in Version /\ pointer' = n /\ Done(a)
      /\ version' \in [Version -> Status] /\ payload' \in [Version -> Status]
      /\ payload'[n] = "active"
      /\ \A v \in Version : version'[v] = "active" <=> v = n
      /\ \A v \in Version : version[v] = "archived" => version'[v] = "archived"
      /\ \A b \in Api \ {a} : Writes(req[b]) /\ req[b].target # n
           => version'[req[b].target] = version[req[b].target]
  BY <1>1, SwitchRows
<1>6. /\ token' \in [Token -> {"none", "active", "used", "revoked"}] /\ token'[t] = "used"
      /\ \A s \in Token \ {t} : token'[s] = token[s]
  BY <1>2, <1>4, ConsumedTokens DEF IInv
<1>7. \A b \in Api \ {a} : Writes(req[b]) => req[b].target # n
  BY <1>1 DEF IInv, Requests, RequestOK, Writes
<1>8. \A b \in Api \ {a} : ~Setup(req[b])
  BY <1>1 DEF IInv, Apart
<1>9. TypeOK'
  BY <1>3, <1>4, <1>5, <1>6, EndsTyped, VersionFacts DEF IInv, TypeOK
<1>10. Stored'
  <2>1. PointerAgrees' /\ ActivePayload'
    BY <1>3, <1>5 DEF PointerAgrees, ActivePayload
  <2>2. OneToken'
    BY <1>6 DEF OneToken, IInv, Stored
  <2> QED  BY <2>1, <2>2 DEF Stored
<1>11. IInv'
  BY <1>3, <1>5, <1>7, <1>8, <1>9, <1>10, Commits
<1> QED  BY <1>2, <1>3, <1>5, <1>6, <1>11

LEMMA EditStep ==
  ASSUME IInv, NEW a \in Api, EditCommit(a)
  PROVE  /\ IInv'
         /\ \A v \in Version : version[v] = "archived" => version'[v] = "archived"
<1> DEFINE n == req[a].target
<1>1. /\ n \in Version /\ version[n] = req[a].status /\ req[a].status \in Status
      /\ version[n] # "archived"
  BY DEF IInv, TypeOK, Request, Requests, RequestOK, EditCommit
<1>2. UNCHANGED <<state, token, damaged>> /\ Done(a)
  BY DEF EditCommit
<1>3. version' = version /\ payload' = [payload EXCEPT ![n] = version[n]]
  BY <1>1 DEF EditCommit, IInv, TypeOK
<1>4. TypeOK'
  BY <1>1, <1>2, <1>3, EndsTyped DEF IInv, TypeOK, state
<1>5. Stored'
  BY <1>1, <1>2, <1>3 DEF IInv, TypeOK, Stored, PointerAgrees, ActivePayload, OneToken, state
<1> QED  BY <1>2, <1>3, <1>4, <1>5, Commits DEF state

(* Commands that write a version that no request has locked.               *)
LEMMA OneVersion ==
  ASSUME IInv, NEW n \in Version, NEW s \in Status \ {"active"}, version[n] # "active",
         version' = [version EXCEPT ![n] = s], payload' = [payload EXCEPT ![n] = s],
         UNCHANGED <<state, token, req, damaged>>,
         \A b \in Api : Writes(req[b]) => req[b].target # n
  PROVE  IInv'
<1>1. TypeOK'
  BY DEF IInv, TypeOK, state
<1>2. Stored'
  BY DEF IInv, TypeOK, Stored, PointerAgrees, ActivePayload, OneToken, state, Status
<1>3. Requests'
  <2> SUFFICES ASSUME NEW b \in Api PROVE RequestOK(req[b])'
    BY DEF Requests
  <2>1. RequestOK(req[b]) /\ req[b].target \in Version
    BY DEF IInv, TypeOK, Request, Requests
  <2> QED  BY <2>1 DEF RequestOK, Writes, Publishes, Setup, state, IInv, TypeOK
<1>4. Apart'
  BY DEF IInv, Apart
<1> QED  BY <1>1, <1>2, <1>3, <1>4 DEF IInv

LEMMA CommandSteps ==
  ASSUME IInv, NEW n \in Version, SaveDraft(n) \/ Archive(n)
  PROVE  /\ IInv'
         /\ \A v \in Version : version[v] = "archived" => version'[v] = "archived"
<1>1. CASE SaveDraft(n)
  <2>1. version[n] = "none"
    BY <1>1, VersionFacts DEF SaveDraft, NextVersion
  <2>2. \A b \in Api : Writes(req[b]) => req[b].target # n
    BY <2>1 DEF IInv, Requests, RequestOK, Writes
  <2>3. IInv'
    BY <1>1, <2>1, <2>2, OneVersion DEF SaveDraft, Status
  <2> QED  BY <1>1, <2>1, <2>3 DEF SaveDraft, IInv, TypeOK
<1>2. CASE Archive(n)
  <2>1. version[n] # "active" /\ \A b \in Api : Writes(req[b]) => req[b].target # n
    BY <1>2, Names DEF Archive
  <2>2. IInv'
    BY <1>2, <2>1, OneVersion DEF Archive, Status
  <2> QED  BY <1>2, <2>2 DEF Archive, IInv, TypeOK
<1> QED  BY <1>1, <1>2

LEMMA DamageStep == IInv /\ Damage => IInv'
<1> SUFFICES ASSUME IInv, Damage PROVE IInv'
  OBVIOUS
<1>0. initialized
  BY Zenon DEF Damage
<1>1. damaged' \in SUBSET Version /\ UNCHANGED <<state, rows, token, req>>
  BY <1>0 DEF Damage, IInv, TypeOK, Stored, ActivePayload
<1>2. TypeOK'
  BY <1>1 DEF IInv, TypeOK, state, rows
<1>3. Stored' /\ Requests' /\ Apart'
  BY <1>1 DEF IInv, Stored, PointerAgrees, ActivePayload, OneToken, Requests, RequestOK,
              Apart, Writes, Publishes, Setup, state, rows
<1> QED  BY <1>2, <1>3 DEF IInv

(* The steps that leave the versions and the tokens alone.                 *)
LEMMA StutterInv == IInv /\ UNCHANGED vars => IInv'
<1> SUFFICES ASSUME IInv, UNCHANGED vars PROVE IInv'
  OBVIOUS
<1>1. TypeOK'
  BY DEF IInv, TypeOK, vars, state, rows
<1>2. Stored' /\ Requests' /\ Apart'
  BY DEF IInv, Stored, PointerAgrees, ActivePayload, OneToken, Requests, RequestOK,
         Apart, Writes, Publishes, Setup, vars, state, rows
<1> QED  BY <1>1, <1>2 DEF IInv

Archives == \A v \in Version : version[v] = "archived" => version'[v] = "archived"

Completes == (~initialized /\ initialized') \/ (recovery /\ ~recovery')
Spends == \E t \in Token : token[t] = "active" /\ token'[t] = "used"

(* Every step keeps the invariant, archives for good, and completes setup  *)
(* exactly when it spends the token.                                       *)
LEMMA StepFacts ==
  ASSUME IInv, [Next]_vars
  PROVE  IInv' /\ Archives /\ (Completes <=> Spends)
<1>q. ASSUME UNCHANGED <<initialized, recovery, rows, token>>
      PROVE  Archives /\ (Completes <=> Spends)
  BY <1>q DEF rows, Archives, Completes, Spends
<1>1. ASSUME NEW a \in Api, BootRead(a) \/ BootProbe(a) \/ IssueStart(a) \/ Abort(a)
      PROVE  IInv' /\ Archives /\ (Completes <=> Spends)
  BY <1>1, <1>q, BootSteps DEF BootRead, BootProbe, IssueStart, Abort, state
<1>2. ASSUME NEW a \in Api, NEW n \in Token, IssueCommit(a, n)
      PROVE  IInv' /\ Archives /\ (Completes <=> Spends)
  <2>1. IInv' /\ ~Spends
    BY <1>2, IssueStep DEF Spends
  <2>2. initialized' = initialized /\ (recovery => recovery') /\ Archives
    BY <1>2 DEF IssueCommit, rows, Archives
  <2> QED  BY <2>1, <2>2 DEF Completes
<1>3. ASSUME NEW a \in Api, \/ \E t \in Token : SetupLock(a, t)
                            \/ \E v \in Version : SetupOpen(a, v)
                            \/ SetupFail(a) \/ RecordFailure(a)
      PROVE  IInv' /\ Archives /\ (Completes <=> Spends)
  BY <1>3, <1>q, SetupSteps DEF SetupLock, SetupOpen, SetupFail, RecordFailure, state
<1>4. ASSUME NEW a \in Api, NEW v \in Version, PublishLock(a, v) \/ EditLock(a, v)
      PROVE  IInv' /\ Archives /\ (Completes <=> Spends)
  BY <1>4, <1>q, LockSteps DEF PublishLock, EditLock, state
<1>5. ASSUME NEW a \in Api, Pick(a) \/ Take(a)
      PROVE  IInv' /\ Archives /\ (Completes <=> Spends)
  BY <1>5, <1>q, PickSteps DEF Pick, Take, state
<1>6. ASSUME NEW a \in Api, InitializeCommit(a)
      PROVE  IInv' /\ Archives /\ (Completes <=> Spends)
  <2>1. req[a].tok \in Token
    BY <1>6 DEF IInv, TypeOK, Request, Requests, RequestOK, Setup, InitializeCommit
  <2>2. initialized' /\ ~initialized
    BY <1>6, InitializeStep DEF InitializeCommit
  <2> QED  BY <1>6, <2>1, <2>2, InitializeStep DEF Archives, Completes, Spends
<1>7. ASSUME NEW a \in Api, RecoverCommit(a)
      PROVE  IInv' /\ Archives /\ (Completes <=> Spends)
  <2>1. req[a].tok \in Token
    BY <1>7, Names DEF IInv, TypeOK, Request, Setup, RecoverCommit
  <2> QED  BY <1>7, <2>1, RecoverStep DEF Archives, Completes, Spends
<1>8. ASSUME NEW a \in Api, PublishCommit(a)
      PROVE  IInv' /\ Archives /\ (Completes <=> Spends)
  <2>1. UNCHANGED <<initialized, recovery, token>>
    BY <1>8 DEF PublishCommit
  <2> QED  BY <1>8, <2>1, PublishStep DEF Archives, Completes, Spends
<1>9. ASSUME NEW a \in Api, EditCommit(a)
      PROVE  IInv' /\ Archives /\ (Completes <=> Spends)
  <2>1. UNCHANGED <<initialized, recovery, token>>
    BY <1>9 DEF EditCommit, state
  <2> QED  BY <1>9, <2>1, EditStep DEF Archives, Completes, Spends
<1>10. ASSUME NEW v \in Version, SaveDraft(v) \/ Archive(v)
       PROVE  IInv' /\ Archives /\ (Completes <=> Spends)
  <2>1. UNCHANGED <<initialized, recovery, token>>
    BY <1>10 DEF SaveDraft, Archive, state
  <2> QED  BY <1>10, <2>1, CommandSteps DEF Archives, Completes, Spends
<1>11. CASE Damage
  BY <1>11, <1>q, DamageStep DEF Damage, state
<1>12. CASE UNCHANGED vars
  BY <1>12, <1>q, StutterInv DEF vars, state
<1> QED
  BY <1>1, <1>2, <1>3, <1>4, <1>5, <1>6, <1>7, <1>8, <1>9, <1>10, <1>11, <1>12 DEF Next

THEOREM ConfigurationInvariant == Spec => []IInv
<1>1. IInv /\ [Next]_vars => IInv'
  BY StepFacts
<1> QED  BY InitInv, <1>1, PTL DEF Spec

(* Every variable keeps its type.                                          *)
THEOREM ConfigurationTypeCorrect == Spec => []TypeOK
<1>1. IInv => TypeOK
  BY DEF IInv
<1> QED  BY ConfigurationInvariant, <1>1, PTL

(* One version is active, and the pointer names it, whatever publishes,    *)
(* edits, recoveries and first-time setups overlap.                        *)
THEOREM OneActiveVersion == Spec => []PointerAgrees
<1>1. IInv => PointerAgrees
  BY DEF IInv, Stored
<1> QED  BY ConfigurationInvariant, <1>1, PTL

(* The active configuration stays readable unless it is lost from outside. *)
THEOREM ActiveIsServed == Spec => []Served
<1>1. IInv => Served
  BY DEF IInv, Stored, PointerAgrees, ActivePayload, Served, Available
<1> QED  BY ConfigurationInvariant, <1>1, PTL

(* Setup is completed exactly by spending the one live token.              *)
THEOREM TokenCompletesSetup == Spec => SetupSpendsToken
<1>1. IInv /\ [Next]_vars
        => [(~initialized /\ initialized') \/ (recovery /\ ~recovery')
              <=> \E t \in Token : token[t] = "active" /\ token'[t] = "used"]_vars
  BY StepFacts DEF Completes, Spends
<1> QED  BY ConfigurationInvariant, <1>1, PTL DEF Spec, SetupSpendsToken

(* No step brings an archived version back.                                *)
THEOREM ArchivedForGood == Spec => ArchivedStays
<1>1. IInv /\ [Next]_vars
        => [\A v \in Version : version[v] = "archived" => version'[v] = "archived"]_vars
  BY StepFacts DEF Archives
<1> QED  BY ConfigurationInvariant, <1>1, PTL DEF Spec, ArchivedStays

-----------------------------------------------------------------------------
(* What processes keep of the active version.                              *)

Read    == [version : Nat, edit : Nat]
Cached  == [snap : Read, left : Nat]
Handled == [pc : {"idle", "pointer", "row", "set", "have", "served"}, snap : Read, time : Nat]

Typed ==
  /\ active \in VersionNumber /\ edit \in [VersionNumber -> Nat] /\ secret \in [Ref -> Nat]
  /\ left \in [VersionNumber -> Nat]
  /\ write \in [Process -> [kind : {"none", "publish", "edit"}, version : Nat]]
  /\ cache \in [Process -> Cached]
  /\ runtime \in [Process -> [version : Nat, edit : Nat, key : Nat]]
  /\ task \in [Thread -> Handled]

(* The version of an open change exists.                                   *)
WriteOK(w) == w = NoWrite \/ w.version \in VersionNumber

(* What is left of a snapshot's time and how long ago its version was      *)
(* replaced: the one grows as the other falls, and it began with the time  *)
(* that the request which loaded it had taken.                             *)
CacheOK(c) == c.left > 0 => c.snap.version \in VersionNumber /\ left[c.snap.version] + c.left <= TTL + MaxRequest

(* A request that loads has seen its version active since it began; one    *)
(* that took a snapshot has an old one, which grew older since.            *)
TaskOK(q) ==
  /\ q.time <= MaxRequest
  /\ q.pc \in {"row", "set"} => q.snap.version \in VersionNumber /\ left[q.snap.version] <= q.time
  /\ q.pc \in {"have", "served"} =>
       q.snap.version \in VersionNumber /\ left[q.snap.version] < TTL + MaxRequest + q.time

RuntimeInv ==
  /\ Typed
  /\ left[active] = 0
  /\ \A p \in Process : WriteOK(write[p])
  /\ \A p \in Process : CacheOK(cache[p])
  /\ \A t \in Thread : TaskOK(task[t])

-----------------------------------------------------------------------------

LEMMA Constants ==
  /\ TTL \in Nat /\ TTL > 0 /\ MaxRequest \in Nat /\ VersionNumber \subseteq Nat /\ 1 \in VersionNumber
  /\ Horizon = TTL + 2 * MaxRequest
  /\ \A t \in Thread : ProcessOf[t] \in Process
  /\ \A v \in VersionNumber : KeyRef[v] \in Ref
BY RuntimeAssumption DEF VersionNumber, Horizon

LEMMA Blank ==
  /\ NoTask \in Handled /\ TaskOK(NoTask) /\ NoTask.pc = "idle" /\ NoTask.time = 0
  /\ Dropped \in Cached /\ CacheOK(Dropped)
  /\ NoSnapshot \in Read /\ NoWrite \in [kind : {"none", "publish", "edit"}, version : Nat]
  /\ NoRuntime \in [version : Nat, edit : Nat, key : Nat]
BY Constants DEF NoTask, Handled, Read, TaskOK, Dropped, Cached, CacheOK, NoSnapshot, NoWrite, NoRuntime

(* A request and a snapshot that are left alone stay right while no        *)
(* version grows older.                                                    *)
LEMMA TaskKept ==
  ASSUME NEW q \in Handled, left \in [VersionNumber -> Nat], left' \in [VersionNumber -> Nat],
         \A v \in VersionNumber : left'[v] <= left[v], TaskOK(q)
  PROVE  TaskOK(q)'
BY Constants DEF Handled, Read, TaskOK

LEMMA CacheKept ==
  ASSUME NEW c \in Cached, left \in [VersionNumber -> Nat], left' \in [VersionNumber -> Nat],
         \A v \in VersionNumber : left'[v] <= left[v], CacheOK(c)
  PROVE  CacheOK(c)'
BY Constants DEF Cached, Read, CacheOK

LEMMA RuntimeInitInv == RuntimeInit => RuntimeInv
<1> SUFFICES ASSUME RuntimeInit PROVE RuntimeInv
  OBVIOUS
<1>1. left \in [VersionNumber -> Nat] /\ left[active] = 0
  BY Constants DEF RuntimeInit
<1>2. Typed
  BY <1>1, Constants, Blank DEF RuntimeInit, Typed, Dropped
<1>3. \A p \in Process : WriteOK(write[p]) /\ CacheOK(cache[p])
  BY Blank DEF RuntimeInit, WriteOK, Dropped
<1>4. \A t \in Thread : TaskOK(task[t])
  BY Blank DEF RuntimeInit
<1> QED  BY <1>1, <1>2, <1>3, <1>4 DEF RuntimeInv

-----------------------------------------------------------------------------
(* Changes of the configuration.                                           *)

(* A change drops caches at most; it takes no request further.             *)
LEMMA CachesDropped ==
  ASSUME RuntimeInv, NEW p \in Process, UNCHANGED <<left, task>>,
         cache' \in {cache, [cache EXCEPT ![p] = Dropped]}
  PROVE  /\ cache' \in [Process -> Cached] /\ \A q \in Process : CacheOK(cache[q])'
         /\ \A t \in Thread : TaskOK(task[t])'
<1>1. \A c \in Cached : CacheOK(c) => CacheOK(c)'
  BY CacheKept, Constants DEF RuntimeInv, Typed
<1>2. \A q \in Process : cache'[q] \in Cached /\ CacheOK(cache'[q]) /\ cache' \in [Process -> Cached]
  BY Blank DEF RuntimeInv, Typed
<1>3. \A q \in Process : CacheOK(cache[q])'
  BY <1>2 DEF CacheOK
<1>4. \A t \in Thread : TaskOK(task[t])'
  BY DEF RuntimeInv, TaskOK
<1> QED  BY <1>2, <1>3, <1>4, Blank DEF RuntimeInv, Typed

LEMMA PublishInv == ASSUME RuntimeInv, NEW p \in Process, NEW v \in VersionNumber, Publish(p, v) PROVE RuntimeInv'
<1>1. /\ cache' \in [Process -> Cached] /\ \A q \in Process : CacheOK(cache[q])'
      /\ \A t \in Thread : TaskOK(task[t])'
  BY CachesDropped DEF Publish, database
<1>2. write' \in [Process -> [kind : {"none", "publish", "edit"}, version : Nat]]
  BY Constants DEF RuntimeInv, Typed, Publish
<1>3. \A q \in Process : WriteOK(write[q])'
  BY DEF RuntimeInv, Typed, Publish, WriteOK
<1>4. runtime' \in [Process -> [version : Nat, edit : Nat, key : Nat]]
  BY Blank DEF RuntimeInv, Typed, Publish
<1> QED  BY <1>1, <1>2, <1>3, <1>4 DEF RuntimeInv, Typed, Publish, database

LEMMA EditInv == ASSUME RuntimeInv, NEW p \in Process, Edit(p) PROVE RuntimeInv'
<1>1. /\ cache' \in [Process -> Cached] /\ \A q \in Process : CacheOK(cache[q])'
      /\ \A t \in Thread : TaskOK(task[t])'
  BY CachesDropped DEF Edit, database
<1>2. write' \in [Process -> [kind : {"none", "publish", "edit"}, version : Nat]]
  BY Constants DEF RuntimeInv, Typed, Edit
<1>3. \A q \in Process : WriteOK(write[q])'
  BY DEF RuntimeInv, Typed, Edit, WriteOK
<1> QED  BY <1>1, <1>2, <1>3 DEF RuntimeInv, Typed, Edit, database

(* Of the versions only the one that becomes active changes its age.       *)
LEMMA CommitInv == ASSUME RuntimeInv, NEW p \in Process, Commit(p) PROVE RuntimeInv'
<1>1. write[p].version \in VersionNumber
  BY DEF RuntimeInv, Commit, WriteOK
<1>2. /\ active' \in VersionNumber /\ edit' \in [VersionNumber -> Nat] /\ left' \in [VersionNumber -> Nat]
      /\ left'[active'] = 0 /\ \A v \in VersionNumber : left'[v] <= left[v]
  <2>1. CASE write[p].kind = "edit"
    BY <1>1, <2>1, Constants DEF RuntimeInv, Typed, Commit
  <2>2. CASE write[p].kind # "edit"
    <3>1. /\ active' = write[p].version /\ left' = [left EXCEPT ![write[p].version] = 0] /\ edit' = edit
      BY <2>2 DEF Commit
    <3>2. left'[active'] = 0 /\ \A v \in VersionNumber : left'[v] \in Nat /\ left'[v] <= left[v]
      BY <1>1, <3>1 DEF RuntimeInv, Typed
    <3> QED  BY <1>1, <3>1, <3>2 DEF RuntimeInv, Typed
  <2> QED  BY <2>1, <2>2
<1>3. write' \in [Process -> [kind : {"none", "publish", "edit"}, version : Nat]]
  BY Blank DEF RuntimeInv, Typed, Commit
<1>4. \A q \in Process : WriteOK(write[q])'
  BY DEF RuntimeInv, Typed, Commit, WriteOK
<1>5. \A q \in Process : CacheOK(cache[q])'
  <2> SUFFICES ASSUME NEW q \in Process PROVE CacheOK(cache[q])'
    OBVIOUS
  <2>1. CacheOK(cache[q]) /\ cache[q] \in Cached /\ cache'[q] = cache[q]
    BY DEF RuntimeInv, Typed, Commit
  <2>2. \A c \in Cached : CacheOK(c) => CacheOK(c)'
    BY <1>2, CacheKept DEF RuntimeInv, Typed
  <2> QED  BY <2>1, <2>2 DEF CacheOK
<1>6. \A t \in Thread : TaskOK(task[t])'
  <2> SUFFICES ASSUME NEW t \in Thread PROVE TaskOK(task[t])'
    OBVIOUS
  <2>1. TaskOK(task[t]) /\ task[t] \in Handled /\ task'[t] = task[t]
    BY DEF RuntimeInv, Typed, Commit
  <2>2. \A q \in Handled : TaskOK(q) => TaskOK(q)'
    BY <1>2, TaskKept DEF RuntimeInv, Typed
  <2> QED  BY <2>1, <2>2 DEF TaskOK
<1> QED  BY <1>2, <1>3, <1>4, <1>5, <1>6 DEF RuntimeInv, Typed, Commit

LEMMA RollbackInv == ASSUME RuntimeInv, NEW p \in Process, Rollback(p) PROVE RuntimeInv'
<1>1. write' \in [Process -> [kind : {"none", "publish", "edit"}, version : Nat]]
  BY Blank DEF RuntimeInv, Typed, Rollback
<1>2. \A q \in Process : WriteOK(write[q])'
  BY DEF RuntimeInv, Typed, Rollback, WriteOK
<1>3. /\ \A q \in Process : CacheOK(cache[q])' /\ \A t \in Thread : TaskOK(task[t])'
  BY CachesDropped DEF Rollback, database
<1> QED  BY <1>1, <1>2, <1>3 DEF RuntimeInv, Typed, Rollback, database

LEMMA PutSecretInv == ASSUME RuntimeInv, NEW r \in Ref, PutSecret(r) PROVE RuntimeInv'
<1>1. secret' \in [Ref -> Nat]
  BY DEF RuntimeInv, Typed, PutSecret
<1>2. \A q \in Process : WriteOK(write[q])' /\ CacheOK(cache[q])'
  BY DEF RuntimeInv, PutSecret, WriteOK, CacheOK
<1>3. \A t \in Thread : TaskOK(task[t])'
  BY DEF RuntimeInv, PutSecret, TaskOK
<1> QED  BY <1>1, <1>2, <1>3 DEF RuntimeInv, Typed, PutSecret

-----------------------------------------------------------------------------
(* Requests.                                                               *)

(* A request goes on with what it now has, and its process's cache keeps   *)
(* what is right.                                                          *)
LEMMA GoesOn ==
  ASSUME RuntimeInv, NEW t \in Thread, NEW pc \in {"idle", "pointer", "row", "set", "have", "served"},
         NEW snap \in Read, Goes(t, pc, snap), UNCHANGED <<database, write, writes>>,
         TaskOK([pc |-> pc, snap |-> snap, time |-> task[t].time]),
         NEW c \in Cached, CacheOK(c),
         cache' \in {cache, [cache EXCEPT ![ProcessOf[t]] = c]},
         runtime' \in [Process -> [version : Nat, edit : Nat, key : Nat]]
  PROVE  RuntimeInv'
<1> DEFINE q == [pc |-> pc, snap |-> snap, time |-> task[t].time]
<1>1. q \in Handled
  BY DEF RuntimeInv, Typed, Handled
<1>2. task' = [task EXCEPT ![t] = q]
  BY DEF Goes, RuntimeInv, Typed
<1> HIDE DEF q
<1>3. task' \in [Thread -> Handled] /\ \A u \in Thread : task'[u] = IF u = t THEN q ELSE task[u]
  BY <1>1, <1>2 DEF RuntimeInv, Typed
<1>4. \A u \in Thread : TaskOK(task'[u])
  BY <1>3 DEF RuntimeInv, q
<1>5. \A u \in Thread : TaskOK(task[u])'
  BY <1>4 DEF TaskOK, database
<1>6. cache' \in [Process -> Cached] /\ \A p \in Process : CacheOK(cache'[p])
  <2>1. CASE cache' = cache
    BY <2>1 DEF RuntimeInv, Typed
  <2>2. CASE cache' = [cache EXCEPT ![ProcessOf[t]] = c]
    <3>1. cache' \in [Process -> Cached]
      BY <2>2 DEF RuntimeInv, Typed
    <3>2. \A p \in Process : cache'[p] = c \/ cache'[p] = cache[p]
      BY <2>2 DEF RuntimeInv, Typed
    <3> QED  BY <3>1, <3>2 DEF RuntimeInv
  <2> QED  BY <2>1, <2>2
<1>7. \A p \in Process : CacheOK(cache[p])'
  BY <1>6 DEF CacheOK, database
<1>8. \A p \in Process : WriteOK(write[p])'
  BY DEF RuntimeInv, WriteOK
<1> QED  BY <1>3, <1>5, <1>6, <1>7, <1>8 DEF RuntimeInv, Typed, database

LEMMA TaskEnds ==
  ASSUME RuntimeInv, NEW t \in Thread, task' = [task EXCEPT ![t] = NoTask],
         UNCHANGED <<database, write, writes, cache, runtime>>
  PROVE  RuntimeInv'
<1>1. task' \in [Thread -> Handled] /\ \A u \in Thread : TaskOK(task'[u])
  BY Blank DEF RuntimeInv, Typed
<1>2. \A u \in Thread : TaskOK(task[u])'
  BY <1>1 DEF TaskOK, database
<1>3. \A p \in Process : CacheOK(cache[p])' /\ WriteOK(write[p])'
  BY DEF RuntimeInv, CacheOK, WriteOK, database
<1> QED  BY <1>1, <1>2, <1>3 DEF RuntimeInv, Typed, database

LEMMA GetInv == ASSUME RuntimeInv, NEW t \in Thread, Get(t) PROVE RuntimeInv'
<1>1. /\ task[t].time \in Nat /\ task[t].time <= MaxRequest /\ ProcessOf[t] \in Process
      /\ cache[ProcessOf[t]] \in Cached
  BY Constants DEF RuntimeInv, Typed, Handled, TaskOK
<1>2. CASE cache[ProcessOf[t]].left > 0
  <2> DEFINE snap == cache[ProcessOf[t]].snap
  <2>1. snap \in Read /\ CacheOK(cache[ProcessOf[t]])
    BY <1>1 DEF RuntimeInv, Cached
  <2>2. TaskOK([pc |-> "have", snap |-> snap, time |-> task[t].time])
    <3>1. snap.version \in VersionNumber /\ left[snap.version] + cache[ProcessOf[t]].left <= TTL + MaxRequest
      BY <1>2, <2>1 DEF CacheOK
    <3>2. left[snap.version] \in Nat /\ cache[ProcessOf[t]].left \in Nat
      BY <1>1, <3>1 DEF RuntimeInv, Typed, Cached
    <3>3. left[snap.version] < TTL + MaxRequest + task[t].time
      BY <1>1, <1>2, <3>1, <3>2, Constants
    <3> HIDE DEF snap
    <3> QED  BY <1>1, <3>1, <3>3 DEF TaskOK
  <2>3. Goes(t, "have", snap) /\ cache' = cache /\ runtime' = runtime
    BY <1>2 DEF Get
  <2>4. UNCHANGED <<database, write, writes>>
    BY DEF Get
  <2>5. runtime' \in [Process -> [version : Nat, edit : Nat, key : Nat]]
    BY <2>3 DEF RuntimeInv, Typed
  <2> HIDE DEF snap
  <2> QED  BY <2>1, <2>2, <2>3, <2>4, <2>5, Blank, GoesOn
<1>3. CASE ~(cache[ProcessOf[t]].left > 0)
  <2>1. TaskOK([pc |-> "pointer", snap |-> NoSnapshot, time |-> task[t].time])
    BY <1>1 DEF TaskOK
  <2>2. /\ Goes(t, "pointer", NoSnapshot) /\ cache' = [cache EXCEPT ![ProcessOf[t]] = Dropped]
        /\ UNCHANGED <<database, write, writes, runtime>>
    BY <1>3 DEF Get
  <2>3. runtime' \in [Process -> [version : Nat, edit : Nat, key : Nat]]
    BY <2>2 DEF RuntimeInv, Typed
  <2> QED  BY <2>1, <2>2, <2>3, Blank, GoesOn
<1> QED  BY <1>2, <1>3

LEMMA ReadPointerInv == ASSUME RuntimeInv, NEW t \in Thread, ReadPointer(t) PROVE RuntimeInv'
<1> DEFINE snap == [version |-> active, edit |-> 0]
<1>1. snap \in Read
  BY Constants DEF RuntimeInv, Typed, Read
<1>2. TaskOK([pc |-> "row", snap |-> snap, time |-> task[t].time])
  BY DEF RuntimeInv, Typed, TaskOK, Handled
<1>3. Goes(t, "row", snap) /\ UNCHANGED <<database, write, writes, cache, runtime>>
  BY DEF ReadPointer
<1>4. runtime' \in [Process -> [version : Nat, edit : Nat, key : Nat]]
  BY <1>3 DEF RuntimeInv, Typed
<1> HIDE DEF snap
<1> QED  BY <1>1, <1>2, <1>3, <1>4, Blank, GoesOn

LEMMA ReadRowInv == ASSUME RuntimeInv, NEW t \in Thread, ReadRow(t) PROVE RuntimeInv'
<1> DEFINE v == task[t].snap.version
           snap == [version |-> v, edit |-> edit[v]]
<1>1. CASE v = active
  <2>1. snap \in Read
    BY <1>1, Constants DEF RuntimeInv, Typed, Read
  <2>2. TaskOK([pc |-> "set", snap |-> snap, time |-> task[t].time])
    BY <1>1 DEF RuntimeInv, Typed, TaskOK, Handled
  <2>3. Goes(t, "set", snap) /\ UNCHANGED <<database, write, writes, cache, runtime>>
    BY <1>1 DEF ReadRow
  <2>4. runtime' \in [Process -> [version : Nat, edit : Nat, key : Nat]]
    BY <2>3 DEF RuntimeInv, Typed
  <2> HIDE DEF snap
  <2> QED  BY <2>1, <2>2, <2>3, <2>4, Blank, GoesOn
<1>2. CASE v # active
  BY <1>2, TaskEnds DEF ReadRow
<1> QED  BY <1>1, <1>2

LEMMA SetCacheInv == ASSUME RuntimeInv, NEW t \in Thread, SetCache(t) PROVE RuntimeInv'
<1> DEFINE snap == task[t].snap
           c == [snap |-> snap, left |-> TTL]
<1>1. /\ snap \in Read /\ snap.version \in VersionNumber /\ left[snap.version] <= task[t].time
      /\ left[snap.version] \in Nat /\ task[t].time \in Nat /\ task[t].time <= MaxRequest
  BY DEF SetCache, RuntimeInv, Typed, TaskOK, Handled
<1>2. c \in Cached /\ CacheOK(c)
  BY <1>1, Constants DEF Cached, CacheOK
<1>3. TaskOK([pc |-> "have", snap |-> snap, time |-> task[t].time])
  BY <1>1, Constants DEF TaskOK
<1>4. /\ Goes(t, "have", snap) /\ UNCHANGED <<database, write, writes, runtime>>
      /\ cache' = [cache EXCEPT ![ProcessOf[t]] = c]
  BY DEF SetCache
<1>5. runtime' \in [Process -> [version : Nat, edit : Nat, key : Nat]]
  BY <1>4 DEF RuntimeInv, Typed
<1> HIDE DEF snap, c
<1> QED  BY <1>1, <1>2, <1>3, <1>4, <1>5, GoesOn

(* The runtime that is used is one of the version asked for.               *)
LEMMA AuthRuntimeInv == ASSUME RuntimeInv, NEW t \in Thread, AuthRuntime(t) PROVE RuntimeInv'
<1> DEFINE p == ProcessOf[t]
           old == task[t].snap
           snap == [version |-> runtime'[p].version, edit |-> runtime'[p].edit]
<1>1. /\ p \in Process /\ old \in Read /\ old.version \in VersionNumber /\ task[t].time <= MaxRequest
      /\ left[old.version] < TTL + MaxRequest + task[t].time
  BY Constants DEF AuthRuntime, RuntimeInv, Typed, TaskOK, Handled
<1>2. runtime' \in [Process -> [version : Nat, edit : Nat, key : Nat]] /\ runtime'[p].version = old.version
  <2>1. CASE Kept(p, old)
    BY <1>1, <2>1 DEF AuthRuntime, RuntimeInv, Typed, Kept
  <2>2. CASE ~Kept(p, old)
    <3> DEFINE new == [version |-> old.version, edit |-> old.edit, key |-> secret[KeyRef[old.version]]]
    <3>1. new \in [version : Nat, edit : Nat, key : Nat] /\ new.version = old.version
      BY <1>1, Constants DEF RuntimeInv, Typed, Read
    <3>2. runtime' = [runtime EXCEPT ![p] = new]
      BY <2>2 DEF AuthRuntime
    <3> HIDE DEF new, p, old
    <3> QED  BY <1>1, <3>1, <3>2 DEF RuntimeInv, Typed
  <2> QED  BY <2>1, <2>2
<1>3. snap \in Read /\ snap.version = old.version
  BY <1>1, <1>2 DEF Read
<1>4. TaskOK([pc |-> "served", snap |-> snap, time |-> task[t].time])
  BY <1>1, <1>3 DEF TaskOK
<1>5. Goes(t, "served", snap) /\ UNCHANGED <<database, write, writes, cache>>
  BY DEF AuthRuntime
<1> HIDE DEF snap, old, p
<1> QED  BY <1>2, <1>3, <1>4, <1>5, Blank, GoesOn

LEMMA AnswerInv == ASSUME RuntimeInv, NEW t \in Thread, Answer(t) PROVE RuntimeInv'
BY TaskEnds DEF Answer

-----------------------------------------------------------------------------
(* Restarts and time.                                                      *)

LEMMA RestartInv == ASSUME RuntimeInv, NEW p \in Process, Restart(p) PROVE RuntimeInv'
<1>1. cache' \in [Process -> Cached] /\ \A q \in Process : CacheOK(cache'[q])
  BY Blank DEF RuntimeInv, Typed, Restart
<1>2. task' \in [Thread -> Handled] /\ \A t \in Thread : TaskOK(task'[t])
  BY Blank DEF RuntimeInv, Typed, Restart
<1>3. write' \in [Process -> [kind : {"none", "publish", "edit"}, version : Nat]]
  BY Blank DEF RuntimeInv, Typed, Restart
<1>4. runtime' \in [Process -> [version : Nat, edit : Nat, key : Nat]]
  BY Blank DEF RuntimeInv, Typed, Restart
<1>5. \A q \in Process : CacheOK(cache[q])'
  BY <1>1 DEF CacheOK, Restart, database
<1>6. \A t \in Thread : TaskOK(task[t])'
  BY <1>2 DEF TaskOK, Restart, database
<1>7. \A q \in Process : WriteOK(write[q])'
  BY DEF RuntimeInv, Typed, Restart, WriteOK
<1> QED  BY <1>1, <1>2, <1>3, <1>4, <1>5, <1>6, <1>7 DEF RuntimeInv, Typed, Restart, database

(* Every version that is not active grows older by one; so does every      *)
(* request, and every snapshot has one tick less.                          *)
LEMMA TickInv == ASSUME RuntimeInv, Tick PROVE RuntimeInv'
<1>1. /\ left' \in [VersionNumber -> Nat] /\ left'[active'] = 0 /\ active' = active
      /\ \A v \in VersionNumber : left'[v] <= left[v] + 1
  BY Constants DEF RuntimeInv, Typed, Tick, Later
<1>2. cache' \in [Process -> Cached] /\ \A p \in Process : CacheOK(cache[p])'
  <2> SUFFICES ASSUME NEW p \in Process PROVE cache'[p] \in Cached /\ CacheOK(cache[p])'
    BY DEF Tick
  <2>1. cache[p] \in Cached /\ CacheOK(cache[p])
    BY DEF RuntimeInv, Typed
  <2>2. CASE cache[p].left = 0
    <3>1. cache'[p] = cache[p]
      BY <2>2 DEF Tick
    <3> QED  BY <2>1, <2>2, <3>1 DEF CacheOK
  <2>3. CASE cache[p].left # 0
    <3>1. cache'[p] = [snap |-> cache[p].snap, left |-> cache[p].left - 1]
      BY <2>1, <2>3 DEF Tick, Cached
    <3>2. cache[p].left \in Nat /\ cache[p].left > 0 /\ cache[p].snap \in Read
      BY <2>1, <2>3 DEF Cached
    <3>3. /\ cache[p].snap.version \in VersionNumber
          /\ left[cache[p].snap.version] + cache[p].left <= TTL + MaxRequest
      BY <2>1, <3>2 DEF CacheOK
    <3>4. /\ left[cache[p].snap.version] \in Nat /\ left'[cache[p].snap.version] \in Nat
          /\ left'[cache[p].snap.version] <= left[cache[p].snap.version] + 1
      BY <1>1, <3>3 DEF RuntimeInv, Typed
    <3>5. left'[cache[p].snap.version] + (cache[p].left - 1) <= TTL + MaxRequest
      BY <3>2, <3>3, <3>4, Constants
    <3>6. cache'[p] \in Cached
      BY <3>1, <3>2 DEF Cached
    <3>7. CacheOK(cache[p])'
      BY <3>1, <3>3, <3>5 DEF CacheOK
    <3> QED  BY <3>6, <3>7
  <2> QED  BY <2>2, <2>3
<1>3. task' \in [Thread -> Handled] /\ \A t \in Thread : TaskOK(task[t])'
  <2> SUFFICES ASSUME NEW t \in Thread PROVE task'[t] \in Handled /\ TaskOK(task[t])'
    BY DEF Tick
  <2>1. task[t] \in Handled /\ TaskOK(task[t])
    BY DEF RuntimeInv, Typed
  <2>2. CASE task[t].pc = "idle"
    <3>1. task'[t] = NoTask
      BY <2>2 DEF Tick
    <3> QED  BY <3>1, Blank DEF TaskOK, NoTask
  <2>3. CASE task[t].pc # "idle"
    <3> DEFINE q == [pc |-> task[t].pc, snap |-> task[t].snap, time |-> task[t].time + 1]
    <3>1. task'[t] = q
      BY <2>1, <2>3 DEF Tick, Handled
    <3>2. /\ q \in Handled /\ q.pc = task[t].pc /\ q.snap = task[t].snap /\ q.time = task[t].time + 1
          /\ task[t].time \in Nat /\ task[t].time < MaxRequest
      BY <2>1, <2>3 DEF Handled, Tick
    <3>3. q.time <= MaxRequest
      BY <3>2, Constants
    <3>4. \A v \in VersionNumber : /\ left[v] \in Nat /\ left'[v] \in Nat /\ left'[v] <= left[v] + 1
      BY <1>1 DEF RuntimeInv, Typed
    <3> HIDE DEF q
    <3>5. q.pc \in {"row", "set"} => q.snap.version \in VersionNumber /\ left'[q.snap.version] <= q.time
      BY <2>1, <3>2, <3>4 DEF TaskOK
    <3>6. q.pc \in {"have", "served"} =>
            q.snap.version \in VersionNumber /\ left'[q.snap.version] < TTL + MaxRequest + q.time
      <4> SUFFICES ASSUME q.pc \in {"have", "served"}
                   PROVE  q.snap.version \in VersionNumber /\ left'[q.snap.version] < TTL + MaxRequest + q.time
        OBVIOUS
      <4> DEFINE v == task[t].snap.version
      <4>1. v \in VersionNumber /\ left[v] < TTL + MaxRequest + task[t].time
        BY <2>1, <3>2 DEF TaskOK
      <4>2. left[v] \in Nat /\ left'[v] \in Nat /\ left'[v] <= left[v] + 1
        BY <3>4, <4>1
      <4> HIDE DEF v
      <4>3. left'[v] < TTL + MaxRequest + (task[t].time + 1)
        BY <4>1, <4>2, <3>2, Constants
      <4> QED  BY <4>1, <4>3, <3>2 DEF v
    <3> QED  BY <3>1, <3>2, <3>3, <3>5, <3>6 DEF TaskOK
  <2> QED  BY <2>2, <2>3
<1>4. \A p \in Process : WriteOK(write[p])'
  BY DEF RuntimeInv, Tick, WriteOK
<1> QED  BY <1>1, <1>2, <1>3, <1>4 DEF RuntimeInv, Typed, Tick

LEMMA RuntimeStutterInv == ASSUME RuntimeInv, UNCHANGED runtimeVars PROVE RuntimeInv'
<1>1. \A p \in Process : CacheOK(cache[p])' /\ WriteOK(write[p])'
  BY DEF RuntimeInv, runtimeVars, database, CacheOK, WriteOK
<1>2. \A t \in Thread : TaskOK(task[t])'
  BY DEF RuntimeInv, runtimeVars, database, TaskOK
<1> QED  BY <1>1, <1>2 DEF RuntimeInv, Typed, runtimeVars, database

LEMMA RuntimeStepInv == RuntimeInv /\ [RuntimeNext]_runtimeVars => RuntimeInv'
<1> SUFFICES ASSUME RuntimeInv, [RuntimeNext]_runtimeVars PROVE RuntimeInv'
  OBVIOUS
<1>1. ASSUME NEW p \in Process, NEW v \in VersionNumber, Publish(p, v) PROVE RuntimeInv'
  BY <1>1, PublishInv
<1>2. ASSUME NEW p \in Process, Edit(p) \/ Commit(p) \/ Rollback(p) \/ Restart(p) PROVE RuntimeInv'
  BY <1>2, EditInv, CommitInv, RollbackInv, RestartInv
<1>3. ASSUME NEW r \in Ref, PutSecret(r) PROVE RuntimeInv'
  BY <1>3, PutSecretInv
<1>4. ASSUME NEW t \in Thread, Advance(t) PROVE RuntimeInv'
  BY <1>4, GetInv, ReadPointerInv, ReadRowInv, SetCacheInv, AuthRuntimeInv, AnswerInv DEF Advance
<1>5. CASE Tick
  BY <1>5, TickInv
<1>6. CASE UNCHANGED runtimeVars
  BY <1>6, RuntimeStutterInv
<1> QED  BY <1>1, <1>2, <1>3, <1>4, <1>5, <1>6 DEF RuntimeNext

LEMMA Stale == RuntimeInv => StaleBounded
<1> SUFFICES ASSUME RuntimeInv, NEW t \in Thread, task[t].pc \in {"have", "served"}
             PROVE  left[task[t].snap.version] < Horizon
  BY DEF StaleBounded
<1>1. /\ left[task[t].snap.version] \in Nat /\ task[t].time \in Nat /\ task[t].time <= MaxRequest
      /\ left[task[t].snap.version] < TTL + MaxRequest + task[t].time
  BY DEF RuntimeInv, Typed, TaskOK, Handled
<1> QED  BY <1>1, Constants

(* For every number of processes and threads, every lifetime of the caches *)
(* and every bound on requests: no request works with a configuration that *)
(* was replaced longer ago than the lifetime and two requests take.        *)
THEOREM StalenessBounded == RuntimeSpec => []StaleBounded
BY RuntimeInitInv, RuntimeStepInv, Stale, PTL DEF RuntimeSpec
=============================================================================
