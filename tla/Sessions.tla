------------------------------ MODULE Sessions ------------------------------
(***************************************************************************)
(* The login sessions of one user: its account, its password and its rows  *)
(* in jwt_tokens.  A session is a pair of an access and a refresh token,   *)
(* issued together; refreshing replaces it by a new session.               *)
(*                                                                         *)
(* API processes handle one request each, in one READ COMMITTED            *)
(* transaction.  A request is cut where another process can come in        *)
(* between: where it waits for a row lock, and between reading a row       *)
(* without a lock and using it.  req[a] is the request that a handles.     *)
(* A statement that revokes many rows picks them from the rows committed   *)
(* when it starts, waits for those that are locked, and changes those that *)
(* are still active.                                                       *)
(*                                                                         *)
(* Whatever is written before a request is rejected is rolled back, so the *)
(* failed login count and the status 'expired' never reach the database:   *)
(* neither is modelled, and a token past its expiry is one that no request *)
(* presents any more.                                                      *)
(***************************************************************************)
EXTENDS Naturals

CONSTANTS
  Api,           \* API processes
  Session,       \* sessions that may be issued
  NoSession,
  MaxPasswords   \* password changes

ASSUME SessionsAssumption == NoSession \notin Session /\ MaxPasswords \in Nat

Row == Session \X {"access", "refresh"}
Access(s)  == <<s, "access">>
Refresh(s) == <<s, "refresh">>

VARIABLES
  user,      \* users.status
  password,  \* user_credentials.password_hash: the number of changes so far
  token,     \* jwt_tokens.status, of each row
  from,      \* whose refresh token the session replaced (replaced_by_jti)
  req,       \* the request of each process
  \* history: the password that the session goes back to, the sessions whose
  \* request overlapped a password change, the rows that had to end
  root, late, ended

rows    == <<token, from>>
history == <<root, late, ended>>
vars    == <<user, password, rows, req, history>>

Idle == [pc |-> "idle", sid |-> NoSession, old |-> 0, task |-> "none",
         picked |-> {}, due |-> {}, late |-> FALSE]

Passwords == 0..MaxPasswords

\* Requests that revoke every session; the first two change the password.
PasswordTask == {"change", "reset"}
Task == PasswordTask \cup {"disabled", "deleted"}

TypeOK ==
  /\ user \in {"active", "disabled", "locked", "deleted"}
  /\ password \in Passwords
  /\ token \in [Row -> {"none", "active", "used", "revoked"}]
  /\ from \in [Session -> Session \cup {NoSession}]
  /\ req \in [Api -> [pc : {"idle", "verified", "loaded", "refresh", "issue", "logout",
                            "authenticated", "write", "revoke"},
                      sid : Session \cup {NoSession}, old : Passwords,
                      task : Task \cup {"none"}, picked : SUBSET Row,
                      due : SUBSET Row, late : BOOLEAN]]
  /\ root \in [Session -> Passwords]
  /\ late \in SUBSET Session
  /\ ended \in SUBSET Row

Init ==
  /\ user = "active" /\ password = 0
  /\ token = [r \in Row |-> "none"]
  /\ from = [s \in Session |-> NoSession]
  /\ req = [a \in Api |-> Idle]
  /\ root = [s \in Session |-> 0] /\ late = {} /\ ended = {}

---------------------------------------------------------------------------
(* Row locks: what a request has locked until it commits.                  *)

LockedBy(a) ==
  CASE req[a].pc \in {"refresh", "issue"} -> {Refresh(req[a].sid)}
    [] req[a].pc = "logout"               -> {Access(req[a].sid)}
    [] OTHER                              -> {}
Locked(r) == \E a \in Api : r \in LockedBy(a)

Holds(a, tasks) == req[a].pc \in {"write", "revoke"} /\ req[a].task \in tasks
CredentialLocked == \E a \in Api : Holds(a, PasswordTask)
UserLocked       == \E a \in Api : Holds(a, {"disabled", "deleted"})

Issued(s) == token[Access(s)] # "none"
Done(a) == req' = [req EXCEPT ![a] = Idle]
Go(a, r) == req' = [req EXCEPT ![a] = r]
To(a, pc) == Go(a, [req[a] EXCEPT !.pc = pc])

---------------------------------------------------------------------------
(* Faulty variants of definitions below, each named for the definition it  *)
(* would replace: with it, TLC finds the property it breaks violated.      *)

RefreshLock_NoLock(a, s) ==
  /\ req[a].pc = "idle"
  /\ token[Refresh(s)] = "active"
  /\ Go(a, [Idle EXCEPT !.pc = "refresh", !.sid = s])
  /\ UNCHANGED <<user, password, rows, history>>
LogoutRows_ThisToken(s) == {Access(s)}
Picked_OtherSessions(a) == {r \in Row : token[r] = "active" /\ r[1] # req[a].sid}

---------------------------------------------------------------------------
(* Logging in: the password is verified, the account loaded again, the     *)
(* credential and the user row updated, a session issued.                  *)

LoginVerify(a) ==
  /\ req[a].pc = "idle"
  /\ user = "active"
  /\ Go(a, [Idle EXCEPT !.pc = "verified", !.old = password])
  /\ UNCHANGED <<user, password, rows, history>>

LoginLoad(a) ==
  /\ req[a].pc = "verified"
  /\ user = "active"
  /\ To(a, "loaded")
  /\ UNCHANGED <<user, password, rows, history>>

\* Inserts the two rows of session n.
Insert(t, n) == [t EXCEPT ![Access(n)] = "active", ![Refresh(n)] = "active"]

LoginCommit(a, n) ==
  /\ req[a].pc = "loaded"
  /\ ~CredentialLocked /\ ~UserLocked
  /\ ~Issued(n)
  /\ token' = Insert(token, n)
  /\ root' = [root EXCEPT ![n] = req[a].old]
  /\ late' = IF req[a].late THEN late \cup {n} ELSE late
  /\ Done(a)
  /\ UNCHANGED <<user, password, from, ended>>

---------------------------------------------------------------------------
(* Refreshing: the row of the refresh token is locked and must be active.  *)

RefreshLock(a, s) ==
  /\ req[a].pc = "idle"
  /\ ~Locked(Refresh(s))
  /\ token[Refresh(s)] = "active"
  /\ Go(a, [Idle EXCEPT !.pc = "refresh", !.sid = s])
  /\ UNCHANGED <<user, password, rows, history>>

RefreshLoad(a) ==
  /\ req[a].pc = "refresh"
  /\ user = "active"
  /\ To(a, "issue")
  /\ UNCHANGED <<user, password, rows, history>>

\* The update of the old row keeps a row that is no longer active.
MarkUsed(t, s) == [t EXCEPT ![Refresh(s)] = IF @ = "active" THEN "used" ELSE @]

\* A password change whose statement has started does not see the new rows.
ChangeUnderWay == \E c \in Api : req[c].pc = "revoke" /\ req[c].task \in PasswordTask

RefreshCommit(a, n) ==
  LET s == req[a].sid IN
  /\ req[a].pc = "issue"
  /\ ~Issued(n)
  /\ token' = MarkUsed(Insert(token, n), s)
  /\ from' = [from EXCEPT ![n] = s]
  /\ root' = [root EXCEPT ![n] = root[s]]
  /\ late' = IF s \in late \/ req[a].late \/ ChangeUnderWay THEN late \cup {n} ELSE late
  /\ Done(a)
  /\ UNCHANGED <<user, password, ended>>

---------------------------------------------------------------------------
(* Revoking: what is still active of the rows that a statement picked.     *)

Revoked(S) == [r \in Row |-> IF r \in S /\ token[r] = "active" THEN "revoked" ELSE token[r]]

LogoutLock(a, s) ==
  /\ req[a].pc = "idle"
  /\ ~Locked(Access(s))
  /\ token[Access(s)] = "active"
  /\ Go(a, [Idle EXCEPT !.pc = "logout", !.sid = s])
  /\ UNCHANGED <<user, password, rows, history>>

LogoutRows(s) == {Access(s), Refresh(s)}

LogoutCommit(a) ==
  LET s == req[a].sid IN
  /\ req[a].pc = "logout"
  /\ ~Locked(Refresh(s))
  /\ token' = Revoked(LogoutRows(s))
  /\ ended' = ended \cup {Access(s), Refresh(s)}
  /\ Done(a)
  /\ UNCHANGED <<user, password, from, root, late>>

\* A user changes the password in session s and gives the password p as old.
ChangeAuthenticate(a, s, p) ==
  /\ req[a].pc = "idle"
  /\ user = "active"
  /\ token[Access(s)] = "active"
  /\ Go(a, [Idle EXCEPT !.pc = "authenticated", !.sid = s, !.old = p, !.task = "change"])
  /\ UNCHANGED <<user, password, rows, history>>

ChangeLock(a) ==
  /\ req[a].pc = "authenticated"
  /\ ~CredentialLocked
  /\ req[a].old = password
  /\ To(a, "write")
  /\ UNCHANGED <<user, password, rows, history>>

\* An administrator resets the password, disables or deletes the user.
AdminLock(a, t) ==
  /\ req[a].pc = "idle"
  /\ user # "deleted"
  /\ IF t = "reset" THEN ~CredentialLocked ELSE ~UserLocked
  /\ Go(a, [Idle EXCEPT !.pc = "write", !.task = t])
  /\ UNCHANGED <<user, password, rows, history>>

\* All active rows but the one that the request came with.
Picked(a) == {r \in Row : token[r] = "active"} \ {Access(req[a].sid)}

\* The password and the user row are written, and seen when it commits; due
\* are the rows that exist when the statement starts.
RevokeStart(a) ==
  /\ req[a].pc = "write"
  /\ Go(a, [req[a] EXCEPT !.pc = "revoke", !.picked = Picked(a),
                          !.due = {r \in Row : token[r] # "none"} \ {Access(req[a].sid)}])
  /\ UNCHANGED <<user, password, rows, history>>

RevokeCommit(a) ==
  /\ req[a].pc = "revoke"
  /\ \A r \in req[a].picked : ~Locked(r)
  /\ token' = Revoked(req[a].picked)
  /\ ended' = ended \cup req[a].due
  /\ UNCHANGED <<from, root, late>>

PasswordCommit(a) ==
  /\ req[a].task \in PasswordTask
  /\ password < MaxPasswords
  /\ RevokeCommit(a)
  /\ password' = password + 1
  /\ req' = [b \in Api |-> IF b = a \/ req[b].pc = "idle" THEN Idle
                           ELSE [req[b] EXCEPT !.late = TRUE]]
  /\ user' = user

RemovalCommit(a) ==
  /\ req[a].task \in {"disabled", "deleted"}
  /\ RevokeCommit(a)
  /\ user' = req[a].task
  /\ Done(a)
  /\ UNCHANGED password

---------------------------------------------------------------------------
\* Locking or activating a user is one statement and revokes nothing.
SetStatus(status) ==
  /\ user # "deleted" /\ ~UserLocked
  /\ user' = status
  /\ UNCHANGED <<password, rows, req, history>>

UnlockUser ==
  /\ user # "deleted" /\ ~UserLocked /\ ~CredentialLocked
  /\ user' = IF user = "locked" THEN "active" ELSE user
  /\ UNCHANGED <<password, rows, req, history>>

\* A check rejects the request, a database error or a crash ends it: rolled back.
Abort(a) ==
  /\ req[a].pc # "idle"
  /\ Done(a)
  /\ UNCHANGED <<user, password, rows, history>>

Next ==
  \/ \E a \in Api :
       \/ LoginVerify(a) \/ LoginLoad(a)
       \/ RefreshLoad(a)
       \/ \E n \in Session : LoginCommit(a, n) \/ RefreshCommit(a, n)
       \/ \E s \in Session : RefreshLock(a, s) \/ LogoutLock(a, s)
       \/ LogoutCommit(a)
       \/ \E s \in Session, p \in Passwords : ChangeAuthenticate(a, s, p)
       \/ ChangeLock(a)
       \/ \E t \in {"reset", "disabled", "deleted"} : AdminLock(a, t)
       \/ RevokeStart(a) \/ PasswordCommit(a) \/ RemovalCommit(a)
       \/ Abort(a)
  \/ \E status \in {"active", "locked"} : SetStatus(status)
  \/ UnlockUser

Spec == Init /\ [][Next]_vars

---------------------------------------------------------------------------
(* A refresh token is exchanged for one session only, also when several    *)
(* requests present it at once, and is used up by that.                    *)
RotatedOnce ==
  \A m, n \in Session :
    from[n] # NoSession => /\ token[Refresh(from[n])] = "used"
                           /\ from[m] = from[n] => m = n

(* A token that is used or revoked stays what it is: neither a refresh nor *)
(* a revocation that waited for the row writes over it.                    *)
Final == [][\A r \in Row : token[r] \in {"used", "revoked"} => token'[r] = token[r]]_vars

(* After a logout no token of the session is active, whatever refresh was  *)
(* under way; after a password change, a reset, a disabling or a deletion  *)
(* none is that existed when the revocation started, except the access     *)
(* token that the password was changed with.                               *)
RevocationHolds == \A r \in ended : token[r] # "active"

(* A session that goes back to an earlier password cannot be refreshed any *)
(* more, unless its own request, or one it was refreshed from, overlapped  *)
(* the password change.                                                    *)
OldPasswordEnds ==
  \A s \in Session :
    token[Refresh(s)] = "active" /\ root[s] < password => s \in late
=============================================================================
