--------------------------- MODULE SessionsProofs ---------------------------
(***************************************************************************)
(* Proofs about Sessions for every set of API processes and sessions, and  *)
(* any number of password changes.                                         *)
(***************************************************************************)
EXTENDS Sessions, TLAPS

Request == [pc : {"idle", "verified", "loaded", "refresh", "issue", "logout",
                  "authenticated", "write", "revoke"},
            sid : Session \cup {NoSession}, old : Passwords,
            task : Task \cup {"none"}, picked : SUBSET Row,
            due : SUBSET Row, late : BOOLEAN]

Refreshing(a) == req[a].pc \in {"refresh", "issue"}

LEMMA RowFacts ==
  /\ \A s \in Session : Access(s) \in Row /\ Refresh(s) \in Row
  /\ \A s, t \in Session : Access(s) # Refresh(t)
  /\ \A s, t \in Session : Refresh(s) = Refresh(t) => s = t
  /\ \A s, t \in Session : Access(s) = Access(t) => s = t
  /\ \A r \in Row : \E s \in Session : r = Access(s) \/ r = Refresh(s)
BY DEF Row, Access, Refresh

LEMMA IdleTyped == Idle \in Request
BY SessionsAssumption DEF Idle, Request, Passwords

(* Requests that wait for, hold or use a session name one.                 *)
Named ==
  \A a \in Api : req[a].pc \in {"refresh", "issue", "logout"} => req[a].sid \in Session

(* The two rows of a session are inserted together.                        *)
Pairs == \A s \in Session : (token[Access(s)] = "none") <=> (token[Refresh(s)] = "none")

(* A refresh has its row to itself, and the row stays active meanwhile.    *)
RowHeld ==
  /\ \A a \in Api : Refreshing(a) => token[Refresh(req[a].sid)] = "active"
  /\ \A a, b \in Api : Refreshing(a) /\ Refreshing(b) /\ req[a].sid = req[b].sid => a = b

Base == TypeOK /\ Named /\ Pairs /\ RowHeld

LEMMA LockedRefresh ==
  ASSUME Base, NEW s \in Session
  PROVE  Locked(Refresh(s)) <=> \E a \in Api : Refreshing(a) /\ req[a].sid = s
<1>1. ASSUME NEW a \in Api
      PROVE  Refresh(s) \in LockedBy(a) <=> Refreshing(a) /\ req[a].sid = s
  <2>1. CASE Refreshing(a)
    BY <2>1 DEF LockedBy, Refreshing, Refresh
  <2>2. CASE req[a].pc = "logout"
    BY <2>2 DEF LockedBy, Refreshing, Refresh, Access
  <2>3. CASE ~Refreshing(a) /\ req[a].pc # "logout"
    BY <2>3 DEF LockedBy, Refreshing
  <2> QED  BY <2>1, <2>2, <2>3
<1> QED  BY <1>1 DEF Locked

(* What revoking does to the rows.                                         *)
LEMMA RevokedRows ==
  ASSUME TypeOK, NEW S
  PROVE  /\ Revoked(S) \in [Row -> {"none", "active", "used", "revoked"}]
         /\ \A r \in Row : /\ token[r] # "active" => Revoked(S)[r] = token[r]
                           /\ r \notin S => Revoked(S)[r] = token[r]
                           /\ token[r] = "active" => Revoked(S)[r] \in {"active", "revoked"}
                           /\ r \in S => Revoked(S)[r] # "active"
BY DEF TypeOK, Revoked

(* What issuing session n, with or without using up session s, does.       *)
LEMMA InsertedRows ==
  ASSUME TypeOK, NEW n \in Session
  PROVE  /\ Insert(token, n) \in [Row -> {"none", "active", "used", "revoked"}]
         /\ Insert(token, n)[Access(n)] = "active"
         /\ Insert(token, n)[Refresh(n)] = "active"
         /\ \A r \in Row \ {Access(n), Refresh(n)} : Insert(token, n)[r] = token[r]
BY RowFacts DEF TypeOK, Insert

LEMMA UsedRows ==
  ASSUME TypeOK, NEW n \in Session, NEW s \in Session, n # s,
         token[Refresh(s)] = "active"
  PROVE  LET t == MarkUsed(Insert(token, n), s) IN
         /\ t \in [Row -> {"none", "active", "used", "revoked"}]
         /\ t[Access(n)] = "active" /\ t[Refresh(n)] = "active"
         /\ t[Refresh(s)] = "used"
         /\ \A r \in Row \ {Access(n), Refresh(n), Refresh(s)} : t[r] = token[r]
<1> DEFINE i == Insert(token, n)
<1>1. /\ i \in [Row -> {"none", "active", "used", "revoked"}]
      /\ i[Access(n)] = "active" /\ i[Refresh(n)] = "active"
      /\ \A r \in Row \ {Access(n), Refresh(n)} : i[r] = token[r]
  BY InsertedRows
<1> HIDE DEF i
<1>2. i[Refresh(s)] = "active"  BY <1>1, RowFacts
<1>3. MarkUsed(i, s) = [i EXCEPT ![Refresh(s)] = "used"]  BY <1>2 DEF MarkUsed
<1>4. /\ MarkUsed(i, s) \in [Row -> {"none", "active", "used", "revoked"}]
      /\ MarkUsed(i, s)[Refresh(s)] = "used"
      /\ \A r \in Row \ {Refresh(s)} : MarkUsed(i, s)[r] = i[r]
  BY <1>1, <1>3, RowFacts
<1> QED  BY <1>1, <1>4, RowFacts DEF i

(* What a step does to the requests: it replaces one, or it marks all that *)
(* are open when a password change commits.                                *)
LEMMA OneRequest ==
  ASSUME TypeOK, NEW a \in Api, NEW r \in Request, Go(a, r)
  PROVE  /\ req' \in [Api -> Request]
         /\ req'[a] = r
         /\ \A b \in Api \ {a} : req'[b] = req[b]
BY DEF TypeOK, Go, Request

LEMMA DoneRequest ==
  ASSUME TypeOK, NEW a \in Api, Done(a)
  PROVE  /\ req' \in [Api -> Request]
         /\ req'[a].pc = "idle"
         /\ \A b \in Api \ {a} : req'[b] = req[b]
BY IdleTyped DEF TypeOK, Done, Request, Idle

LEMMA MarkedRequests ==
  ASSUME TypeOK, NEW a \in Api, PasswordCommit(a)
  PROVE  /\ req' \in [Api -> Request]
         /\ req'[a].pc = "idle"
         /\ \A b \in Api \ {a} :
              /\ req'[b].pc = req[b].pc
              /\ req[b].pc # "idle" =>
                   /\ req'[b].sid = req[b].sid /\ req'[b].old = req[b].old
                   /\ req'[b].task = req[b].task /\ req'[b].picked = req[b].picked
                   /\ req'[b].due = req[b].due /\ req'[b].late = TRUE
<1>1. req \in [Api -> Request]  BY DEF TypeOK, Request
<1>2. req' = [b \in Api |-> IF b = a \/ req[b].pc = "idle" THEN Idle
                            ELSE [req[b] EXCEPT !.late = TRUE]]
  BY DEF PasswordCommit
<1>3. Idle.pc = "idle"  BY DEF Idle
<1>4. ASSUME NEW b \in Api
      PROVE  /\ [req[b] EXCEPT !.late = TRUE] \in Request
             /\ [req[b] EXCEPT !.late = TRUE].pc = req[b].pc
             /\ [req[b] EXCEPT !.late = TRUE].sid = req[b].sid
             /\ [req[b] EXCEPT !.late = TRUE].old = req[b].old
             /\ [req[b] EXCEPT !.late = TRUE].task = req[b].task
             /\ [req[b] EXCEPT !.late = TRUE].picked = req[b].picked
             /\ [req[b] EXCEPT !.late = TRUE].due = req[b].due
             /\ [req[b] EXCEPT !.late = TRUE].late = TRUE
  BY <1>1 DEF Request
<1> QED  BY <1>2, <1>3, <1>4, IdleTyped

---------------------------------------------------------------------------
(* Type correctness.                                                       *)

LEMMA StepCases ==
  ASSUME Next
  PROVE  \/ \E a \in Api :
              \/ LoginVerify(a) \/ LoginLoad(a) \/ RefreshLoad(a) \/ LogoutCommit(a)
              \/ ChangeLock(a) \/ RevokeStart(a) \/ Abort(a)
         \/ \E a \in Api, n \in Session : LoginCommit(a, n)
         \/ \E a \in Api, n \in Session : RefreshCommit(a, n)
         \/ \E a \in Api, s \in Session : RefreshLock(a, s)
         \/ \E a \in Api, s \in Session : LogoutLock(a, s)
         \/ \E a \in Api, s \in Session, p \in Passwords : ChangeAuthenticate(a, s, p)
         \/ \E a \in Api, t \in Task : AdminLock(a, t)
         \/ \E a \in Api : PasswordCommit(a)
         \/ \E a \in Api : RemovalCommit(a)
         \/ \E status \in {"active", "locked"} : SetStatus(status)
         \/ UnlockUser
BY DEF Next, Task, PasswordTask

(* A request replaced by a typed one, rows and history left alone.         *)
LEMMA QuietStep ==
  ASSUME Base, NEW a \in Api, NEW r \in Request, Go(a, r),
         UNCHANGED <<user, password, rows, history>>,
         r.pc \in {"refresh", "issue", "logout"} => r.sid \in Session,
         r.pc \in {"refresh", "issue"} =>
           /\ token[Refresh(r.sid)] = "active"
           /\ \A b \in Api \ {a} : Refreshing(b) => req[b].sid # r.sid
  PROVE  Base'
<1>1. /\ req' \in [Api -> Request]
      /\ req'[a] = r
      /\ \A b \in Api \ {a} : req'[b] = req[b]
  BY OneRequest DEF Base
<1>2. TypeOK'  BY <1>1 DEF Base, TypeOK, Request, rows, history
<1>3. Named'  BY <1>1 DEF Base, Named
<1>4. Pairs'  BY DEF Base, Pairs, rows
<1>5. RowHeld'  BY <1>1 DEF Base, RowHeld, Refreshing, rows
<1> QED  BY <1>2, <1>3, <1>4, <1>5 DEF Base

(* A step that begins no refresh or logout and leaves the rows of open     *)
(* refreshes active.                                                       *)
LEMMA RowsStep ==
  ASSUME Base, TypeOK', Pairs',
         \A b \in Api :
           /\ req'[b].pc = "logout" => req[b].pc = "logout" /\ req'[b].sid = req[b].sid
           /\ Refreshing(b)' => /\ Refreshing(b) /\ req'[b].sid = req[b].sid
                                /\ token'[Refresh(req[b].sid)] = "active"
  PROVE  Base'
<1>1. Named'  BY DEF Base, Named, Refreshing
<1>2. RowHeld'  BY DEF Base, RowHeld, Refreshing
<1> QED  BY <1>1, <1>2 DEF Base

LEMMA InitBase == Init => Base
<1> SUFFICES ASSUME Init PROVE Base  OBVIOUS
<1>1. Idle \in Request /\ Idle.pc = "idle"  BY IdleTyped DEF Idle
<1>2. req \in [Api -> Request] /\ \A a \in Api : req[a].pc = "idle"
  BY <1>1 DEF Init
<1>3. TypeOK  BY <1>2, SessionsAssumption DEF Init, TypeOK, Request, Passwords
<1>4. Named /\ RowHeld  BY <1>2 DEF Named, RowHeld, Refreshing
<1>5. Pairs  BY RowFacts DEF Init, Pairs
<1> QED  BY <1>3, <1>4, <1>5 DEF Base

LEMMA StepBase == Base /\ [Next]_vars => Base'
<1> SUFFICES ASSUME Base, [Next]_vars PROVE Base'  OBVIOUS
<1> USE DEF Base
<1>1. ASSUME NEW a \in Api, LoginVerify(a) PROVE Base'
  <2>1. password \in Passwords  BY DEF TypeOK
  <2> DEFINE r == [Idle EXCEPT !.pc = "verified", !.old = password]
  <2>2. r \in Request /\ r.pc = "verified"
    BY <2>1, IdleTyped DEF Request, Idle
  <2> QED  BY <1>1, <2>2, QuietStep DEF LoginVerify
<1>2. ASSUME NEW a \in Api, LoginLoad(a) PROVE Base'
  <2> DEFINE r == [req[a] EXCEPT !.pc = "loaded"]
  <2>1. r \in Request /\ r.pc = "loaded"  BY DEF TypeOK, Request
  <2> QED  BY <1>2, <2>1, QuietStep DEF LoginLoad, To
<1>3. ASSUME NEW a \in Api, RefreshLoad(a) PROVE Base'
  <2> DEFINE r == [req[a] EXCEPT !.pc = "issue"]
  <2>1. r \in Request /\ r.pc = "issue" /\ r.sid = req[a].sid
    BY DEF TypeOK, Request
  <2>2. Refreshing(a) /\ r.sid \in Session  BY <1>3, <2>1 DEF RefreshLoad, Refreshing, Named
  <2> HIDE DEF r
  <2>3. /\ token[Refresh(r.sid)] = "active"
        /\ \A b \in Api \ {a} : Refreshing(b) => req[b].sid # r.sid
    BY <2>1, <2>2 DEF RowHeld
  <2>4. Go(a, r) /\ UNCHANGED <<user, password, rows, history>>
    BY <1>3 DEF RefreshLoad, To, r
  <2> QED  BY <2>1, <2>2, <2>3, <2>4, QuietStep
<1>4. ASSUME NEW a \in Api, NEW n \in Session, LoginCommit(a, n) PROVE Base'
  <2>1. /\ req' \in [Api -> Request] /\ req'[a].pc = "idle"
        /\ \A b \in Api \ {a} : req'[b] = req[b]
    BY <1>4, DoneRequest DEF LoginCommit
  <2>2. token[Access(n)] = "none" /\ token[Refresh(n)] = "none"
    BY <1>4 DEF LoginCommit, Issued, Pairs
  <2>3. /\ token' \in [Row -> {"none", "active", "used", "revoked"}]
        /\ token'[Access(n)] = "active" /\ token'[Refresh(n)] = "active"
        /\ \A r \in Row \ {Access(n), Refresh(n)} : token'[r] = token[r]
    BY <1>4, InsertedRows DEF LoginCommit
  <2>4. req[a].old \in Passwords  BY DEF TypeOK
  <2>5. TypeOK'
    BY <1>4, <2>1, <2>3, <2>4 DEF LoginCommit, TypeOK, Request
  <2>6. Pairs'  BY <2>3, RowFacts DEF Pairs
  <2>7. ASSUME NEW b \in Api, Refreshing(b)'
        PROVE  /\ Refreshing(b) /\ req'[b].sid = req[b].sid
               /\ token'[Refresh(req[b].sid)] = "active"
    BY <2>1, <2>2, <2>3, <2>7, RowFacts DEF Refreshing, RowHeld, Named
  <2> QED  BY <2>1, <2>5, <2>6, <2>7, RowsStep
<1>5. ASSUME NEW a \in Api, NEW n \in Session, RefreshCommit(a, n) PROVE Base'
  <2> DEFINE s == req[a].sid
  <2>1. /\ req' \in [Api -> Request] /\ req'[a].pc = "idle"
        /\ \A b \in Api \ {a} : req'[b] = req[b]
    BY <1>5, DoneRequest DEF RefreshCommit
  <2>2. s \in Session /\ token[Refresh(s)] = "active" /\ Refreshing(a)
    BY <1>5 DEF RefreshCommit, Refreshing, Named, RowHeld
  <2>3. token[Access(n)] = "none" /\ token[Refresh(n)] = "none" /\ n # s
    BY <1>5, <2>2 DEF RefreshCommit, Issued, Pairs
  <2>4. /\ token' \in [Row -> {"none", "active", "used", "revoked"}]
        /\ token'[Access(n)] = "active" /\ token'[Refresh(n)] = "active"
        /\ token'[Refresh(s)] = "used"
        /\ \A r \in Row \ {Access(n), Refresh(n), Refresh(s)} : token'[r] = token[r]
    BY <1>5, <2>2, <2>3, UsedRows DEF RefreshCommit
  <2>5. TypeOK'
    <3>1. root[s] \in Passwords  BY <2>2 DEF TypeOK
    <3>2. from' = [from EXCEPT ![n] = s] /\ root' = [root EXCEPT ![n] = root[s]]
          /\ (late' = late \/ late' = late \cup {n})
          /\ UNCHANGED <<user, password, ended>>
      BY <1>5 DEF RefreshCommit
    <3> QED  BY <2>1, <2>2, <2>4, <3>1, <3>2 DEF TypeOK, Request
  <2>6. Pairs'
    <3>1. token[Access(s)] # "none"  BY <2>2 DEF Pairs
    <3>2. ASSUME NEW t \in Session, t # n, t # s
          PROVE  token'[Access(t)] = token[Access(t)] /\ token'[Refresh(t)] = token[Refresh(t)]
      <4>1. /\ Access(t) \in Row \ {Access(n), Refresh(n), Refresh(s)}
            /\ Refresh(t) \in Row \ {Access(n), Refresh(n), Refresh(s)}
        BY <2>2, <3>2, RowFacts
      <4> QED  BY <2>4, <4>1
    <3>3. token'[Access(s)] = token[Access(s)]  BY <2>2, <2>3, <2>4, RowFacts
    <3> QED  BY <2>4, <3>1, <3>2, <3>3 DEF Pairs
  <2>7. ASSUME NEW b \in Api, Refreshing(b)'
        PROVE  /\ Refreshing(b) /\ req'[b].sid = req[b].sid
               /\ token'[Refresh(req[b].sid)] = "active"
    <3>1. b # a /\ Refreshing(b) /\ req'[b].sid = req[b].sid
      BY <2>1, <2>7 DEF Refreshing
    <3>2. req[b].sid \in Session /\ req[b].sid # s /\ token[Refresh(req[b].sid)] = "active"
      BY <2>2, <3>1 DEF RowHeld, Named, Refreshing
    <3>3. req[b].sid # n  BY <2>3, <3>2
    <3>4. Refresh(req[b].sid) \in Row \ {Access(n), Refresh(n), Refresh(s)}
      BY <2>2, <3>2, <3>3, RowFacts
    <3> QED  BY <2>4, <3>1, <3>2, <3>4
  <2> QED  BY <2>1, <2>5, <2>6, <2>7, RowsStep
<1>6. ASSUME NEW a \in Api, NEW s \in Session, RefreshLock(a, s) PROVE Base'
  <2> DEFINE r == [Idle EXCEPT !.pc = "refresh", !.sid = s]
  <2>1. r \in Request /\ r.pc = "refresh" /\ r.sid = s
    BY IdleTyped DEF Request, Idle
  <2>2. \A b \in Api \ {a} : Refreshing(b) => req[b].sid # s
    BY <1>6, LockedRefresh DEF RefreshLock
  <2>3. Go(a, r) /\ UNCHANGED <<user, password, rows, history>> /\ token[Refresh(s)] = "active"
    BY <1>6 DEF RefreshLock
  <2> HIDE DEF r
  <2> QED  BY <2>1, <2>2, <2>3, QuietStep
<1>7. ASSUME NEW a \in Api, NEW s \in Session, LogoutLock(a, s) PROVE Base'
  <2> DEFINE r == [Idle EXCEPT !.pc = "logout", !.sid = s]
  <2>1. r \in Request /\ r.pc = "logout" /\ r.sid = s
    BY IdleTyped DEF Request, Idle
  <2> QED  BY <1>7, <2>1, QuietStep DEF LogoutLock
<1>8. ASSUME NEW a \in Api, LogoutCommit(a) PROVE Base'
  <2> DEFINE s == req[a].sid  S == LogoutRows(s)
  <2>1. /\ req' \in [Api -> Request] /\ req'[a].pc = "idle"
        /\ \A b \in Api \ {a} : req'[b] = req[b]
    BY <1>8, DoneRequest DEF LogoutCommit
  <2>2. s \in Session  BY <1>8 DEF LogoutCommit, Named
  <2>3. ASSUME NEW b \in Api, Refreshing(b) PROVE Refresh(req[b].sid) \notin S
    <3>1. req[b].sid \in Session  BY <2>3 DEF Named, Refreshing
    <3>2. req[b].sid # s  BY <1>8, <2>2, <2>3, LockedRefresh DEF LogoutCommit
    <3> QED  BY <2>2, <3>1, <3>2, RowFacts DEF LogoutRows
  <2>4. token' = Revoked(S) /\ UNCHANGED <<user, password, from, root, late>>
        /\ ended' = ended \cup {Access(s), Refresh(s)}
    BY <1>8 DEF LogoutCommit
  <2> HIDE DEF S
  <2>5. TypeOK'  BY <2>1, <2>2, <2>4, RevokedRows, RowFacts DEF TypeOK, Request
  <2>6. Pairs'  BY <2>4, RevokedRows, RowFacts DEF Pairs, TypeOK
  <2>7. ASSUME NEW b \in Api, Refreshing(b)'
        PROVE  /\ Refreshing(b) /\ req'[b].sid = req[b].sid
               /\ token'[Refresh(req[b].sid)] = "active"
    <3>1. Refreshing(b) /\ req'[b].sid = req[b].sid
      BY <2>1, <2>7 DEF Refreshing
    <3>2. Refresh(req[b].sid) \in Row  BY <3>1, RowFacts DEF Named, Refreshing
    <3> QED  BY <2>3, <2>4, <3>1, <3>2, RevokedRows DEF RowHeld
  <2> QED  BY <2>1, <2>5, <2>6, <2>7, RowsStep
<1>9. ASSUME NEW a \in Api, NEW s \in Session, NEW p \in Passwords,
             ChangeAuthenticate(a, s, p)
      PROVE  Base'
  <2> DEFINE r == [Idle EXCEPT !.pc = "authenticated", !.sid = s, !.old = p, !.task = "change"]
  <2>1. r \in Request /\ r.pc = "authenticated"
    BY IdleTyped DEF Request, Idle, Task, PasswordTask
  <2> QED  BY <1>9, <2>1, QuietStep DEF ChangeAuthenticate
<1>10. ASSUME NEW a \in Api, ChangeLock(a) PROVE Base'
  <2> DEFINE r == [req[a] EXCEPT !.pc = "write"]
  <2>1. r \in Request /\ r.pc = "write"  BY DEF TypeOK, Request
  <2> QED  BY <1>10, <2>1, QuietStep DEF ChangeLock, To
<1>11. ASSUME NEW a \in Api, NEW t \in Task, AdminLock(a, t) PROVE Base'
  <2> DEFINE r == [Idle EXCEPT !.pc = "write", !.task = t]
  <2>1. r \in Request /\ r.pc = "write"  BY IdleTyped DEF Request, Idle
  <2> QED  BY <1>11, <2>1, QuietStep DEF AdminLock
<1>12. ASSUME NEW a \in Api, RevokeStart(a) PROVE Base'
  <2> DEFINE D == {x \in Row : token[x] # "none"} \ {Access(req[a].sid)}
             r == [req[a] EXCEPT !.pc = "revoke", !.picked = Picked(a), !.due = D]
  <2>1. Picked(a) \in SUBSET Row /\ D \in SUBSET Row  BY DEF Picked
  <2>2. r \in Request /\ r.pc = "revoke"
    <3> HIDE DEF D
    <3> QED  BY <2>1 DEF TypeOK, Request
  <2> QED  BY <1>12, <2>2, QuietStep DEF RevokeStart
<1>13. ASSUME NEW a \in Api, RevokeCommit(a), TypeOK',
              \A b \in Api : /\ req'[b].pc \in {req[b].pc, "idle"}
                             /\ req'[b].pc # "idle" => req'[b].sid = req[b].sid
       PROVE  Base'
  <2>1. token' = Revoked(req[a].picked)  BY <1>13 DEF RevokeCommit
  <2>2. Pairs'  BY <2>1, RevokedRows, RowFacts DEF Pairs, TypeOK
  <2>3. ASSUME NEW b \in Api, Refreshing(b)'
        PROVE  /\ Refreshing(b) /\ req'[b].sid = req[b].sid
               /\ token'[Refresh(req[b].sid)] = "active"
    <3>1. Refreshing(b) /\ req'[b].sid = req[b].sid
      BY <1>13, <2>3 DEF Refreshing
    <3>2. req[b].sid \in Session  BY <3>1 DEF Named, Refreshing
    <3>3. Refresh(req[b].sid) \notin req[a].picked
      BY <1>13, <3>1, <3>2, LockedRefresh DEF RevokeCommit
    <3> QED  BY <2>1, <3>1, <3>2, <3>3, RevokedRows, RowFacts DEF RowHeld
  <2> QED  BY <1>13, <2>2, <2>3, RowsStep
<1>14. ASSUME NEW a \in Api, PasswordCommit(a) PROVE Base'
  <2>1. RevokeCommit(a) /\ password' = password + 1 /\ password < MaxPasswords /\ user' = user
    BY <1>14 DEF PasswordCommit
  <2>2. TypeOK'
    <3>1. req' \in [Api -> Request]  BY <1>14, MarkedRequests
    <3>2. password' \in Passwords
      BY <2>1, SessionsAssumption DEF TypeOK, Passwords
    <3>3. ended' \in SUBSET Row /\ UNCHANGED <<from, root, late>>
          /\ token' = Revoked(req[a].picked)
      BY <2>1 DEF RevokeCommit, TypeOK
    <3> QED  BY <2>1, <3>1, <3>2, <3>3, RevokedRows DEF TypeOK, Request
  <2>3. \A b \in Api : /\ req'[b].pc \in {req[b].pc, "idle"}
                       /\ req'[b].pc # "idle" => req'[b].sid = req[b].sid
    BY <1>14, MarkedRequests
  <2> QED  BY <1>13, <2>1, <2>2, <2>3
<1>15. ASSUME NEW a \in Api, RemovalCommit(a) PROVE Base'
  <2>1. /\ req' \in [Api -> Request] /\ req'[a].pc = "idle"
        /\ \A b \in Api \ {a} : req'[b] = req[b]
    BY <1>15, DoneRequest DEF RemovalCommit
  <2>2. RevokeCommit(a) /\ password' = password /\ user' \in {"disabled", "deleted"}
    BY <1>15 DEF RemovalCommit
  <2>3. TypeOK'
    <3>1. ended' \in SUBSET Row /\ UNCHANGED <<from, root, late>>
          /\ token' = Revoked(req[a].picked)
      BY <2>2 DEF RevokeCommit, TypeOK
    <3> QED  BY <2>1, <2>2, <3>1, RevokedRows DEF TypeOK, Request
  <2> QED  BY <1>13, <2>1, <2>2, <2>3
<1>16. ASSUME NEW a \in Api, Abort(a) PROVE Base'
  <2>1. Idle \in Request /\ Idle.pc = "idle"  BY IdleTyped DEF Idle
  <2>2. Go(a, Idle)  BY <1>16 DEF Abort, Done, Go
  <2> QED  BY <1>16, <2>1, <2>2, QuietStep DEF Abort
<1>17. ASSUME NEW status \in {"active", "locked"}, SetStatus(status) PROVE Base'
  BY <1>17 DEF SetStatus, TypeOK, Named, Pairs, RowHeld, Refreshing, rows, history
<1>18. ASSUME UnlockUser PROVE Base'
  BY <1>18 DEF UnlockUser, TypeOK, Named, Pairs, RowHeld, Refreshing, rows, history
<1>19. CASE UNCHANGED vars
  BY <1>19 DEF vars, TypeOK, Named, Pairs, RowHeld, Refreshing, rows, history
<1> QED
  BY <1>1, <1>2, <1>3, <1>4, <1>5, <1>6, <1>7, <1>8, <1>9, <1>10, <1>11, <1>12, <1>14,
     <1>15, <1>16, <1>17, <1>18, <1>19, StepCases

LEMMA Spec_Base == Spec => []Base
<1> QED  BY InitBase, StepBase, PTL DEF Spec

(* The variables of Sessions keep their types.                             *)
THEOREM SessionsTypeCorrect == Spec => []TypeOK
<1>1. Base => TypeOK  BY DEF Base
<1> QED  BY <1>1, Spec_Base, PTL

---------------------------------------------------------------------------
(* Rows only move on: a row that exists stays, one that is used or revoked *)
(* stays as it is.                                                         *)
MovesOn ==
  \A r \in Row : /\ token[r] # "none" => token'[r] # "none"
                 /\ token[r] \in {"used", "revoked"} => token'[r] = token[r]

LEMMA StepMovesOn == Base /\ [Next]_vars => MovesOn
<1> SUFFICES ASSUME Base, [Next]_vars PROVE MovesOn  OBVIOUS
<1> USE DEF Base
<1>1. ASSUME NEW a \in Api, NEW n \in Session, LoginCommit(a, n) PROVE MovesOn
  <2>1. token[Access(n)] = "none" /\ token[Refresh(n)] = "none"
    BY <1>1 DEF LoginCommit, Issued, Pairs
  <2>2. token' = Insert(token, n)  BY <1>1 DEF LoginCommit
  <2> QED  BY <2>1, <2>2, InsertedRows DEF MovesOn
<1>2. ASSUME NEW a \in Api, NEW n \in Session, RefreshCommit(a, n) PROVE MovesOn
  <2> DEFINE s == req[a].sid
  <2>1. s \in Session /\ token[Refresh(s)] = "active"
    BY <1>2 DEF RefreshCommit, Refreshing, Named, RowHeld
  <2>2. token[Access(n)] = "none" /\ token[Refresh(n)] = "none" /\ n # s
    BY <1>2, <2>1 DEF RefreshCommit, Issued, Pairs
  <2>3. token' = MarkUsed(Insert(token, n), s)  BY <1>2 DEF RefreshCommit
  <2> QED  BY <2>1, <2>2, <2>3, UsedRows DEF MovesOn
<1>3. ASSUME NEW S, token' = Revoked(S) PROVE MovesOn
  BY <1>3, RevokedRows DEF MovesOn, TypeOK
<1>4. ASSUME NEW a \in Api, LogoutCommit(a) PROVE MovesOn
  BY <1>3, <1>4 DEF LogoutCommit
<1>5. ASSUME NEW a \in Api, PasswordCommit(a) \/ RemovalCommit(a) PROVE MovesOn
  BY <1>3, <1>5 DEF PasswordCommit, RemovalCommit, RevokeCommit
<1>6. ASSUME UNCHANGED token PROVE MovesOn
  BY <1>6 DEF MovesOn
<1>7. CASE Next
  <2>1. ASSUME NEW a \in Api,
               LoginVerify(a) \/ LoginLoad(a) \/ RefreshLoad(a) \/ ChangeLock(a)
               \/ RevokeStart(a) \/ Abort(a)
        PROVE  UNCHANGED token
    BY <2>1 DEF LoginVerify, LoginLoad, RefreshLoad, ChangeLock, RevokeStart, Abort, rows
  <2>2. ASSUME NEW a \in Api, NEW s \in Session, RefreshLock(a, s) \/ LogoutLock(a, s)
        PROVE  UNCHANGED token
    BY <2>2 DEF RefreshLock, LogoutLock, rows
  <2>3. ASSUME NEW a \in Api, NEW s \in Session, NEW p \in Passwords, ChangeAuthenticate(a, s, p)
        PROVE  UNCHANGED token
    BY <2>3 DEF ChangeAuthenticate, rows
  <2>4. ASSUME NEW a \in Api, NEW t \in Task, AdminLock(a, t) PROVE UNCHANGED token
    BY <2>4 DEF AdminLock, rows
  <2>5. ASSUME NEW st \in {"active", "locked"}, SetStatus(st) PROVE UNCHANGED token
    BY <2>5 DEF SetStatus, rows
  <2>6. ASSUME UnlockUser PROVE UNCHANGED token
    BY <2>6 DEF UnlockUser, rows
  <2> QED  BY <1>1, <1>2, <1>4, <1>5, <1>6, <1>7, <2>1, <2>2, <2>3, <2>4, <2>5, <2>6, StepCases
<1> QED  BY <1>6, <1>7 DEF vars, rows

(* A token that is used or revoked stays what it is.                       *)
THEOREM TokensFinal == Spec => Final
<1>1. Base /\ [Next]_vars
        => [\A r \in Row : token[r] \in {"used", "revoked"} => token'[r] = token[r]]_vars
  BY StepMovesOn DEF MovesOn
<1> QED  BY <1>1, Spec_Base, PTL DEF Spec, Final

---------------------------------------------------------------------------
(* Rotation.                                                               *)

LEMMA StepRotated == Base /\ RotatedOnce /\ [Next]_vars => RotatedOnce'
<1> SUFFICES ASSUME Base, RotatedOnce, [Next]_vars PROVE RotatedOnce'  OBVIOUS
<1> USE DEF Base
<1>1. MovesOn  BY StepMovesOn
<1>2. ASSUME NEW a \in Api, NEW n \in Session, RefreshCommit(a, n) PROVE RotatedOnce'
  <2> DEFINE s == req[a].sid
  <2>1. s \in Session /\ token[Refresh(s)] = "active"
    BY <1>2 DEF RefreshCommit, Refreshing, Named, RowHeld
  <2>2. token[Refresh(n)] = "none" /\ n # s
    BY <1>2, <2>1 DEF RefreshCommit, Issued, Pairs
  <2>3. token' = MarkUsed(Insert(token, n), s) /\ from' = [from EXCEPT ![n] = s]
    BY <1>2 DEF RefreshCommit
  <2>4. token'[Refresh(s)] = "used"  BY <2>1, <2>2, <2>3, UsedRows
  <2>5. \A m \in Session \ {n} : from'[m] = from[m] /\ from[m] # s
    BY <2>1, <2>3, SessionsAssumption DEF RotatedOnce, TypeOK
  <2>6. from'[n] = s  BY <2>3 DEF TypeOK
  <2>7. ASSUME NEW m \in Session, from'[m] # NoSession PROVE token'[Refresh(from'[m])] = "used"
    <3>1. CASE m = n  BY <3>1, <2>4, <2>6
    <3>2. CASE m # n
      <4>1. from[m] \in Session /\ token[Refresh(from[m])] = "used"
        BY <2>5, <2>7, <3>2 DEF RotatedOnce, TypeOK
      <4> QED  BY <1>1, <2>5, <3>2, <4>1, RowFacts DEF MovesOn
    <3> QED  BY <3>1, <3>2
  <2>8. ASSUME NEW m \in Session, NEW k \in Session, from'[k] # NoSession, from'[m] = from'[k]
        PROVE  m = k
    BY <2>5, <2>6, <2>8 DEF RotatedOnce
  <2> QED  BY <2>7, <2>8 DEF RotatedOnce
<1>3. ASSUME UNCHANGED from PROVE RotatedOnce'
  <2>1. \A m \in Session : from[m] # NoSession => Refresh(from[m]) \in Row
    BY RowFacts DEF TypeOK
  <2> QED  BY <1>1, <1>3, <2>1 DEF RotatedOnce, MovesOn
<1>4. CASE Next
  <2>1. ASSUME NEW a \in Api,
               LoginVerify(a) \/ LoginLoad(a) \/ RefreshLoad(a) \/ LogoutCommit(a)
               \/ ChangeLock(a) \/ RevokeStart(a) \/ Abort(a)
        PROVE  UNCHANGED from
    BY <2>1 DEF LoginVerify, LoginLoad, RefreshLoad, LogoutCommit, ChangeLock, RevokeStart,
                Abort, rows
  <2>2. ASSUME NEW a \in Api, NEW s \in Session,
               LoginCommit(a, s) \/ RefreshLock(a, s) \/ LogoutLock(a, s)
        PROVE  UNCHANGED from
    BY <2>2 DEF LoginCommit, RefreshLock, LogoutLock, rows
  <2>3. ASSUME NEW a \in Api, NEW s \in Session, NEW p \in Passwords, ChangeAuthenticate(a, s, p)
        PROVE  UNCHANGED from
    BY <2>3 DEF ChangeAuthenticate, rows
  <2>4. ASSUME NEW a \in Api, NEW t \in Task, AdminLock(a, t) PROVE UNCHANGED from
    BY <2>4 DEF AdminLock, rows
  <2>5. ASSUME NEW a \in Api, PasswordCommit(a) \/ RemovalCommit(a) PROVE UNCHANGED from
    BY <2>5 DEF PasswordCommit, RemovalCommit, RevokeCommit
  <2>6. ASSUME NEW st \in {"active", "locked"}, SetStatus(st) PROVE UNCHANGED from
    BY <2>6 DEF SetStatus, rows
  <2>7. ASSUME UnlockUser PROVE UNCHANGED from
    BY <2>7 DEF UnlockUser, rows
  <2> QED  BY <1>2, <1>3, <1>4, <2>1, <2>2, <2>3, <2>4, <2>5, <2>6, <2>7, StepCases
<1> QED  BY <1>3, <1>4 DEF vars, rows

(* A refresh token is exchanged once, whatever requests present it.        *)
THEOREM RefreshOnce == Spec => []RotatedOnce
<1>1. Init => RotatedOnce  BY DEF Init, RotatedOnce
<1> QED  BY <1>1, StepRotated, Spec_Base, PTL DEF Spec

---------------------------------------------------------------------------
(* Revocation.  What a revocation owes is either picked or no longer       *)
(* active, from the moment its statement starts.                           *)
Owed ==
  /\ ended \subseteq Row
  /\ \A r \in ended : token[r] \in {"used", "revoked"}
  /\ \A a \in Api : req[a].pc = "logout" => token[Access(req[a].sid)] # "none"
  /\ \A a \in Api : req[a].pc = "revoke" =>
       \A r \in req[a].due : /\ token[r] # "none"
                             /\ r \in req[a].picked \/ token[r] # "active"

(* Steps that leave what is owed alone.                                    *)
LEMMA OwedKept ==
  ASSUME Base, Owed, MovesOn, UNCHANGED ended,
         \A a \in Api :
           /\ req'[a].pc = "logout" =>
                req[a].pc = "logout" /\ req'[a].sid = req[a].sid
           /\ req'[a].pc = "revoke" =>
                /\ req[a].pc = "revoke" /\ req'[a].due = req[a].due
                /\ req'[a].picked = req[a].picked
         , \A a \in Api, r \in Row :
             req[a].pc = "revoke" /\ token[r] # "none" /\ token[r] # "active" => token'[r] # "active"
  PROVE  Owed'
<1>1. \A r \in ended : token'[r] \in {"used", "revoked"}  BY DEF Owed, MovesOn
<1>2. ASSUME NEW a \in Api, req'[a].pc = "logout" PROVE token'[Access(req'[a].sid)] # "none"
  <2>1. Access(req[a].sid) \in Row  BY <1>2, RowFacts DEF Base, Named
  <2> QED  BY <1>2, <2>1 DEF Owed, MovesOn
<1>3. ASSUME NEW a \in Api, req'[a].pc = "revoke", NEW r \in req'[a].due
      PROVE  token'[r] # "none" /\ (r \in req'[a].picked \/ token'[r] # "active")
  <2>1. r \in Row /\ r \in req[a].due  BY <1>3 DEF Base, TypeOK
  <2> QED  BY <1>3, <2>1 DEF Owed, MovesOn
<1> QED  BY <1>1, <1>2, <1>3 DEF Owed

LEMMA StepOwed == Base /\ Owed /\ [Next]_vars => Owed'
<1> SUFFICES ASSUME Base, Owed, [Next]_vars PROVE Owed'  OBVIOUS
<1>1. MovesOn  BY StepMovesOn
<1>2. \A r \in Row : token[r] # "none" /\ token[r] # "active" => token'[r] # "active"
  BY <1>1 DEF MovesOn, Base, TypeOK
<1> USE DEF Base
<1>3. ASSUME NEW a \in Api, NEW r \in Request, Go(a, r), UNCHANGED <<token, ended>>,
             r.pc \notin {"logout", "revoke"}
      PROVE  Owed'
  <2>1. req'[a] = r /\ \A b \in Api \ {a} : req'[b] = req[b]  BY <1>3, OneRequest
  <2> QED  BY <1>1, <1>2, <1>3, <2>1, OwedKept
<1>4. ASSUME NEW a \in Api, Done(a), UNCHANGED ended PROVE Owed'
  <2>1. req'[a].pc = "idle" /\ \A b \in Api \ {a} : req'[b] = req[b]  BY <1>4, DoneRequest
  <2> QED  BY <1>1, <1>2, <1>4, <2>1, OwedKept
<1>5. ASSUME UNCHANGED <<req, ended>> PROVE Owed'
  BY <1>1, <1>2, <1>5, OwedKept
<1>6. ASSUME NEW a \in Api, LoginVerify(a) PROVE Owed'
  <2>1. password \in Passwords  BY DEF TypeOK
  <2> DEFINE r == [Idle EXCEPT !.pc = "verified", !.old = password]
  <2>2. r \in Request /\ r.pc = "verified"  BY <2>1, IdleTyped DEF Request, Idle
  <2>3. Go(a, r) /\ UNCHANGED <<token, ended>>  BY <1>6 DEF LoginVerify, rows, history
  <2> HIDE DEF r
  <2> QED  BY <1>3, <2>2, <2>3
<1>7. ASSUME NEW a \in Api, NEW pc \in {"loaded", "issue", "write"}, To(a, pc),
             UNCHANGED <<token, ended>>
      PROVE  Owed'
  <2> DEFINE r == [req[a] EXCEPT !.pc = pc]
  <2>1. r \in Request /\ r.pc = pc  BY DEF TypeOK, Request
  <2>2. Go(a, r)  BY <1>7 DEF To
  <2> HIDE DEF r
  <2> QED  BY <1>3, <1>7, <2>1, <2>2
<1>8. ASSUME NEW a \in Api, LoginLoad(a) \/ RefreshLoad(a) \/ ChangeLock(a) PROVE Owed'
  BY <1>7, <1>8 DEF LoginLoad, RefreshLoad, ChangeLock, rows, history
<1>9. ASSUME NEW a \in Api, NEW n \in Session, LoginCommit(a, n) \/ RefreshCommit(a, n)
      PROVE  Owed'
  BY <1>4, <1>9 DEF LoginCommit, RefreshCommit
<1>10. ASSUME NEW a \in Api, NEW s \in Session, RefreshLock(a, s) PROVE Owed'
  <2> DEFINE r == [Idle EXCEPT !.pc = "refresh", !.sid = s]
  <2>1. r \in Request /\ r.pc = "refresh"  BY IdleTyped DEF Request, Idle
  <2>2. Go(a, r) /\ UNCHANGED <<token, ended>>  BY <1>10 DEF RefreshLock, rows, history
  <2> HIDE DEF r
  <2> QED  BY <1>3, <2>1, <2>2
<1>11. ASSUME NEW a \in Api, NEW s \in Session, LogoutLock(a, s) PROVE Owed'
  <2> DEFINE r == [Idle EXCEPT !.pc = "logout", !.sid = s]
  <2>1. r \in Request /\ r.pc = "logout" /\ r.sid = s  BY IdleTyped DEF Request, Idle
  <2>2. Go(a, r) /\ UNCHANGED <<token, ended>> /\ token[Access(s)] # "none"
    BY <1>11 DEF LogoutLock, rows, history
  <2> HIDE DEF r
  <2>3. req'[a] = r /\ \A b \in Api \ {a} : req'[b] = req[b]  BY <2>1, <2>2, OneRequest
  <2> QED  BY <2>1, <2>2, <2>3 DEF Owed
<1>12. ASSUME NEW a \in Api, LogoutCommit(a) PROVE Owed'
  <2> DEFINE s == req[a].sid
  <2>1. req'[a].pc = "idle" /\ \A b \in Api \ {a} : req'[b] = req[b]
    BY <1>12, DoneRequest DEF LogoutCommit
  <2>2. s \in Session /\ token[Access(s)] # "none" /\ token[Refresh(s)] # "none"
    BY <1>12 DEF LogoutCommit, Named, Owed, Pairs
  <2>3. token' = Revoked({Access(s), Refresh(s)}) /\ ended' = ended \cup {Access(s), Refresh(s)}
    BY <1>12 DEF LogoutCommit, LogoutRows
  <2>4. /\ token'[Access(s)] \in {"used", "revoked"} /\ token'[Refresh(s)] \in {"used", "revoked"}
        /\ Access(s) \in Row /\ Refresh(s) \in Row
    BY <2>2, <2>3, RevokedRows, RowFacts DEF TypeOK
  <2>5. \A r \in ended : token'[r] \in {"used", "revoked"}  BY <1>1 DEF Owed, MovesOn
  <2>6. ASSUME NEW b \in Api, req'[b].pc = "logout" PROVE token'[Access(req'[b].sid)] # "none"
    <3>1. b # a /\ Access(req[b].sid) \in Row  BY <2>1, <2>6, RowFacts DEF Named
    <3> QED  BY <1>1, <2>1, <2>6, <3>1 DEF Owed, MovesOn
  <2>7. ASSUME NEW b \in Api, req'[b].pc = "revoke", NEW r \in req'[b].due
        PROVE  token'[r] # "none" /\ (r \in req'[b].picked \/ token'[r] # "active")
    <3>1. b # a /\ r \in Row /\ r \in req[b].due  BY <2>1, <2>7 DEF TypeOK
    <3> QED  BY <1>1, <1>2, <2>1, <2>7, <3>1 DEF Owed, MovesOn
  <2> QED  BY <2>3, <2>4, <2>5, <2>6, <2>7 DEF Owed
<1>13. ASSUME NEW a \in Api, NEW s \in Session, NEW p \in Passwords, ChangeAuthenticate(a, s, p)
       PROVE  Owed'
  <2> DEFINE r == [Idle EXCEPT !.pc = "authenticated", !.sid = s, !.old = p, !.task = "change"]
  <2>1. r \in Request /\ r.pc = "authenticated"
    BY IdleTyped DEF Request, Idle, Task, PasswordTask
  <2>2. Go(a, r) /\ UNCHANGED <<token, ended>>  BY <1>13 DEF ChangeAuthenticate, rows, history
  <2> HIDE DEF r
  <2> QED  BY <1>3, <2>1, <2>2
<1>14. ASSUME NEW a \in Api, NEW t \in Task, AdminLock(a, t) PROVE Owed'
  <2> DEFINE r == [Idle EXCEPT !.pc = "write", !.task = t]
  <2>1. r \in Request /\ r.pc = "write"  BY IdleTyped DEF Request, Idle
  <2>2. Go(a, r) /\ UNCHANGED <<token, ended>>  BY <1>14 DEF AdminLock, rows, history
  <2> HIDE DEF r
  <2> QED  BY <1>3, <2>1, <2>2
<1>15. ASSUME NEW a \in Api, RevokeStart(a) PROVE Owed'
  <2> DEFINE D == {x \in Row : token[x] # "none"} \ {Access(req[a].sid)}
             r == [req[a] EXCEPT !.pc = "revoke", !.picked = Picked(a), !.due = D]
  <2>1. Picked(a) \in SUBSET Row /\ D \in SUBSET Row  BY DEF Picked
  <2>2. /\ r \in Request /\ r.pc = "revoke" /\ r.picked = Picked(a) /\ r.due = D
    <3> HIDE DEF D
    <3> QED  BY <2>1 DEF TypeOK, Request
  <2>3. \A x \in D : token[x] # "none" /\ (x \in Picked(a) \/ token[x] # "active")
    BY DEF Picked
  <2>4. Go(a, r) /\ UNCHANGED <<token, ended>>  BY <1>15 DEF RevokeStart, rows, history
  <2> HIDE DEF r, D
  <2>5. req'[a] = r /\ \A b \in Api \ {a} : req'[b] = req[b]  BY <2>2, <2>4, OneRequest
  <2> QED  BY <2>2, <2>3, <2>4, <2>5 DEF Owed
<1>16. ASSUME NEW a \in Api, RevokeCommit(a), req'[a].pc = "idle",
              \A b \in Api \ {a} :
                /\ req'[b].pc = req[b].pc
                /\ req[b].pc # "idle" => /\ req'[b].sid = req[b].sid /\ req'[b].due = req[b].due
                                         /\ req'[b].picked = req[b].picked
       PROVE  Owed'
  <2>1. token' = Revoked(req[a].picked) /\ ended' = ended \cup req[a].due /\ req[a].pc = "revoke"
    BY <1>16 DEF RevokeCommit
  <2>2. req[a].due \subseteq Row  BY DEF TypeOK
  <2>3. \A r \in req[a].due : token'[r] \in {"used", "revoked"}
    BY <2>1, <2>2, RevokedRows DEF Owed, TypeOK
  <2>4. \A r \in ended : token'[r] \in {"used", "revoked"}  BY <1>1 DEF Owed, MovesOn
  <2>5. ASSUME NEW b \in Api, req'[b].pc = "logout" PROVE token'[Access(req'[b].sid)] # "none"
    <3>1. b # a /\ req[b].pc = "logout" /\ req'[b].sid = req[b].sid  BY <1>16, <2>5
    <3>2. Access(req[b].sid) \in Row  BY <3>1, RowFacts DEF Named
    <3> QED  BY <1>1, <3>1, <3>2 DEF Owed, MovesOn
  <2>6. ASSUME NEW b \in Api, req'[b].pc = "revoke", NEW r \in req'[b].due
        PROVE  token'[r] # "none" /\ (r \in req'[b].picked \/ token'[r] # "active")
    <3>1. /\ b # a /\ req[b].pc = "revoke" /\ r \in req[b].due /\ r \in Row
          /\ req'[b].picked = req[b].picked
      BY <1>16, <2>6 DEF TypeOK
    <3> QED  BY <1>1, <1>2, <3>1 DEF Owed, MovesOn
  <2> QED  BY <2>1, <2>2, <2>3, <2>4, <2>5, <2>6 DEF Owed
<1>17. ASSUME NEW a \in Api, PasswordCommit(a) PROVE Owed'
  <2>1. RevokeCommit(a)  BY <1>17 DEF PasswordCommit
  <2> QED  BY <1>16, <1>17, <2>1, MarkedRequests
<1>18. ASSUME NEW a \in Api, RemovalCommit(a) PROVE Owed'
  <2>1. RevokeCommit(a) /\ Done(a)  BY <1>18 DEF RemovalCommit
  <2> QED  BY <1>16, <2>1, DoneRequest
<1>19. ASSUME NEW a \in Api, Abort(a) PROVE Owed'
  BY <1>4, <1>19 DEF Abort, history
<1>20. ASSUME NEW st \in {"active", "locked"}, SetStatus(st) PROVE Owed'
  BY <1>5, <1>20 DEF SetStatus, history
<1>21. ASSUME UnlockUser PROVE Owed'
  BY <1>5, <1>21 DEF UnlockUser, history
<1>22. CASE UNCHANGED vars
  BY <1>5, <1>22 DEF vars, history
<1> QED
  BY <1>6, <1>8, <1>9, <1>10, <1>11, <1>12, <1>13, <1>14, <1>15, <1>17, <1>18, <1>19, <1>20,
     <1>21, <1>22, StepCases

(* What a logout or a revocation had to end is not active afterwards.      *)
THEOREM RevocationsHold == Spec => []RevocationHolds
<1>1. Init => Owed
  <2> SUFFICES ASSUME Init PROVE Owed  OBVIOUS
  <2>1. \A a \in Api : req[a].pc = "idle"  BY DEF Init, Idle
  <2> QED  BY <2>1 DEF Init, Owed
<1>2. Owed => RevocationHolds  BY DEF Owed, RevocationHolds
<1> QED  BY <1>1, <1>2, StepOwed, Spec_Base, PTL DEF Spec

---------------------------------------------------------------------------
(* Passwords.  Outside late, sessions that can be refreshed go back to the *)
(* current password, and a password change under way has picked them all.  *)
Fresh ==
  /\ \A s \in Session : token[Refresh(s)] = "active" /\ s \notin late => root[s] = password
  /\ \A a \in Api : req[a].pc = "revoke" /\ req[a].task \in PasswordTask =>
       \A s \in Session : token[Refresh(s)] = "active" /\ s \notin late
                            => Refresh(s) \in req[a].picked
  /\ \A a \in Api : req[a].pc \in {"verified", "loaded"} => req[a].late \/ req[a].old = password

(* Steps that issue no session and begin no login or revocation.           *)
LEMMA FreshKept ==
  ASSUME Base, Fresh, UNCHANGED <<password, root, late>>,
         \A s \in Session : token'[Refresh(s)] = "active" => token[Refresh(s)] = "active",
         \A a \in Api :
           /\ req'[a].pc = "revoke" => req'[a] = req[a]
           /\ req'[a].pc \in {"verified", "loaded"} =>
                /\ req[a].pc \in {"verified", "loaded"}
                /\ req'[a].late = req[a].late /\ req'[a].old = req[a].old
  PROVE  Fresh'
BY DEF Fresh

LEMMA StepFresh == Base /\ Fresh /\ [Next]_vars => Fresh'
<1> SUFFICES ASSUME Base, Fresh, [Next]_vars PROVE Fresh'  OBVIOUS
<1> USE DEF Base
<1>1. ASSUME NEW a \in Api, NEW r \in Request, Go(a, r),
             UNCHANGED <<password, token, root, late>>, r.pc # "revoke",
             r.pc \in {"verified", "loaded"} => r.late \/ r.old = password
      PROVE  Fresh'
  <2>1. req'[a] = r /\ \A b \in Api \ {a} : req'[b] = req[b]  BY <1>1, OneRequest
  <2> QED  BY <1>1, <2>1 DEF Fresh
<1>2. ASSUME NEW a \in Api, Done(a), UNCHANGED <<password, root, late>>,
             \A s \in Session : token'[Refresh(s)] = "active" => token[Refresh(s)] = "active"
      PROVE  Fresh'
  <2>1. req'[a].pc = "idle" /\ \A b \in Api \ {a} : req'[b] = req[b]  BY <1>2, DoneRequest
  <2> QED  BY <1>2, <2>1, FreshKept
<1>3. ASSUME NEW S
      PROVE  \A s \in Session : Revoked(S)[Refresh(s)] = "active"
                                  => token[Refresh(s)] = "active" /\ Refresh(s) \notin S
  BY RevokedRows, RowFacts
<1>4. ASSUME NEW a \in Api, LoginVerify(a) PROVE Fresh'
  <2>1. password \in Passwords  BY DEF TypeOK
  <2> DEFINE r == [Idle EXCEPT !.pc = "verified", !.old = password]
  <2>2. r \in Request /\ r.pc = "verified" /\ r.old = password
    BY <2>1, IdleTyped DEF Request, Idle
  <2>3. Go(a, r) /\ UNCHANGED <<password, token, root, late>>
    BY <1>4 DEF LoginVerify, rows, history
  <2> HIDE DEF r
  <2> QED  BY <1>1, <2>2, <2>3
<1>5. ASSUME NEW a \in Api, LoginLoad(a) PROVE Fresh'
  <2> DEFINE r == [req[a] EXCEPT !.pc = "loaded"]
  <2>1. r \in Request /\ r.pc = "loaded" /\ r.late = req[a].late /\ r.old = req[a].old
    BY DEF TypeOK, Request
  <2>2. /\ Go(a, r) /\ UNCHANGED <<password, token, root, late>>
        /\ req[a].late \/ req[a].old = password
    BY <1>5 DEF LoginLoad, To, rows, history, Fresh
  <2> HIDE DEF r
  <2> QED  BY <1>1, <2>1, <2>2
<1>6. ASSUME NEW a \in Api, NEW pc \in {"issue", "write"}, To(a, pc),
             UNCHANGED <<password, token, root, late>>
      PROVE  Fresh'
  <2> DEFINE r == [req[a] EXCEPT !.pc = pc]
  <2>1. r \in Request /\ r.pc = pc  BY DEF TypeOK, Request
  <2>2. Go(a, r)  BY <1>6 DEF To
  <2> HIDE DEF r
  <2> QED  BY <1>1, <1>6, <2>1, <2>2
<1>7. ASSUME NEW a \in Api, RefreshLoad(a) \/ ChangeLock(a) PROVE Fresh'
  BY <1>6, <1>7 DEF RefreshLoad, ChangeLock, rows, history
<1>8. ASSUME NEW a \in Api, NEW n \in Session, LoginCommit(a, n) PROVE Fresh'
  <2>1. req'[a].pc = "idle" /\ \A b \in Api \ {a} : req'[b] = req[b]
    BY <1>8, DoneRequest DEF LoginCommit
  <2>2. /\ token' = Insert(token, n) /\ root' = [root EXCEPT ![n] = req[a].old]
        /\ UNCHANGED password
        /\ late' = IF req[a].late THEN late \cup {n} ELSE late
    BY <1>8 DEF LoginCommit
  <2>3. \A s \in Session \ {n} :
          token'[Refresh(s)] = token[Refresh(s)] /\ root'[s] = root[s]
    BY <2>2, InsertedRows, RowFacts DEF TypeOK
  <2>4. n \notin late' => root'[n] = password
    BY <1>8, <2>2 DEF LoginCommit, Fresh, TypeOK
  <2>5. \A b \in Api : ~(req[b].pc = "revoke" /\ req[b].task \in PasswordTask)
    BY <1>8 DEF LoginCommit, CredentialLocked, Holds
  <2> QED  BY <2>1, <2>2, <2>3, <2>4, <2>5 DEF Fresh
<1>9. ASSUME NEW a \in Api, NEW n \in Session, RefreshCommit(a, n) PROVE Fresh'
  <2> DEFINE s == req[a].sid
  <2>1. req'[a].pc = "idle" /\ \A b \in Api \ {a} : req'[b] = req[b]
    BY <1>9, DoneRequest DEF RefreshCommit
  <2>2. s \in Session /\ token[Refresh(s)] = "active"
    BY <1>9 DEF RefreshCommit, Refreshing, Named, RowHeld
  <2>3. token[Refresh(n)] = "none" /\ n # s
    BY <1>9, <2>2 DEF RefreshCommit, Issued, Pairs
  <2>4. /\ token' = MarkUsed(Insert(token, n), s) /\ root' = [root EXCEPT ![n] = root[s]]
        /\ UNCHANGED password
        /\ late' = IF s \in late \/ req[a].late \/ ChangeUnderWay THEN late \cup {n} ELSE late
    BY <1>9 DEF RefreshCommit
  <2>5. \A t \in Session \ {n, s} :
          token'[Refresh(t)] = token[Refresh(t)] /\ root'[t] = root[t]
    <3>1. ASSUME NEW t \in Session \ {n, s} PROVE token'[Refresh(t)] = token[Refresh(t)]
      <4>1. Refresh(t) \in Row \ {Access(n), Refresh(n), Refresh(s)}  BY <2>2, RowFacts
      <4> QED  BY <2>2, <2>3, <2>4, <4>1, UsedRows
    <3> QED  BY <2>4, <3>1 DEF TypeOK
  <2>6. token'[Refresh(s)] = "used"  BY <2>2, <2>3, <2>4, UsedRows
  <2>7. n \notin late' => root'[n] = password /\ ~ChangeUnderWay
    BY <2>2, <2>4 DEF Fresh, TypeOK
  <2>8. \A t \in Session : token'[Refresh(t)] = "active" /\ t \notin late' => root'[t] = password
    BY <2>2, <2>4, <2>5, <2>6, <2>7 DEF Fresh
  <2>9. ASSUME NEW b \in Api, req'[b].pc = "revoke", req'[b].task \in PasswordTask,
               NEW t \in Session, token'[Refresh(t)] = "active", t \notin late'
        PROVE  Refresh(t) \in req'[b].picked
    <3>1. b # a /\ req'[b] = req[b] /\ ChangeUnderWay  BY <2>1, <2>9 DEF ChangeUnderWay
    <3>2. t # n /\ t # s /\ t \notin late  BY <2>4, <2>6, <2>7, <2>9, <3>1
    <3> QED  BY <2>5, <2>9, <3>1, <3>2 DEF Fresh
  <2> QED  BY <2>1, <2>4, <2>8, <2>9 DEF Fresh
<1>10. ASSUME NEW a \in Api, NEW s \in Session, RefreshLock(a, s) PROVE Fresh'
  <2> DEFINE r == [Idle EXCEPT !.pc = "refresh", !.sid = s]
  <2>1. r \in Request /\ r.pc = "refresh"  BY IdleTyped DEF Request, Idle
  <2>2. Go(a, r) /\ UNCHANGED <<password, token, root, late>>
    BY <1>10 DEF RefreshLock, rows, history
  <2> HIDE DEF r
  <2> QED  BY <1>1, <2>1, <2>2
<1>11. ASSUME NEW a \in Api, NEW s \in Session, LogoutLock(a, s) PROVE Fresh'
  <2> DEFINE r == [Idle EXCEPT !.pc = "logout", !.sid = s]
  <2>1. r \in Request /\ r.pc = "logout"  BY IdleTyped DEF Request, Idle
  <2>2. Go(a, r) /\ UNCHANGED <<password, token, root, late>>
    BY <1>11 DEF LogoutLock, rows, history
  <2> HIDE DEF r
  <2> QED  BY <1>1, <2>1, <2>2
<1>12. ASSUME NEW a \in Api, LogoutCommit(a) PROVE Fresh'
  BY <1>2, <1>3, <1>12 DEF LogoutCommit
<1>13. ASSUME NEW a \in Api, NEW s \in Session, NEW p \in Passwords, ChangeAuthenticate(a, s, p)
       PROVE  Fresh'
  <2> DEFINE r == [Idle EXCEPT !.pc = "authenticated", !.sid = s, !.old = p, !.task = "change"]
  <2>1. r \in Request /\ r.pc = "authenticated"
    BY IdleTyped DEF Request, Idle, Task, PasswordTask
  <2>2. Go(a, r) /\ UNCHANGED <<password, token, root, late>>
    BY <1>13 DEF ChangeAuthenticate, rows, history
  <2> HIDE DEF r
  <2> QED  BY <1>1, <2>1, <2>2
<1>14. ASSUME NEW a \in Api, NEW t \in Task, AdminLock(a, t) PROVE Fresh'
  <2> DEFINE r == [Idle EXCEPT !.pc = "write", !.task = t]
  <2>1. r \in Request /\ r.pc = "write"  BY IdleTyped DEF Request, Idle
  <2>2. Go(a, r) /\ UNCHANGED <<password, token, root, late>>
    BY <1>14 DEF AdminLock, rows, history
  <2> HIDE DEF r
  <2> QED  BY <1>1, <2>1, <2>2
<1>15. ASSUME NEW a \in Api, RevokeStart(a) PROVE Fresh'
  <2> DEFINE D == {x \in Row : token[x] # "none"} \ {Access(req[a].sid)}
             r == [req[a] EXCEPT !.pc = "revoke", !.picked = Picked(a), !.due = D]
  <2>1. Picked(a) \in SUBSET Row /\ D \in SUBSET Row  BY DEF Picked
  <2>2. /\ r \in Request /\ r.pc = "revoke" /\ r.picked = Picked(a)
    <3> HIDE DEF D
    <3> QED  BY <2>1 DEF TypeOK, Request
  <2>3. \A s \in Session : token[Refresh(s)] = "active" => Refresh(s) \in Picked(a)
    BY RowFacts DEF Picked, Refresh, Access
  <2>4. Go(a, r) /\ UNCHANGED <<password, token, root, late>>
    BY <1>15 DEF RevokeStart, rows, history
  <2> HIDE DEF r, D
  <2>5. req'[a] = r /\ \A b \in Api \ {a} : req'[b] = req[b]  BY <2>2, <2>4, OneRequest
  <2> QED  BY <2>2, <2>3, <2>4, <2>5 DEF Fresh
<1>16. ASSUME NEW a \in Api, PasswordCommit(a) PROVE Fresh'
  <2>1. /\ req[a].pc = "revoke" /\ req[a].task \in PasswordTask
        /\ token' = Revoked(req[a].picked) /\ UNCHANGED <<root, late>>
    BY <1>16 DEF PasswordCommit, RevokeCommit
  <2>2. \A s \in Session : token'[Refresh(s)] = "active" => s \in late
    BY <1>3, <2>1 DEF Fresh
  <2>3. ASSUME NEW b \in Api, req'[b].pc \in {"verified", "loaded"} PROVE req'[b].late
    BY <1>16, <2>3, MarkedRequests
  <2> QED  BY <2>1, <2>2, <2>3 DEF Fresh
<1>17. ASSUME NEW a \in Api, RemovalCommit(a) PROVE Fresh'
  BY <1>2, <1>3, <1>17 DEF RemovalCommit, RevokeCommit
<1>18. ASSUME NEW a \in Api, Abort(a) PROVE Fresh'
  BY <1>2, <1>18 DEF Abort, rows, history
<1>19. ASSUME UNCHANGED <<password, rows, req, history>> PROVE Fresh'
  BY <1>19 DEF Fresh, rows, history
<1>20. ASSUME NEW st \in {"active", "locked"}, SetStatus(st) PROVE Fresh'
  BY <1>19, <1>20 DEF SetStatus
<1>21. ASSUME UnlockUser PROVE Fresh'
  BY <1>19, <1>21 DEF UnlockUser
<1>22. CASE UNCHANGED vars
  BY <1>19, <1>22 DEF vars
<1> QED
  BY <1>4, <1>5, <1>7, <1>8, <1>9, <1>10, <1>11, <1>12, <1>13, <1>14, <1>15, <1>16, <1>17,
     <1>18, <1>20, <1>21, <1>22, StepCases

(* Only a session whose request overlapped a password change can still be  *)
(* refreshed under an earlier password.                                    *)
THEOREM OldPasswordsEnd == Spec => []OldPasswordEnds
<1>1. Init => Fresh
  <2> SUFFICES ASSUME Init PROVE Fresh  OBVIOUS
  <2>1. \A a \in Api : req[a].pc = "idle"  BY DEF Init, Idle
  <2>2. \A s \in Session : token[Refresh(s)] = "none"  BY RowFacts DEF Init
  <2> QED  BY <2>1, <2>2 DEF Fresh
<1>2. Base /\ Fresh => OldPasswordEnds
  BY DEF Base, TypeOK, Passwords, Fresh, OldPasswordEnds
<1> QED  BY <1>1, <1>2, StepFresh, Spec_Base, PTL DEF Spec

=============================================================================
