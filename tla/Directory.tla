------------------------------ MODULE Directory ------------------------------
(***************************************************************************)
(* The administration of users, departments and role bindings.             *)
(*                                                                         *)
(* An administrator's request is one READ COMMITTED transaction.  It is    *)
(* cut where another request can come in between: after the checks, which  *)
(* lock nothing (pc = "checked"), and, where the first statement that      *)
(* writes picks the rows that it will end, after that one                  *)
(* (pc = "picked"): rows that another request inserts later are not among  *)
(* them.  Every request but an unlock updates the row of the enterprise    *)
(* (_bump_org_version first, _bump_permission_version last) and then holds *)
(* it until its commit.                                                    *)
(*                                                                         *)
(* Role rows are written by the setup only.  Passwords and tokens are in   *)
(* Sessions.                                                               *)
(***************************************************************************)
EXTENDS Naturals, FiniteSets, Sequences

CONSTANTS
  Users,
  Departments,
  Default,      \* the default department
  First,        \* the administrator that the setup created
  Staff,        \* users created since, before the behaviour starts
  GrantSets,    \* what one request may ask to be granted
  Requests,     \* requests, each handled once
  Setup,        \* who wrote the rows that are there at the start
  Anybody       \* stands for an actor whose scopes are not limited

ASSUME DirectoryAssumption ==
  /\ IsFiniteSet(Departments)
  /\ Default \in Departments /\ First \in Users \ Staff /\ Staff \subseteq Users
  /\ Setup \notin Requests /\ Anybody \notin Users

Roles  == {"system_admin", "department_admin", "employee"}
Scopes == {"enterprise"} \cup Departments

\* roles.scope_type: what a binding of the role must be limited to.
ScopesOf(role) == IF role = "department_admin" THEN Departments ELSE {"enterprise"}
Grants == {g \in [role : Roles, scope : Scopes] : g.scope \in ScopesOf(g.role)}

ASSUME GrantAssumption == GrantSets \subseteq SUBSET Grants

Writers    == Requests \cup {Setup}
MemberRow  == [user : Users, department : Departments, primary : BOOLEAN, by : Writers]
BindingRow == [user : Users, role : Roles, scope : Scopes, by : Writers]

VARIABLES
  user,        \* users.status
  department,  \* departments.status
  member,      \* the active rows of user_department_memberships
  binding,     \* the active rows of role_bindings
  version,     \* enterprises.permission_version
  req,         \* the request of each API process
  \* history: whether two requests overlapped, whether an administrator was
  \* locked, the requests that overlapped the end of a user or a department
  raced, locked, late

tables  == <<user, department, member, binding, version>>
history == <<raced, locked, late>>
vars    == <<tables, req, history>>

Kinds == {"create", "status", "delete", "unlock", "departments", "grant", "replace", "revoke",
          "new_department", "patch_department", "delete_department"}

\* Departments of a user, the primary one first.
Lists == {s \in UNION {[1..n -> Departments] : n \in 1..Cardinality(Departments)} :
            \A i, j \in DOMAIN s : s[i] = s[j] => i = j}

New == [pc |-> "new", kind |-> "unlock", by |-> Anybody, user |-> First, status |-> "active",
        list |-> <<Default>>, grants |-> {}, department |-> Default, members |-> {}, bindings |-> {}]

TypeOK ==
  /\ user \in [Users -> {"none", "active", "disabled", "locked", "deleted"}]
  /\ department \in [Departments -> {"none", "active", "disabled", "deleted"}]
  /\ member \in SUBSET MemberRow
  /\ binding \in SUBSET BindingRow
  /\ version \in Nat
  /\ req \in [Requests -> [pc : {"new", "checked", "picked", "done"}, kind : Kinds,
                           by : Users \cup {Anybody}, user : Users,
                           status : {"active", "disabled", "locked"}, list : Lists,
                           grants : SUBSET Grants, department : Departments,
                           members : SUBSET MemberRow, bindings : SUBSET BindingRow]]
  /\ raced \in BOOLEAN /\ locked \in BOOLEAN /\ late \in SUBSET Requests

---------------------------------------------------------------------------
(* What the loaders and the access checks read.                            *)

Exists(u)       == user[u] \notin {"none", "deleted"}
MembersOf(u)    == {m \in member : m.user = u}
BindingsOf(u)   == {b \in binding : b.user = u}
InDepartment(d) == {m \in member : m.department = d}
HasRole(u, role) == \E b \in BindingsOf(u) : b.role = role

Admins == {u \in Users : user[u] = "active" /\ HasRole(u, "system_admin")}

SharesDepartment(a, u) == \E m \in MembersOf(a) : \E n \in MembersOf(u) : m.department = n.department
CanAccess(by, u) == by = Anybody \/ SharesDepartment(by, u)

\* Who may send a request that needs user:manage, and how far it reaches: a
\* department administrator is remembered, a system administrator may do all.
UserManagers ==
  {by \in Users \cup {Anybody} :
     \/ by = Anybody /\ Admins # {}
     \/ by # Anybody /\ user[by] = "active" /\ HasRole(by, "department_admin")
                     /\ ~HasRole(by, "system_admin")}

\* Org and role management needs scopes that only a system administrator has.
Unlimited == Admins # {}

\* _ensure_not_last_system_admin: a count, and nothing locked.
NotLastAdmin(u) == HasRole(u, "system_admin") => Cardinality(Admins) > 1

---------------------------------------------------------------------------
(* The enterprise row, from the first bump of a request to its commit.     *)

OrgFirst == {"departments", "new_department", "patch_department", "delete_department"}
BumpsOrgFirst(r) == req[r].pc = "picked" /\ req[r].kind \in OrgFirst
EnterpriseFree(r) == \A q \in Requests \ {r} : ~BumpsOrgFirst(q)

UnderWay == {r \in Requests : req[r].pc \in {"checked", "picked"}}

\* The checks of request r pass; op is what it is going to do.
Checked(r, op) ==
  /\ req[r].pc = "new"
  /\ req' = [req EXCEPT ![r] = [op EXCEPT !.pc = "checked"]]
  /\ raced' = (raced \/ UnderWay # {})
  /\ UNCHANGED <<tables, locked, late>>

Finish(r) == req' = [req EXCEPT ![r] = [New EXCEPT !.pc = "done"]]
Bump == version' = version + 1

\* Request q ends the user or the department that other requests have read.
Ends(q) ==
  \/ req[q].kind \in {"delete", "delete_department"}
  \/ req[q].kind = "patch_department" /\ req[q].status = "disabled"
Overlapped(r) ==
  late \cup (IF Ends(r) THEN UnderWay \ {r} ELSE {})
       \cup (IF \E q \in Requests \ {r} : req[q].pc = "picked" /\ Ends(q) THEN {r} ELSE {})

\* The primary keys and unique indexes of a table are tested when a row enters.
NoClash(rows, fresh) ==
  \A m \in fresh : \A n \in rows \cup fresh :
    m.user = n.user /\ m # n => m.department # n.department /\ ~(m.primary /\ n.primary)
NoSecondBinding(rows, fresh) ==
  \A b \in fresh : \A c \in rows \cup fresh :
    b # c => <<b.user, b.role, b.scope>> # <<c.user, c.role, c.scope>>

Memberships(r, u, list) ==
  {[user |-> u, department |-> list[i], primary |-> (i = 1), by |-> r] : i \in DOMAIN list}
Bindings(r, u, grants) ==
  {[user |-> u, role |-> g.role, scope |-> g.scope, by |-> r] : g \in grants}

\* _insert_role_binding: a department that the binding is limited to is active.
ScopesExist(grants) == {g.scope : g \in grants} \subseteq {"enterprise"} \cup {d \in Departments : department[d] = "active"}
Resolved(list) == \A i \in DOMAIN list : department[list[i]] = "active"

---------------------------------------------------------------------------
(* Faulty variants of definitions below, each named for the definition it  *)
(* would replace: with it, TLC finds the property it breaks violated.      *)

CheckReplace_Variant(r, u, grants) ==
  /\ Unlimited /\ Exists(u)
  /\ Checked(r, [New EXCEPT !.kind = "replace", !.user = u, !.grants = grants])
DeleteUser_Variant(r) ==
  LET u == req[r].user IN
  /\ user' = [user EXCEPT ![u] = "deleted"]
  /\ member' = member \ req[r].members
  /\ Bump
  /\ UNCHANGED <<department, binding, locked>>
SetStatus_Variant(r) ==
  LET u == req[r].user IN
  /\ Exists(u) /\ CanAccess(req[r].by, u)
  /\ user' = [user EXCEPT ![u] = req[r].status]
  /\ IF req[r].status = "locked" THEN UNCHANGED version ELSE Bump
  /\ locked' = (locked \/ (u \in Admins /\ req[r].status = "locked"))
  /\ UNCHANGED <<department, member, binding>>

\* Faulty: rows of departments that are in the list already are kept.
ReplaceDepartments_Variant(r) ==
  LET kept  == {m \in MembersOf(req[r].user) : \E i \in DOMAIN req[r].list : m.department = req[r].list[i]}
      fresh == {m \in Memberships(r, req[r].user, req[r].list) : \A n \in kept : n.department # m.department}
  IN /\ member' = ((member \ req[r].members) \cup kept) \cup fresh
     /\ Bump
     /\ UNCHANGED <<user, department, binding, locked>>

---------------------------------------------------------------------------
(* Checking, one operator per operation.                                   *)

CheckCreate(r, by, u, list, grants) ==
  /\ by \in UserManagers
  /\ user[u] = "none" /\ Resolved(list)
  /\ by = Anybody \/ \A i \in DOMAIN list : \E m \in MembersOf(by) : m.department = list[i]
  /\ by # Anybody => grants = {[role |-> "employee", scope |-> "enterprise"]}
  /\ grants # {} /\ \A g \in grants : g.scope = "enterprise"
  /\ Checked(r, [New EXCEPT !.kind = "create", !.by = by, !.user = u, !.list = list, !.grants = grants])

CheckStatus(r, by, u, status) ==
  /\ by \in UserManagers
  /\ Exists(u) /\ CanAccess(by, u)
  /\ status = "disabled" => NotLastAdmin(u)
  /\ Checked(r, [New EXCEPT !.kind = "status", !.by = by, !.user = u, !.status = status])

CheckDelete(r, by, u) ==
  /\ by \in UserManagers
  /\ Exists(u) /\ CanAccess(by, u) /\ NotLastAdmin(u)
  /\ Checked(r, [New EXCEPT !.kind = "delete", !.by = by, !.user = u])

CheckUnlock(r, by, u) ==
  /\ by \in UserManagers
  /\ Exists(u) /\ CanAccess(by, u)
  /\ Checked(r, [New EXCEPT !.kind = "unlock", !.by = by, !.user = u])

\* A list that is what the user has already is answered without a write.
CheckDepartments(r, u, list) ==
  /\ Unlimited
  /\ Exists(u) /\ Resolved(list)
  /\ ~(/\ {list[i] : i \in DOMAIN list} = {m.department : m \in MembersOf(u)}
       /\ \E m \in MembersOf(u) : m.primary /\ m.department = list[1])
  /\ Checked(r, [New EXCEPT !.kind = "departments", !.user = u, !.list = list])

CheckGrant(r, u, grants) ==
  /\ Unlimited /\ Exists(u) /\ grants # {}
  /\ Checked(r, [New EXCEPT !.kind = "grant", !.user = u, !.grants = grants])

CheckReplace(r, u, grants) ==
  /\ Unlimited /\ Exists(u) /\ NotLastAdmin(u)
  /\ Checked(r, [New EXCEPT !.kind = "replace", !.user = u, !.grants = grants])

CheckRevoke(r, b) ==
  /\ Unlimited
  /\ b.role = "system_admin" => NotLastAdmin(b.user)
  /\ Checked(r, [New EXCEPT !.kind = "revoke", !.user = b.user, !.bindings = {b}])

CheckNewDepartment(r, d) ==
  /\ Unlimited /\ department[d] = "none"
  /\ Checked(r, [New EXCEPT !.kind = "new_department", !.department = d])

CheckPatchDepartment(r, d, status) ==
  /\ Unlimited /\ department[d] \notin {"none", "deleted"}
  /\ d = Default => status # "disabled"
  /\ Checked(r, [New EXCEPT !.kind = "patch_department", !.department = d, !.status = status])

CheckDeleteDepartment(r, d) ==
  /\ Unlimited /\ department[d] \notin {"none", "deleted"}
  /\ d # Default /\ InDepartment(d) = {}
  /\ Checked(r, [New EXCEPT !.kind = "delete_department", !.department = d])

---------------------------------------------------------------------------
(* The statement that ends rows starts: it sees the rows committed by now. *)

MembersToEnd(r) ==
  CASE req[r].kind \in {"delete", "departments"} -> MembersOf(req[r].user)
    [] req[r].kind = "delete_department"         -> InDepartment(req[r].department)
    [] req[r].kind = "patch_department"          ->
         IF req[r].status = "disabled" THEN InDepartment(req[r].department) ELSE {}
    [] OTHER                                     -> {}
BindingsToEnd(r) ==
  CASE req[r].kind \in {"delete", "replace"} -> BindingsOf(req[r].user)
    [] OTHER                                 -> req[r].bindings

Pick(r) ==
  /\ req[r].pc = "checked"
  /\ req[r].kind \in OrgFirst => EnterpriseFree(r)
  /\ req' = [req EXCEPT ![r].pc = "picked", ![r].members = MembersToEnd(r),
                        ![r].bindings = BindingsToEnd(r)]
  /\ UNCHANGED <<tables, history>>

---------------------------------------------------------------------------
(* The rest of the transaction and its commit.                             *)

CreateUser(r) ==
  LET u == req[r].user  fresh == Memberships(r, u, req[r].list) IN
  /\ user[u] = "none"
  /\ user' = [user EXCEPT ![u] = "active"]
  /\ member' = member \cup fresh
  /\ binding' = binding \cup Bindings(r, u, req[r].grants)
  /\ req[r].by # Anybody =>
       \E m \in MembersOf(req[r].by) : \E n \in fresh : m.department = n.department
  /\ Bump
  /\ UNCHANGED <<department, locked>>

\* The update skips a deleted row; the user that is read afterwards is then
\* missing, or outside the reach of the actor, and the request fails.
SetStatus(r) ==
  LET u == req[r].user IN
  /\ Exists(u) /\ CanAccess(req[r].by, u)
  /\ user' = [user EXCEPT ![u] = req[r].status]
  /\ Bump
  /\ locked' = (locked \/ (u \in Admins /\ req[r].status = "locked"))
  /\ UNCHANGED <<department, member, binding>>

DeleteUser(r) ==
  LET u == req[r].user IN
  /\ user' = [user EXCEPT ![u] = "deleted"]
  /\ member' = member \ req[r].members
  /\ binding' = binding \ req[r].bindings
  /\ Bump
  /\ UNCHANGED <<department, locked>>

UnlockUser(r) ==
  LET u == req[r].user IN
  /\ user' = IF user[u] = "locked" THEN [user EXCEPT ![u] = "active"] ELSE user
  /\ UNCHANGED <<department, member, binding, version, locked>>

ReplaceDepartments(r) ==
  LET fresh == Memberships(r, req[r].user, req[r].list) IN
  /\ NoClash(member \ req[r].members, fresh)
  /\ member' = (member \ req[r].members) \cup fresh
  /\ Bump
  /\ UNCHANGED <<user, department, binding, locked>>

\* Granting and replacing insert the rows one by one.
InsertBindings(r, rows) ==
  LET fresh == Bindings(r, req[r].user, req[r].grants) IN
  /\ ScopesExist(req[r].grants)
  /\ NoSecondBinding(rows, fresh)
  /\ binding' = rows \cup fresh
  /\ Bump
  /\ UNCHANGED <<user, department, member, locked>>

GrantBindings(r)   == InsertBindings(r, binding)
ReplaceBindings(r) == InsertBindings(r, binding \ req[r].bindings)

RevokeBinding(r) ==
  /\ binding' = binding \ req[r].bindings
  /\ Bump
  /\ UNCHANGED <<user, department, member, locked>>

NewDepartment(r) ==
  /\ department[req[r].department] = "none"
  /\ department' = [department EXCEPT ![req[r].department] = "active"]
  /\ Bump
  /\ UNCHANGED <<user, member, binding, locked>>

PatchDepartment(r) ==
  LET d == req[r].department IN
  /\ department[d] # "deleted"
  /\ department' = [department EXCEPT ![d] = req[r].status]
  /\ member' = member \ req[r].members
  /\ Bump
  /\ UNCHANGED <<user, binding, locked>>

DeleteDepartment(r) ==
  /\ department' = [department EXCEPT ![req[r].department] = "deleted"]
  /\ member' = member \ req[r].members
  /\ Bump
  /\ UNCHANGED <<user, binding, locked>>

Write(r) ==
  \/ req[r].kind = "create"            /\ CreateUser(r)
  \/ req[r].kind = "status"            /\ SetStatus(r)
  \/ req[r].kind = "delete"            /\ DeleteUser(r)
  \/ req[r].kind = "unlock"            /\ UnlockUser(r)
  \/ req[r].kind = "departments"       /\ ReplaceDepartments(r)
  \/ req[r].kind = "grant"             /\ GrantBindings(r)
  \/ req[r].kind = "replace"           /\ ReplaceBindings(r)
  \/ req[r].kind = "revoke"            /\ RevokeBinding(r)
  \/ req[r].kind = "new_department"    /\ NewDepartment(r)
  \/ req[r].kind = "patch_department"  /\ PatchDepartment(r)
  \/ req[r].kind = "delete_department" /\ DeleteDepartment(r)

\* All but the unlock wait for the row of the enterprise.
Commit(r) ==
  /\ req[r].pc = "picked"
  /\ req[r].kind # "unlock" => EnterpriseFree(r)
  /\ Write(r)
  /\ late' = Overlapped(r)
  /\ Finish(r)
  /\ UNCHANGED raced

\* A check fails, a unique index, a deadlock or the database does: rolled back.
Abort(r) ==
  /\ req[r].pc \in {"checked", "picked"}
  /\ Finish(r)
  /\ UNCHANGED <<tables, history>>

---------------------------------------------------------------------------
Check(r) ==
  \/ \E by \in UserManagers, u \in Users :
       \/ \E list \in Lists, grants \in GrantSets : CheckCreate(r, by, u, list, grants)
       \/ \E status \in {"active", "disabled", "locked"} : CheckStatus(r, by, u, status)
       \/ CheckDelete(r, by, u)
       \/ CheckUnlock(r, by, u)
  \/ \E u \in Users :
       \/ \E list \in Lists : CheckDepartments(r, u, list)
       \/ \E grants \in GrantSets : CheckGrant(r, u, grants) \/ CheckReplace(r, u, grants)
  \/ \E b \in binding : CheckRevoke(r, b)
  \/ \E d \in Departments :
       \/ CheckNewDepartment(r, d)
       \/ \E status \in {"active", "disabled"} : CheckPatchDepartment(r, d, status)
       \/ CheckDeleteDepartment(r, d)

Next == \E r \in Requests : Check(r) \/ Pick(r) \/ Commit(r) \/ Abort(r)

\* The setup leaves one administrator; users and departments were created since.
Init ==
  /\ user = [u \in Users |-> IF u \in Staff \cup {First} THEN "active" ELSE "none"]
  /\ department \in {f \in [Departments -> {"none", "active"}] : f[Default] = "active"}
  /\ \E list \in [Staff -> {l \in Lists : Resolved(l)}],
        grants \in [Staff -> {g \in GrantSets : ScopesExist(g)}] :
       /\ member = Memberships(Setup, First, <<Default>>)
                     \cup UNION {Memberships(Setup, u, list[u]) : u \in Staff}
       /\ binding = Bindings(Setup, First, {[role |-> "system_admin", scope |-> "enterprise"]})
                      \cup UNION {Bindings(Setup, u, grants[u]) : u \in Staff}
  /\ version = 1
  /\ req = [r \in Requests |-> New]
  /\ raced = FALSE /\ locked = FALSE /\ late = {}

Spec == Init /\ [][Next]_vars

---------------------------------------------------------------------------
(* As long as requests come one after another and no administrator is      *)
(* locked by hand, somebody remains who may administer the system: no      *)
(* sequence of disabling, deleting, revoking and replacing goes round the  *)
(* count.  (Two requests that overlap each count the other's user.)        *)
AdminKept == ~raced /\ ~locked => Admins # {}

(* A row that outlives its user or its department, as an active membership *)
(* or role of somebody deleted or an active membership of a department     *)
(* that is closed, was written by a request that overlapped the one that   *)
(* ended the user or the department.                                       *)
OrphansAreLate ==
  /\ \A m \in member : user[m.user] = "deleted" \/ department[m.department] # "active" => m.by \in late
  /\ \A b \in binding : user[b.user] = "deleted" => b.by \in late

(* After a replacement of a user's departments the user has the declared   *)
(* ones and no other, the first as the primary one, whatever replacement   *)
(* or removal was under way; after a replacement of the roles the declared *)
(* roles, unless requests overlapped (nothing orders two of them).         *)
Succeeded(r, u, kind) ==
  /\ req[r].pc = "picked" /\ req[r].kind = kind /\ req[r].user = u
  /\ req'[r].pc = "done" /\ version' # version
AsDeclared ==
  [][\A r \in Requests, u \in Users :
       /\ Succeeded(r, u, "departments") =>
            {<<m.department, m.primary>> : m \in MembersOf(u)'}
              = {<<req[r].list[i], i = 1>> : i \in DOMAIN req[r].list}
       /\ Succeeded(r, u, "replace") /\ ~raced =>
            {<<b.role, b.scope>> : b \in BindingsOf(u)'}
              = {<<g.role, g.scope>> : g \in req[r].grants}]_vars

(* Whoever loses a role, a department or the account itself does so in a   *)
(* transaction that raises permission_version: a permission context loaded *)
(* before can be told from the current one.                                *)
Rights(u) ==
  IF user[u] # "active" THEN {}
  ELSE {<<b.role, b.scope>> : b \in BindingsOf(u)} \cup {<<m.department>> : m \in MembersOf(u)}
LossVersioned ==
  [][(\E u \in Users : ~(Rights(u) \subseteq Rights(u)')) => version' > version]_vars
=============================================================================
