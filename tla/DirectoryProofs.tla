---------------------------- MODULE DirectoryProofs ----------------------------
(***************************************************************************)
(* The administration of users, departments and roles, for every set of    *)
(* them and of requests: what remains true however requests overlap, and   *)
(* what does as long as they come one after another.                       *)
(***************************************************************************)
EXTENDS Directory, FiniteSetTheorems, TLAPS

RequestRow ==
  [pc : {"new", "checked", "picked", "done"}, kind : Kinds,
   by : Users \cup {Anybody}, user : Users, status : {"active", "disabled", "locked"},
   list : Lists, grants : SUBSET Grants, department : Departments,
   members : SUBSET MemberRow, bindings : SUBSET BindingRow]

(* A department is active or disabled by a patch.                          *)
Patches(q) == q.kind = "patch_department" => q.status # "locked"
Typed == TypeOK /\ \A r \in Requests : Patches(req[r])

(* The row of a request ends a user, or a department.                      *)
EndsUser(q) == q.kind = "delete"
EndsDepartment(q) == q.kind = "delete_department" \/ (q.kind = "patch_department" /\ q.status = "disabled")

(* What the checks have read when they pass.                               *)
Guarded(q) ==
  /\ q.kind \in {"delete", "replace"} \/ (q.kind = "status" /\ q.status = "disabled") => NotLastAdmin(q.user)
  /\ q.kind = "revoke" => \A b \in q.bindings :
       b \in binding /\ b.user = q.user /\ (b.role = "system_admin" => NotLastAdmin(q.user))
Found(q) ==
  /\ q.kind \in {"create", "departments"} => Resolved(q.list)
  /\ q.kind \in {"departments", "grant", "replace"} => Exists(q.user)
Fresh(q) ==
  /\ q.pc = "new" /\ q.members = {} /\ (q.kind # "revoke" => q.bindings = {})
  /\ Patches(q) /\ Guarded(q) /\ Found(q)

-----------------------------------------------------------------------------
(* The invariants.                                                         *)

(* While no two requests overlapped, one is under way at most, and what it *)
(* has read and picked is still there.                                     *)
Picked(q) ==
  /\ q.kind \in {"delete", "replace"} => \A b \in q.bindings : b.user = q.user
  /\ q.kind = "replace" => BindingsOf(q.user) \subseteq q.bindings
Alone ==
  ~raced => /\ \A r, q \in UnderWay : r = q
            /\ \A r \in UnderWay : Guarded(req[r]) /\ (req[r].pc = "picked" => Picked(req[r]))
AdminInv == Alone /\ AdminKept

(* A request whose checks are outdated is late; so is whoever wrote a row  *)
(* that an ending request has not picked.                                  *)
Outdated(q) ==
  \/ q.kind \in {"create", "departments"} /\ ~Resolved(q.list)
  \/ q.kind \in {"departments", "grant", "replace"} /\ user[q.user] = "deleted"
PickedAll(q) ==
  /\ EndsUser(q) => /\ \A m \in MembersOf(q.user) : m \in q.members \/ m.by \in late
                    /\ \A b \in BindingsOf(q.user) : b \in q.bindings \/ b.by \in late
  /\ EndsDepartment(q) => \A m \in InDepartment(q.department) : m \in q.members \/ m.by \in late
LateInv ==
  /\ OrphansAreLate
  /\ \A r \in UnderWay : (Outdated(req[r]) => r \in late) /\ (req[r].pc = "picked" => PickedAll(req[r]))

(* A replacement of departments that has picked its rows holds the row of  *)
(* the enterprise: nobody adds a membership before its commit.             *)
Held ==
  \A r \in Requests : req[r].pc = "picked" /\ req[r].kind = "departments" =>
    MembersOf(req[r].user) \subseteq req[r].members

IInv == Typed /\ AdminInv /\ LateInv /\ Held


-----------------------------------------------------------------------------
(* Requests and what their checks leave.                                   *)

LEMMA ListFacts ==
  ASSUME NEW s \in Lists
  PROVE  /\ 1 \in DOMAIN s
         /\ \A i \in DOMAIN s : s[i] \in Departments
         /\ \A i, j \in DOMAIN s : s[i] = s[j] => i = j
BY DEF Lists

LEMMA DefaultList == <<Default>> \in Lists
<1>1. Cardinality(Departments) \in Nat /\ Cardinality(Departments) # 0
  BY DirectoryAssumption, FS_EmptySet, FS_CardinalityType
<1>2. 1 \in 1..Cardinality(Departments)
  BY <1>1
<1>3. <<Default>> \in [1..1 -> Departments]
  BY DirectoryAssumption
<1>4. \A i, j \in DOMAIN <<Default>> : <<Default>>[i] = <<Default>>[j] => i = j
  OBVIOUS
<1> QED  BY <1>2, <1>3, <1>4 DEF Lists

LEMMA NewType == New \in RequestRow
BY DirectoryAssumption, DefaultList DEF New, RequestRow, Kinds

Done == [New EXCEPT !.pc = "done"]
LEMMA DoneType == Done \in RequestRow /\ Done.pc = "done"
BY NewType DEF Done, RequestRow

LEMMA RowType == TypeOK => req \in [Requests -> RequestRow]
BY DEF TypeOK, RequestRow

(* The fields that the checks set.                                         *)
LEMMA NewFields ==
  /\ New.pc = "new" /\ New.kind = "unlock" /\ New.by = Anybody /\ New.user = First /\ New.status = "active"
  /\ New.list = <<Default>> /\ New.grants = {} /\ New.department = Default
  /\ New.members = {} /\ New.bindings = {}
BY DEF New

LEMMA CheckStep ==
  ASSUME TypeOK, NEW r \in Requests, Check(r)
  PROVE  \E op \in RequestRow : Fresh(op) /\ Checked(r, op)
<1> USE NewType, NewFields DEF RequestRow
<1>1. ASSUME NEW by \in UserManagers, NEW u \in Users, NEW list \in Lists, NEW grants \in GrantSets,
             CheckCreate(r, by, u, list, grants)
      PROVE  \E op \in RequestRow : Fresh(op) /\ Checked(r, op)
  <2> DEFINE op == [New EXCEPT !.kind = "create", !.by = by, !.user = u, !.list = list, !.grants = grants]
  <2>1. op \in RequestRow
    BY GrantAssumption DEF UserManagers, Kinds
  <2>2. op.pc = "new" /\ op.kind = "create" /\ op.list = list /\ op.members = {} /\ op.bindings = {}
    OBVIOUS
  <2>3. Resolved(list) /\ Checked(r, op)
    BY <1>1 DEF CheckCreate
  <2> HIDE DEF op
  <2> QED  BY <2>1, <2>2, <2>3 DEF Fresh, Guarded, Found, Patches
<1>2. ASSUME NEW by \in UserManagers, NEW u \in Users, NEW status \in {"active", "disabled", "locked"},
             CheckStatus(r, by, u, status)
      PROVE  \E op \in RequestRow : Fresh(op) /\ Checked(r, op)
  <2> DEFINE op == [New EXCEPT !.kind = "status", !.by = by, !.user = u, !.status = status]
  <2>1. op \in RequestRow
    BY DEF UserManagers, Kinds
  <2>2. op.pc = "new" /\ op.kind = "status" /\ op.user = u /\ op.status = status
        /\ op.members = {} /\ op.bindings = {}
    OBVIOUS
  <2>3. (status = "disabled" => NotLastAdmin(u)) /\ Checked(r, op)
    BY <1>2 DEF CheckStatus
  <2> HIDE DEF op
  <2> QED  BY <2>1, <2>2, <2>3 DEF Fresh, Guarded, Found, Patches
<1>3. ASSUME NEW by \in UserManagers, NEW u \in Users, CheckDelete(r, by, u)
      PROVE  \E op \in RequestRow : Fresh(op) /\ Checked(r, op)
  <2> DEFINE op == [New EXCEPT !.kind = "delete", !.by = by, !.user = u]
  <2>1. op \in RequestRow
    BY DEF UserManagers, Kinds
  <2>2. op.pc = "new" /\ op.kind = "delete" /\ op.user = u /\ op.members = {} /\ op.bindings = {}
    OBVIOUS
  <2>3. NotLastAdmin(u) /\ Checked(r, op)
    BY <1>3 DEF CheckDelete
  <2> HIDE DEF op
  <2> QED  BY <2>1, <2>2, <2>3 DEF Fresh, Guarded, Found, Patches
<1>4. ASSUME NEW by \in UserManagers, NEW u \in Users, CheckUnlock(r, by, u)
      PROVE  \E op \in RequestRow : Fresh(op) /\ Checked(r, op)
  <2> DEFINE op == [New EXCEPT !.kind = "unlock", !.by = by, !.user = u]
  <2>1. op \in RequestRow
    BY DEF UserManagers, Kinds
  <2>2. op.pc = "new" /\ op.kind = "unlock" /\ op.members = {} /\ op.bindings = {}
    OBVIOUS
  <2>3. Checked(r, op)
    BY <1>4 DEF CheckUnlock
  <2> HIDE DEF op
  <2> QED  BY <2>1, <2>2, <2>3 DEF Fresh, Guarded, Found, Patches
<1>5. ASSUME NEW u \in Users, NEW list \in Lists, CheckDepartments(r, u, list)
      PROVE  \E op \in RequestRow : Fresh(op) /\ Checked(r, op)
  <2> DEFINE op == [New EXCEPT !.kind = "departments", !.user = u, !.list = list]
  <2>1. op \in RequestRow
    BY DEF Kinds
  <2>2. op.pc = "new" /\ op.kind = "departments" /\ op.user = u /\ op.list = list
        /\ op.members = {} /\ op.bindings = {}
    OBVIOUS
  <2>3. Exists(u) /\ Resolved(list) /\ Checked(r, op)
    BY <1>5 DEF CheckDepartments
  <2> HIDE DEF op
  <2> QED  BY <2>1, <2>2, <2>3 DEF Fresh, Guarded, Found, Patches
<1>6. ASSUME NEW u \in Users, NEW grants \in GrantSets, CheckGrant(r, u, grants)
      PROVE  \E op \in RequestRow : Fresh(op) /\ Checked(r, op)
  <2> DEFINE op == [New EXCEPT !.kind = "grant", !.user = u, !.grants = grants]
  <2>1. op \in RequestRow
    BY GrantAssumption DEF Kinds
  <2>2. op.pc = "new" /\ op.kind = "grant" /\ op.user = u /\ op.members = {} /\ op.bindings = {}
    OBVIOUS
  <2>3. Exists(u) /\ Checked(r, op)
    BY <1>6 DEF CheckGrant
  <2> HIDE DEF op
  <2> QED  BY <2>1, <2>2, <2>3 DEF Fresh, Guarded, Found, Patches
<1>7. ASSUME NEW u \in Users, NEW grants \in GrantSets, CheckReplace(r, u, grants)
      PROVE  \E op \in RequestRow : Fresh(op) /\ Checked(r, op)
  <2> DEFINE op == [New EXCEPT !.kind = "replace", !.user = u, !.grants = grants]
  <2>1. op \in RequestRow
    BY GrantAssumption DEF Kinds
  <2>2. op.pc = "new" /\ op.kind = "replace" /\ op.user = u /\ op.members = {} /\ op.bindings = {}
    OBVIOUS
  <2>3. Exists(u) /\ NotLastAdmin(u) /\ Checked(r, op)
    BY <1>7 DEF CheckReplace
  <2> HIDE DEF op
  <2> QED  BY <2>1, <2>2, <2>3 DEF Fresh, Guarded, Found, Patches
<1>8. ASSUME NEW b \in binding, CheckRevoke(r, b)
      PROVE  \E op \in RequestRow : Fresh(op) /\ Checked(r, op)
  <2> DEFINE op == [New EXCEPT !.kind = "revoke", !.user = b.user, !.bindings = {b}]
  <2>0. b \in BindingRow /\ b.user \in Users
    BY DEF TypeOK, BindingRow
  <2>1. op \in RequestRow
    BY <2>0 DEF Kinds
  <2>2. op.pc = "new" /\ op.kind = "revoke" /\ op.user = b.user /\ op.members = {} /\ op.bindings = {b}
    OBVIOUS
  <2>3. (b.role = "system_admin" => NotLastAdmin(b.user)) /\ Checked(r, op)
    BY <1>8 DEF CheckRevoke
  <2> HIDE DEF op
  <2> QED  BY <2>1, <2>2, <2>3 DEF Fresh, Guarded, Found, Patches
<1>9. ASSUME NEW d \in Departments, CheckNewDepartment(r, d)
      PROVE  \E op \in RequestRow : Fresh(op) /\ Checked(r, op)
  <2> DEFINE op == [New EXCEPT !.kind = "new_department", !.department = d]
  <2>1. op \in RequestRow
    BY DEF Kinds
  <2>2. op.pc = "new" /\ op.kind = "new_department" /\ op.members = {} /\ op.bindings = {}
    OBVIOUS
  <2>3. Checked(r, op)
    BY <1>9 DEF CheckNewDepartment
  <2> HIDE DEF op
  <2> QED  BY <2>1, <2>2, <2>3 DEF Fresh, Guarded, Found, Patches
<1>10. ASSUME NEW d \in Departments, NEW status \in {"active", "disabled"}, CheckPatchDepartment(r, d, status)
      PROVE  \E op \in RequestRow : Fresh(op) /\ Checked(r, op)
  <2> DEFINE op == [New EXCEPT !.kind = "patch_department", !.department = d, !.status = status]
  <2>1. op \in RequestRow
    BY DEF Kinds
  <2>2. op.pc = "new" /\ op.kind = "patch_department" /\ op.status = status /\ op.members = {} /\ op.bindings = {}
    OBVIOUS
  <2>3. Checked(r, op)
    BY <1>10 DEF CheckPatchDepartment
  <2> HIDE DEF op
  <2> QED  BY <2>1, <2>2, <2>3 DEF Fresh, Guarded, Found, Patches
<1>11. ASSUME NEW d \in Departments, CheckDeleteDepartment(r, d)
      PROVE  \E op \in RequestRow : Fresh(op) /\ Checked(r, op)
  <2> DEFINE op == [New EXCEPT !.kind = "delete_department", !.department = d]
  <2>1. op \in RequestRow
    BY DEF Kinds
  <2>2. op.pc = "new" /\ op.kind = "delete_department" /\ op.members = {} /\ op.bindings = {}
    OBVIOUS
  <2>3. Checked(r, op)
    BY <1>11 DEF CheckDeleteDepartment
  <2> HIDE DEF op
  <2> QED  BY <2>1, <2>2, <2>3 DEF Fresh, Guarded, Found, Patches
<1> QED
  BY <1>1, <1>2, <1>3, <1>4, <1>5, <1>6, <1>7, <1>8, <1>9, <1>10, <1>11 DEF Check


-----------------------------------------------------------------------------
(* Types.                                                                  *)

LEMMA MembershipType ==
  ASSUME NEW r \in Requests \cup {Setup}, NEW u \in Users, NEW list \in Lists
  PROVE  /\ Memberships(r, u, list) \subseteq MemberRow
         /\ \A m \in Memberships(r, u, list) : m.user = u /\ m.by = r /\ \E i \in DOMAIN list : m.department = list[i]
<1>1. \A i \in DOMAIN list : list[i] \in Departments
  BY ListFacts
<1>2. \A i \in DOMAIN list :
        LET m == [user |-> u, department |-> list[i], primary |-> (i = 1), by |-> r] IN
        m \in MemberRow /\ m.user = u /\ m.by = r /\ m.department = list[i]
  BY <1>1 DEF MemberRow, Writers
<1> QED  BY <1>2 DEF Memberships

LEMMA BindingType ==
  ASSUME NEW r \in Requests \cup {Setup}, NEW u \in Users, NEW grants \in SUBSET Grants
  PROVE  /\ Bindings(r, u, grants) \subseteq BindingRow
         /\ \A b \in Bindings(r, u, grants) : b.user = u /\ b.by = r
BY DEF Bindings, BindingRow, Writers, Grants, Scopes

LEMMA InitType == Init => Typed
<1> SUFFICES ASSUME Init PROVE Typed
  OBVIOUS
<1> PICK list \in [Staff -> {l \in Lists : Resolved(l)}],
         grants \in [Staff -> {g \in GrantSets : ScopesExist(g)}] :
       /\ member = Memberships(Setup, First, <<Default>>)
                     \cup UNION {Memberships(Setup, u, list[u]) : u \in Staff}
       /\ binding = Bindings(Setup, First, {[role |-> "system_admin", scope |-> "enterprise"]})
                      \cup UNION {Bindings(Setup, u, grants[u]) : u \in Staff}
  BY DEF Init
<1>1. First \in Users /\ Staff \subseteq Users
  BY DirectoryAssumption
<1>2. member \subseteq MemberRow
  <2>1. \A u \in Staff : list[u] \in Lists
    OBVIOUS
  <2>2. \A u \in Staff : Memberships(Setup, u, list[u]) \subseteq MemberRow
    BY <2>1, <1>1, MembershipType
  <2>3. Memberships(Setup, First, <<Default>>) \subseteq MemberRow
    BY <1>1, MembershipType, DefaultList
  <2> QED  BY <2>2, <2>3
<1>3. binding \subseteq BindingRow
  <2>1. \A u \in Staff : grants[u] \in SUBSET Grants
    BY GrantAssumption
  <2>2. \A u \in Staff : Bindings(Setup, u, grants[u]) \subseteq BindingRow
    BY <2>1, <1>1, BindingType
  <2>3. {[role |-> "system_admin", scope |-> "enterprise"]} \in SUBSET Grants
    BY DEF Grants, Roles, Scopes, ScopesOf
  <2>4. Bindings(Setup, First, {[role |-> "system_admin", scope |-> "enterprise"]}) \subseteq BindingRow
    BY <2>3, <1>1, BindingType
  <2> QED  BY <2>2, <2>4
<1>4. req \in [Requests -> RequestRow]
  BY NewType DEF Init
<1>5. \A r \in Requests : Patches(req[r])
  BY NewFields DEF Init, Patches
<1> QED  BY <1>2, <1>3, <1>4, <1>5 DEF Init, Typed, TypeOK, RequestRow

(* What the checks wrote down of a request.                                *)
SameWish(p, q) ==
  /\ p.kind = q.kind /\ p.by = q.by /\ p.user = q.user /\ p.status = q.status
  /\ p.list = q.list /\ p.grants = q.grants /\ p.department = q.department

LEMMA CheckedRow ==
  ASSUME TypeOK, NEW r \in Requests, NEW op \in RequestRow, Checked(r, op)
  PROVE  /\ req' \in [Requests -> RequestRow]
         /\ \A q \in Requests \ {r} : req'[q] = req[q]
         /\ req[r].pc = "new" /\ req'[r].pc = "checked"
         /\ req'[r].members = op.members /\ req'[r].bindings = op.bindings
         /\ SameWish(req'[r], op)
         /\ raced' = (raced \/ UnderWay # {})
         /\ UNCHANGED <<tables, locked, late>>
<1> DEFINE new == [op EXCEPT !.pc = "checked"]
<1>1. new \in RequestRow /\ new.pc = "checked" /\ new.members = op.members /\ new.bindings = op.bindings
      /\ SameWish(new, op)
  BY DEF RequestRow, SameWish
<1>2. req' = [req EXCEPT ![r] = new] /\ req \in [Requests -> RequestRow]
  BY RowType DEF Checked
<1> HIDE DEF new
<1> QED  BY <1>1, <1>2 DEF Checked

LEMMA CheckType == ASSUME Typed, NEW r \in Requests, Check(r) PROVE Typed'
<1>0. TypeOK
  BY DEF Typed
<1> PICK op \in RequestRow : Fresh(op) /\ Checked(r, op)
  BY <1>0, CheckStep
<1>1. Patches(req'[r])
  BY <1>0, CheckedRow DEF Fresh, Patches, SameWish
<1>2. raced' \in BOOLEAN
  BY <1>0, CheckedRow DEF TypeOK
<1>3. TypeOK'
  BY <1>0, <1>2, CheckedRow DEF TypeOK, RequestRow, tables
<1>4. \A q \in Requests : Patches(req'[q])
  BY <1>0, <1>1, CheckedRow DEF Typed, Patches
<1> QED  BY <1>3, <1>4 DEF Typed, Patches

LEMMA PickedRows ==
  ASSUME TypeOK, NEW r \in Requests
  PROVE  /\ MembersToEnd(r) \in SUBSET MemberRow /\ BindingsToEnd(r) \in SUBSET BindingRow
         /\ req[r].kind \in {"delete", "departments"} => MembersToEnd(r) = MembersOf(req[r].user)
         /\ EndsDepartment(req[r]) => MembersToEnd(r) = InDepartment(req[r].department)
         /\ req[r].kind \in {"delete", "replace"} => BindingsToEnd(r) = BindingsOf(req[r].user)
         /\ req[r].kind \notin {"delete", "replace"} => BindingsToEnd(r) = req[r].bindings
<1>1. req[r] \in RequestRow
  BY RowType
<1>2. /\ req[r].kind \in {"delete", "departments"} => MembersToEnd(r) = MembersOf(req[r].user)
      /\ EndsDepartment(req[r]) => MembersToEnd(r) = InDepartment(req[r].department)
      /\ MembersToEnd(r) \in {MembersOf(req[r].user), InDepartment(req[r].department), {}}
  BY DEF MembersToEnd, EndsDepartment
<1>3. /\ req[r].kind \in {"delete", "replace"} => BindingsToEnd(r) = BindingsOf(req[r].user)
      /\ req[r].kind \notin {"delete", "replace"} => BindingsToEnd(r) = req[r].bindings
  BY DEF BindingsToEnd
<1> QED  BY <1>1, <1>2, <1>3 DEF TypeOK, MembersOf, InDepartment, BindingsOf, RequestRow

LEMMA PickRow ==
  ASSUME TypeOK, NEW r \in Requests, Pick(r)
  PROVE  /\ req' \in [Requests -> RequestRow]
         /\ \A q \in Requests \ {r} : req'[q] = req[q]
         /\ req[r].pc = "checked" /\ req'[r].pc = "picked"
         /\ req'[r].members = MembersToEnd(r) /\ req'[r].bindings = BindingsToEnd(r)
         /\ SameWish(req'[r], req[r])
         /\ UNCHANGED <<tables, history>>
<1> DEFINE new == [req[r] EXCEPT !.pc = "picked", !.members = MembersToEnd(r), !.bindings = BindingsToEnd(r)]
<1>1. req \in [Requests -> RequestRow] /\ req[r] \in RequestRow
  BY RowType
<1>2. new \in RequestRow /\ new.pc = "picked" /\ new.members = MembersToEnd(r) /\ new.bindings = BindingsToEnd(r)
      /\ SameWish(new, req[r])
  BY <1>1, PickedRows DEF RequestRow, SameWish
<1>3. req' = [req EXCEPT ![r] = new]
  BY <1>1 DEF Pick
<1> HIDE DEF new
<1> QED  BY <1>1, <1>2, <1>3 DEF Pick

LEMMA PickType == ASSUME Typed, NEW r \in Requests, Pick(r) PROVE Typed'
<1>0. TypeOK
  BY DEF Typed
<1>1. \A q \in Requests : Patches(req'[q])
  BY <1>0, PickRow DEF Typed, Patches, SameWish
<1>2. TypeOK'
  BY <1>0, PickRow DEF TypeOK, RequestRow, tables, history
<1> QED  BY <1>1, <1>2 DEF Typed, Patches

LEMMA FinishType ==
  ASSUME TypeOK, NEW r \in Requests, Finish(r)
  PROVE  /\ req' \in [Requests -> RequestRow] /\ req'[r].pc = "done"
         /\ \A q \in Requests \ {r} : req'[q] = req[q]
BY DoneType, RowType DEF Finish, Done

LEMMA WriteType ==
  ASSUME Typed, NEW r \in Requests, Write(r)
  PROVE  /\ user' \in [Users -> {"none", "active", "disabled", "locked", "deleted"}]
         /\ department' \in [Departments -> {"none", "active", "disabled", "deleted"}]
         /\ member' \in SUBSET MemberRow /\ binding' \in SUBSET BindingRow
         /\ version' \in Nat /\ locked' \in BOOLEAN
<1> DEFINE q == req[r]
<1>0. TypeOK /\ Patches(q)
  BY DEF Typed
<1>1. /\ q.user \in Users /\ q.list \in Lists /\ q.grants \in SUBSET Grants /\ q.department \in Departments
      /\ q.status \in {"active", "disabled", "locked"}
  BY <1>0, RowType DEF RequestRow
<1>2. Memberships(r, q.user, q.list) \in SUBSET MemberRow /\ Bindings(r, q.user, q.grants) \in SUBSET BindingRow
  BY <1>1, MembershipType, BindingType
<1>3. CASE CreateUser(r)
  BY <1>1, <1>2, <1>0, <1>3 DEF CreateUser, Bump, TypeOK
<1>4. CASE SetStatus(r)
  BY <1>0, <1>1, <1>4 DEF SetStatus, Bump, TypeOK
<1>5. CASE DeleteUser(r) \/ UnlockUser(r)
  BY <1>0, <1>1, <1>5 DEF DeleteUser, UnlockUser, Bump, TypeOK
<1>6. CASE ReplaceDepartments(r) \/ GrantBindings(r) \/ ReplaceBindings(r) \/ RevokeBinding(r)
  BY <1>0, <1>2, <1>6 DEF ReplaceDepartments, GrantBindings, ReplaceBindings, InsertBindings, RevokeBinding, Bump, TypeOK
<1>7. CASE NewDepartment(r) \/ DeleteDepartment(r)
  BY <1>0, <1>1, <1>7 DEF NewDepartment, DeleteDepartment, Bump, TypeOK
<1>8. CASE q.kind = "patch_department" /\ PatchDepartment(r)
  BY <1>0, <1>1, <1>8 DEF PatchDepartment, Bump, Patches, TypeOK
<1> QED  BY <1>3, <1>4, <1>5, <1>6, <1>7, <1>8 DEF Write

LEMMA TypeStep == Typed /\ [Next]_vars => Typed'
<1> SUFFICES ASSUME Typed, [Next]_vars PROVE Typed'
  OBVIOUS
<1>0. TypeOK
  BY DEF Typed
<1>1. ASSUME NEW r \in Requests, Finish(r) PROVE \A q \in Requests : Patches(req'[q])
  BY <1>0, <1>1, DoneType, FinishType, NewFields DEF Typed, Patches, Finish, TypeOK
<1>2. ASSUME NEW r \in Requests, Commit(r) PROVE Typed'
  <2>1. Overlapped(r) \in SUBSET Requests
    BY <1>0 DEF Overlapped, UnderWay, TypeOK
  <2>2. Write(r) /\ Finish(r) /\ late' = Overlapped(r) /\ raced' = raced
    BY <1>2 DEF Commit
  <2>3. TypeOK'
    BY <1>0, <2>1, <2>2, WriteType, FinishType DEF TypeOK, RequestRow
  <2> QED  BY <1>1, <2>2, <2>3 DEF Typed, Patches
<1>3. ASSUME NEW r \in Requests, Abort(r) PROVE Typed'
  <2>1. Finish(r) /\ UNCHANGED <<tables, history>>
    BY <1>3 DEF Abort
  <2>2. TypeOK'
    BY <1>0, <2>1, FinishType DEF TypeOK, RequestRow, tables, history
  <2> QED  BY <1>1, <2>1, <2>2 DEF Typed, Patches
<1>4. CASE UNCHANGED vars
  BY <1>4 DEF Typed, TypeOK, Patches, vars, tables, history
<1> QED  BY <1>2, <1>3, <1>4, CheckType, PickType DEF Next


-----------------------------------------------------------------------------
(* One administrator remains.                                              *)

LEMMA Another ==
  ASSUME NEW u, NotLastAdmin(u), Admins # {}
  PROVE  \E a \in Admins : a # u
<1> SUFFICES ASSUME Admins = {u} PROVE FALSE
  OBVIOUS
<1>1. u \in Admins
  OBVIOUS
<1>2. HasRole(u, "system_admin")
  BY <1>1 DEF Admins
<1>3. Cardinality(Admins) > 1
  BY <1>2 DEF NotLastAdmin
<1>4. Cardinality(Admins) = 1
  BY FS_Singleton
<1> QED  BY <1>3, <1>4

LEMMA StillAdmin ==
  ASSUME NEW a \in Admins, user'[a] = "active", \A b \in BindingsOf(a) : b \in binding'
  PROVE  Admins' # {}
<1>1. PICK b \in BindingsOf(a) : b.role = "system_admin"
  BY DEF Admins, HasRole
<1>2. b \in binding' /\ b.user = a
  BY <1>1 DEF BindingsOf
<1> QED  BY <1>1, <1>2 DEF Admins, HasRole, BindingsOf

LEMMA WriteAdmin ==
  ASSUME Typed, NEW r \in Requests, Write(r), Guarded(req[r]), Picked(req[r]), ~locked', Admins # {}
  PROVE  Admins' # {}
<1> DEFINE q == req[r]
<1>0. /\ TypeOK /\ q \in RequestRow /\ q.user \in Users
      /\ \A a \in Admins : a \in Users /\ user[a] = "active"
  BY RowType DEF Typed, RequestRow, Admins
<1> PICK a \in Admins : TRUE
  OBVIOUS
<1>1. CASE q.kind = "create" /\ CreateUser(r)
  <2>1. user'[a] = "active" /\ binding \subseteq binding'
    BY <1>0, <1>1 DEF CreateUser, TypeOK
  <2> QED  BY <2>1, StillAdmin DEF BindingsOf
<1>2. CASE q.kind = "status" /\ SetStatus(r)
  <2>1. binding' = binding /\ user' = [user EXCEPT ![q.user] = q.status]
        /\ (q.user \in Admins => q.status # "locked")
    BY <1>2 DEF SetStatus
  <2>2. \E x \in Admins : user'[x] = "active"
    <3>1. CASE q.status = "disabled"
      <4>1. \E x \in Admins : x # q.user
        BY <1>2, <3>1, Another DEF Guarded
      <4> QED  BY <4>1, <2>1, <1>0 DEF TypeOK
    <3>2. CASE q.status = "locked"
      BY <3>2, <2>1, <1>0 DEF TypeOK
    <3>3. CASE q.status = "active"
      BY <3>3, <2>1, <1>0 DEF TypeOK
    <3> QED  BY <3>1, <3>2, <3>3, <1>0 DEF RequestRow
  <2> QED  BY <2>1, <2>2, StillAdmin DEF BindingsOf
<1>3. CASE q.kind \in {"delete", "replace"} /\ (DeleteUser(r) \/ ReplaceBindings(r))
  <2>1. PICK x \in Admins : x # q.user
    BY <1>3, Another DEF Guarded
  <2>2. user'[x] = "active"
    BY <1>0, <1>3, <2>1 DEF DeleteUser, ReplaceBindings, InsertBindings, TypeOK
  <2>3. binding \ q.bindings \subseteq binding'
    BY <1>3 DEF DeleteUser, ReplaceBindings, InsertBindings
  <2>4. \A b \in BindingsOf(x) : b \in binding'
    BY <1>3, <2>1, <2>3 DEF Picked, BindingsOf
  <2> QED  BY <2>2, <2>4, StillAdmin
<1>4. CASE q.kind = "revoke" /\ RevokeBinding(r)
  <2>1. user' = user /\ binding' = binding \ q.bindings
    BY <1>4 DEF RevokeBinding
  <2>2. CASE \E b \in q.bindings : b.role = "system_admin"
    <3>1. PICK x \in Admins : x # q.user
      BY <1>4, <2>2, Another DEF Guarded
    <3>2. \A b \in BindingsOf(x) : b \in binding'
      BY <1>4, <2>1, <3>1 DEF Guarded, BindingsOf
    <3> QED  BY <1>0, <2>1, <3>2, StillAdmin
  <2>3. CASE \A b \in q.bindings : b.role # "system_admin"
    BY <1>0, <2>1, <2>3 DEF Admins, HasRole, BindingsOf
  <2> QED  BY <2>2, <2>3
<1>5. CASE UnlockUser(r)
  <2>1. user'[a] = "active" /\ binding' = binding
    BY <1>0, <1>5 DEF UnlockUser, TypeOK
  <2> QED  BY <2>1, StillAdmin DEF BindingsOf
<1>6. CASE \/ ReplaceDepartments(r) \/ GrantBindings(r)
           \/ NewDepartment(r) \/ PatchDepartment(r) \/ DeleteDepartment(r)
  <2>1. user' = user /\ binding \subseteq binding'
    BY <1>6 DEF ReplaceDepartments, GrantBindings, InsertBindings, NewDepartment, PatchDepartment, DeleteDepartment
  <2> QED  BY <1>0, <2>1, StillAdmin DEF BindingsOf
<1> QED  BY <1>1, <1>2, <1>3, <1>4, <1>5, <1>6 DEF Write

(* Who is under way after a step.                                          *)
LEMMA Finished ==
  ASSUME TypeOK, NEW r \in Requests, Finish(r)
  PROVE  UnderWay' = UnderWay \ {r}
BY FinishType DEF UnderWay

LEMMA AloneFinish ==
  ASSUME Typed, Alone, NEW r \in UnderWay, Finish(r), raced' = raced
  PROVE  Alone'
<1>1. TypeOK /\ r \in Requests
  BY DEF Typed, UnderWay
<1>2. ~raced' => UnderWay' = {}
  BY <1>1, Finished DEF Alone
<1> QED  BY <1>2 DEF Alone

LEMMA AloneCheck == ASSUME Typed, Alone, NEW r \in Requests, Check(r) PROVE Alone'
<1>0. TypeOK
  BY DEF Typed
<1> PICK op \in RequestRow : Fresh(op) /\ Checked(r, op)
  BY <1>0, CheckStep
<1> SUFFICES ASSUME ~raced' PROVE Alone'
  BY DEF Alone
<1>a. UnderWay = {} /\ req'[r].pc = "checked" /\ \A q \in Requests \ {r} : req'[q] = req[q]
  BY <1>0, CheckedRow
<1>1. UnderWay = {} /\ UnderWay' = {r} /\ req'[r].pc = "checked"
  BY <1>a DEF UnderWay
<1>2. SameWish(req'[r], op) /\ req'[r].bindings = op.bindings /\ UNCHANGED <<user, binding>>
  BY <1>0, CheckedRow DEF tables
<1>3. Guarded(op)
  BY DEF Fresh
<1>4. Guarded(req[r])'
  BY <1>2, <1>3 DEF Guarded, SameWish, NotLastAdmin, HasRole, Admins, BindingsOf
<1> QED  BY <1>1, <1>4 DEF Alone

LEMMA AlonePick == ASSUME Typed, Alone, NEW r \in Requests, Pick(r) PROVE Alone'
<1>0. TypeOK /\ r \in UnderWay
  BY DEF Typed, Pick, UnderWay
<1> SUFFICES ASSUME ~raced' PROVE Alone'
  BY DEF Alone
<1>1. UnderWay = {r} /\ UnderWay' = {r}
  BY <1>0, PickRow DEF UnderWay, Alone, history
<1>2. SameWish(req'[r], req[r]) /\ req'[r].bindings = BindingsToEnd(r) /\ UNCHANGED <<user, binding>>
  BY <1>0, PickRow DEF tables
<1>3. Guarded(req[r])
  BY <1>0, PickRow DEF Alone, history
<1>4. Guarded(req[r])'
  <2>1. req[r].kind = "revoke" => req'[r].bindings = req[r].bindings
    BY <1>0, <1>2, PickedRows
  <2> QED  BY <1>2, <1>3, <2>1 DEF Guarded, SameWish, NotLastAdmin, HasRole, Admins, BindingsOf
<1>5. Picked(req[r])'
  BY <1>0, <1>2, PickedRows DEF Picked, SameWish, BindingsOf
<1> QED  BY <1>1, <1>4, <1>5 DEF Alone

LEMMA AdminStep == Typed /\ AdminInv /\ [Next]_vars => AdminInv'
<1> SUFFICES ASSUME Typed, Alone, AdminKept, [Next]_vars PROVE Alone' /\ AdminKept'
  BY DEF AdminInv
<1>0. TypeOK
  BY DEF Typed
<1>1. ASSUME UNCHANGED <<user, binding, locked>>, raced => raced' PROVE AdminKept'
  BY <1>1 DEF AdminKept, Admins, HasRole, BindingsOf
<1>2. ASSUME NEW r \in Requests, Check(r) PROVE Alone' /\ AdminKept'
  <2>1. PICK op \in RequestRow : Checked(r, op)
    BY <1>0, <1>2, CheckStep
  <2> QED  BY <1>1, <1>2, <2>1, AloneCheck DEF Checked, tables
<1>3. ASSUME NEW r \in Requests, Pick(r) PROVE Alone' /\ AdminKept'
  BY <1>1, <1>3, AlonePick DEF Pick, tables, history
<1>4. ASSUME NEW r \in Requests, Commit(r) PROVE Alone' /\ AdminKept'
  <2>1. r \in UnderWay /\ Finish(r) /\ raced' = raced /\ Write(r) /\ req[r].pc = "picked"
    BY <1>4 DEF Commit, UnderWay
  <2>2. ~raced => Guarded(req[r]) /\ Picked(req[r])
    BY <2>1 DEF Alone
  <2>3. ~locked' => ~locked
    BY <2>1 DEF Write, CreateUser, SetStatus, DeleteUser, UnlockUser, ReplaceDepartments, GrantBindings,
       ReplaceBindings, InsertBindings, RevokeBinding, NewDepartment, PatchDepartment, DeleteDepartment
  <2>4. AdminKept'
    BY <2>1, <2>2, <2>3, WriteAdmin DEF AdminKept
  <2> QED  BY <2>1, <2>4, AloneFinish
<1>5. ASSUME NEW r \in Requests, Abort(r) PROVE Alone' /\ AdminKept'
  <2>1. r \in UnderWay /\ Finish(r) /\ UNCHANGED <<tables, history>>
    BY <1>5 DEF Abort, UnderWay
  <2> QED  BY <1>1, <2>1, AloneFinish DEF tables, history
<1>6. CASE UNCHANGED vars
  <2>1. UNCHANGED <<user, binding, req, raced, locked>>
    BY <1>6 DEF vars, tables, history
  <2>2. Admins' = Admins /\ UnderWay' = UnderWay
    BY <2>1 DEF Admins, HasRole, BindingsOf, UnderWay
  <2>3. Alone'
    BY <2>1, <2>2 DEF Alone, Guarded, Picked, NotLastAdmin, HasRole, BindingsOf
  <2> QED  BY <1>1, <2>1, <2>3
<1> QED  BY <1>2, <1>3, <1>4, <1>5, <1>6 DEF Next


-----------------------------------------------------------------------------
(* Who left an orphan was late.                                            *)

LEMMA EndsAs == \A r : Ends(r) <=> EndsUser(req[r]) \/ EndsDepartment(req[r])
BY DEF Ends, EndsUser, EndsDepartment

(* What a commit adds, and what it takes away.                             *)
Adds(q, r) ==
  /\ \A m \in member' : m \in member \/ /\ q.kind \in {"create", "departments"} /\ m.by = r /\ m.user = q.user
                                        /\ \E i \in DOMAIN q.list : m.department = q.list[i]
  /\ \A b \in binding' : b \in binding \/ /\ q.kind \in {"create", "grant", "replace"} /\ b.by = r
                                          /\ b.user = q.user
Ended(q) ==
  /\ \A u \in Users : user'[u] = "deleted" =>
       /\ q.kind # "create" \/ u # q.user
       /\ user[u] = "deleted" \/ (EndsUser(q) /\ u = q.user)
  /\ \A d \in Departments : department'[d] # "active" =>
       department[d] # "active" \/ (EndsDepartment(q) /\ d = q.department)
  /\ EndsUser(q) => q.members \cap member' = {} /\ q.bindings \cap binding' = {}
  /\ EndsDepartment(q) => q.members \cap member' = {}

LEMMA WriteAdds == ASSUME Typed, NEW r \in Requests, Write(r) PROVE Adds(req[r], r)
<1> DEFINE q == req[r]
<1>1. q.user \in Users /\ q.list \in Lists /\ q.grants \in SUBSET Grants
  BY RowType DEF Typed, RequestRow
<1>2. \A m \in Memberships(r, q.user, q.list) :
        m.user = q.user /\ m.by = r /\ \E i \in DOMAIN q.list : m.department = q.list[i]
  BY <1>1, MembershipType
<1>3. \A b \in Bindings(r, q.user, q.grants) : b.user = q.user /\ b.by = r
  BY <1>1, BindingType
<1>4. CASE q.kind = "create" /\ CreateUser(r)
  BY <1>2, <1>3, <1>4 DEF CreateUser, Adds
<1>5. CASE q.kind = "departments" /\ ReplaceDepartments(r)
  BY <1>2, <1>5 DEF ReplaceDepartments, Adds
<1>6. CASE q.kind \in {"grant", "replace"} /\ (GrantBindings(r) \/ ReplaceBindings(r))
  BY <1>3, <1>6 DEF GrantBindings, ReplaceBindings, InsertBindings, Adds
<1>7. CASE \/ SetStatus(r) \/ DeleteUser(r) \/ UnlockUser(r) \/ RevokeBinding(r)
           \/ NewDepartment(r) \/ PatchDepartment(r) \/ DeleteDepartment(r)
  <2>1. member' \subseteq member /\ binding' \subseteq binding
    BY <1>7 DEF SetStatus, DeleteUser, UnlockUser, RevokeBinding, NewDepartment, PatchDepartment, DeleteDepartment
  <2> QED  BY <2>1 DEF Adds
<1> QED  BY <1>4, <1>5, <1>6, <1>7 DEF Write

LEMMA WriteEnds == ASSUME Typed, NEW r \in Requests, Write(r) PROVE Ended(req[r])
<1> DEFINE q == req[r]
<1>0. TypeOK /\ Patches(q)
  BY DEF Typed
<1>1. q.user \in Users /\ q.department \in Departments /\ q.status \in {"active", "disabled", "locked"}
  BY <1>0, RowType DEF RequestRow
<1>2. CASE q.kind = "create" /\ CreateUser(r)
  BY <1>0, <1>1, <1>2 DEF CreateUser, Ended, EndsUser, EndsDepartment, TypeOK
<1>3. CASE q.kind = "status" /\ SetStatus(r)
  BY <1>0, <1>1, <1>3 DEF SetStatus, Ended, EndsUser, EndsDepartment, TypeOK
<1>4. CASE q.kind = "delete" /\ DeleteUser(r)
  BY <1>0, <1>1, <1>4 DEF DeleteUser, Ended, EndsUser, EndsDepartment, TypeOK
<1>5. CASE q.kind = "unlock" /\ UnlockUser(r)
  BY <1>0, <1>1, <1>5 DEF UnlockUser, Ended, EndsUser, EndsDepartment, TypeOK
<1>6. CASE /\ q.kind \in {"departments", "grant", "replace", "revoke"}
           /\ ReplaceDepartments(r) \/ GrantBindings(r) \/ ReplaceBindings(r) \/ RevokeBinding(r)
  <2>1. user' = user /\ department' = department
    BY <1>6 DEF ReplaceDepartments, GrantBindings, ReplaceBindings, InsertBindings, RevokeBinding
  <2> QED  BY <1>6, <2>1 DEF Ended, EndsUser, EndsDepartment
<1>7. CASE q.kind = "new_department" /\ NewDepartment(r)
  BY <1>0, <1>1, <1>7 DEF NewDepartment, Ended, EndsUser, EndsDepartment, TypeOK
<1>8. CASE q.kind = "patch_department" /\ PatchDepartment(r)
  BY <1>0, <1>1, <1>8 DEF PatchDepartment, Ended, EndsUser, EndsDepartment, TypeOK, Patches
<1>9. CASE q.kind = "delete_department" /\ DeleteDepartment(r)
  BY <1>0, <1>1, <1>9 DEF DeleteDepartment, Ended, EndsUser, EndsDepartment, TypeOK
<1> QED  BY <1>2, <1>3, <1>4, <1>5, <1>6, <1>7, <1>8, <1>9 DEF Write

LEMMA OrphanCommit ==
  ASSUME Typed, LateInv, NEW r \in Requests, Commit(r)
  PROVE  OrphansAreLate'
<1> DEFINE q == req[r]
<1>1. /\ Adds(q, r) /\ Ended(q) /\ q \in RequestRow
      /\ r \in UnderWay /\ q.pc = "picked" /\ late \subseteq late'
      /\ member \subseteq MemberRow /\ binding \subseteq BindingRow
  BY RowType, WriteAdds, WriteEnds DEF Typed, TypeOK, Commit, UnderWay, Overlapped
<1>2. PickedAll(q) /\ (Outdated(q) => r \in late)
  BY <1>1 DEF LateInv
<1>3. ASSUME NEW m \in member', user'[m.user] = "deleted" \/ department'[m.department] # "active"
      PROVE  m.by \in late'
  <2>1. CASE m \in member
    <3>1. m.user \in Users /\ m.department \in Departments
      BY <1>1, <2>1 DEF MemberRow
    <3>2. CASE user[m.user] = "deleted" \/ department[m.department] # "active"
      BY <1>1, <2>1, <3>2 DEF LateInv, OrphansAreLate
    <3>3. CASE EndsUser(q) /\ m.user = q.user
      BY <1>1, <1>2, <2>1, <3>3 DEF PickedAll, Ended, MembersOf
    <3>4. CASE EndsDepartment(q) /\ m.department = q.department
      BY <1>1, <1>2, <2>1, <3>4 DEF PickedAll, Ended, InDepartment
    <3> QED  BY <1>1, <1>3, <3>1, <3>2, <3>3, <3>4 DEF Ended
  <2>2. CASE m \notin member
    <3>1. /\ q.kind \in {"create", "departments"} /\ m.by = r /\ m.user = q.user
          /\ \E i \in DOMAIN q.list : m.department = q.list[i]
      BY <1>1, <2>2 DEF Adds
    <3>2. m.user \in Users /\ m.department \in Departments
      BY <1>1, <3>1, ListFacts DEF RequestRow
    <3>3. CASE user'[m.user] = "deleted"
      <4>1. q.kind = "departments" /\ user[q.user] = "deleted"
        BY <1>1, <3>1, <3>2, <3>3 DEF Ended, EndsUser
      <4> QED  BY <1>1, <1>2, <3>1, <4>1 DEF Outdated
    <3>4. CASE department'[m.department] # "active"
      <4>1. department[m.department] # "active"
        BY <1>1, <3>1, <3>2, <3>4 DEF Ended, EndsDepartment
      <4>2. ~Resolved(q.list)
        BY <3>1, <4>1 DEF Resolved
      <4> QED  BY <1>1, <1>2, <3>1, <4>2 DEF Outdated
    <3> QED  BY <1>3, <3>3, <3>4
  <2> QED  BY <2>1, <2>2
<1>4. ASSUME NEW b \in binding', user'[b.user] = "deleted"
      PROVE  b.by \in late'
  <2>1. CASE b \in binding
    <3>1. b.user \in Users
      BY <1>1, <2>1 DEF BindingRow
    <3>2. CASE user[b.user] = "deleted"
      BY <1>1, <2>1, <3>2 DEF LateInv, OrphansAreLate
    <3>3. CASE EndsUser(q) /\ b.user = q.user
      BY <1>1, <1>2, <2>1, <3>3 DEF PickedAll, Ended, BindingsOf
    <3> QED  BY <1>1, <1>4, <3>1, <3>2, <3>3 DEF Ended
  <2>2. CASE b \notin binding
    <3>1. q.kind \in {"create", "grant", "replace"} /\ b.by = r /\ b.user = q.user /\ b.user \in Users
      BY <1>1, <2>2 DEF Adds, RequestRow
    <3>2. q.kind \in {"grant", "replace"} /\ user[q.user] = "deleted"
      BY <1>1, <1>4, <3>1 DEF Ended, EndsUser
    <3> QED  BY <1>1, <1>2, <3>1, <3>2 DEF Outdated
  <2> QED  BY <2>1, <2>2
<1> QED  BY <1>3, <1>4 DEF OrphansAreLate

LEMMA LateCommit ==
  ASSUME Typed, LateInv, NEW r \in Requests, Commit(r),
         NEW p \in Requests \ {r}, req[p].pc \in {"checked", "picked"}
  PROVE  /\ Outdated(req[p])' => p \in late'
         /\ req[p].pc = "picked" => PickedAll(req[p])'
<1> DEFINE q == req[r]
<1>1. /\ Adds(q, r) /\ Ended(q) /\ req'[p] = req[p] /\ req[p] \in RequestRow /\ p \in UnderWay
      /\ late' = Overlapped(r)
  BY RowType, WriteAdds, WriteEnds, FinishType DEF Typed, Commit, UnderWay
<1>2. /\ late \subseteq late'
      /\ EndsUser(q) \/ EndsDepartment(q) => p \in late'
      /\ req[p].pc = "picked" /\ (EndsUser(req[p]) \/ EndsDepartment(req[p])) => r \in late'
  BY <1>1, EndsAs DEF Overlapped
<1>3. (Outdated(req[p]) => p \in late) /\ (req[p].pc = "picked" => PickedAll(req[p]))
  BY <1>1 DEF LateInv
<1>4. ASSUME Outdated(req[p])' PROVE p \in late'
  <2>1. CASE req[p].kind \in {"create", "departments"} /\ ~Resolved(req[p].list)'
    <3>1. PICK i \in DOMAIN req[p].list : department'[req[p].list[i]] # "active"
      BY <1>1, <2>1 DEF Resolved
    <3>2. req[p].list[i] \in Departments
      BY <1>1, <3>1, ListFacts DEF RequestRow
    <3>3. department[req[p].list[i]] # "active" \/ EndsDepartment(q)
      BY <1>1, <3>1, <3>2 DEF Ended
    <3> QED  BY <1>2, <1>3, <2>1, <3>1, <3>3 DEF Outdated, Resolved
  <2>2. CASE req[p].kind \in {"departments", "grant", "replace"} /\ user'[req[p].user] = "deleted"
    <3>1. user[req[p].user] = "deleted" \/ EndsUser(q)
      BY <1>1, <2>2 DEF Ended, RequestRow
    <3> QED  BY <1>2, <1>3, <2>2, <3>1 DEF Outdated
  <2> QED  BY <1>1, <1>4, <2>1, <2>2 DEF Outdated
<1>5. ASSUME req[p].pc = "picked" PROVE PickedAll(req[p])'
  <2>1. ASSUME EndsUser(req[p]), NEW m \in MembersOf(req[p].user)' PROVE m \in req[p].members \/ m.by \in late'
    BY <1>1, <1>2, <1>3, <1>5, <2>1 DEF PickedAll, Adds, MembersOf
  <2>2. ASSUME EndsUser(req[p]), NEW b \in BindingsOf(req[p].user)' PROVE b \in req[p].bindings \/ b.by \in late'
    BY <1>1, <1>2, <1>3, <1>5, <2>2 DEF PickedAll, Adds, BindingsOf
  <2>3. ASSUME EndsDepartment(req[p]), NEW m \in InDepartment(req[p].department)'
        PROVE  m \in req[p].members \/ m.by \in late'
    BY <1>1, <1>2, <1>3, <1>5, <2>3 DEF PickedAll, Adds, InDepartment
  <2> QED  BY <1>1, <2>1, <2>2, <2>3 DEF PickedAll, EndsUser, EndsDepartment
<1> QED  BY <1>4, <1>5


LEMMA LateStep == Typed /\ LateInv /\ [Next]_vars => LateInv'
<1> SUFFICES ASSUME Typed, LateInv, [Next]_vars PROVE LateInv'
  OBVIOUS
<1>0. TypeOK
  BY DEF Typed
<1>1. ASSUME NEW r \in Requests, Commit(r) PROVE LateInv'
  <2>1. Finish(r)
    BY <1>1 DEF Commit
  <2>2. UnderWay' \subseteq {p \in Requests \ {r} : req[p].pc \in {"checked", "picked"} /\ req'[p] = req[p]}
    BY <1>0, <2>1, Finished, FinishType DEF UnderWay
  <2>3. \A p \in UnderWay' : (Outdated(req[p])' => p \in late') /\ (req'[p].pc = "picked" => PickedAll(req[p])')
    BY <1>1, <2>2, LateCommit
  <2> QED  BY <1>1, <2>3, OrphanCommit DEF LateInv
<1>2. ASSUME UNCHANGED <<tables, late>> PROVE OrphansAreLate'
  BY <1>2 DEF LateInv, OrphansAreLate, tables
<1>3. ASSUME UNCHANGED <<tables, late>>, NEW p \in UnderWay, req'[p] = req[p]
      PROVE  (Outdated(req[p])' => p \in late') /\ (req'[p].pc = "picked" => PickedAll(req[p])')
  BY <1>3 DEF LateInv, Outdated, PickedAll, Resolved, MembersOf, BindingsOf, InDepartment, EndsUser, EndsDepartment,
     tables
<1>4. ASSUME NEW r \in Requests, Check(r) PROVE LateInv'
  <2> PICK op \in RequestRow : Fresh(op) /\ Checked(r, op)
    BY <1>0, <1>4, CheckStep
  <2>1. UNCHANGED <<tables, late>> /\ req'[r].pc = "checked" /\ SameWish(req'[r], op)
        /\ \A p \in Requests \ {r} : req'[p] = req[p]
    BY <1>0, CheckedRow
  <2>2. ~Outdated(req[r])'
    BY <2>1 DEF Fresh, Found, Outdated, Resolved, Exists, SameWish, tables
  <2>3. \A p \in UnderWay' \ {r} : p \in UnderWay /\ req'[p] = req[p]
    BY <2>1 DEF UnderWay
  <2> QED  BY <1>2, <1>3, <2>1, <2>2, <2>3 DEF LateInv
<1>5. ASSUME NEW r \in Requests, Pick(r) PROVE LateInv'
  <2>1. /\ UNCHANGED <<tables, late>> /\ r \in UnderWay /\ SameWish(req'[r], req[r])
        /\ req'[r].members = MembersToEnd(r) /\ req'[r].bindings = BindingsToEnd(r)
        /\ \A p \in Requests \ {r} : req'[p] = req[p]
    BY <1>0, <1>5, PickRow DEF UnderWay, history
  <2>2. Outdated(req[r])' => r \in late'
    BY <2>1 DEF LateInv, Outdated, Resolved, SameWish, tables
  <2>3. PickedAll(req[r])'
    BY <1>0, <2>1, PickedRows DEF PickedAll, EndsUser, EndsDepartment, SameWish, MembersOf, BindingsOf, InDepartment,
       tables
  <2>4. \A p \in UnderWay' \ {r} : p \in UnderWay /\ req'[p] = req[p]
    BY <2>1 DEF UnderWay
  <2> QED  BY <1>2, <1>3, <2>1, <2>2, <2>3, <2>4 DEF LateInv
<1>6. ASSUME NEW r \in Requests, Abort(r) PROVE LateInv'
  <2>1. Finish(r) /\ UNCHANGED <<tables, late>>
    BY <1>6 DEF Abort, history
  <2>2. \A p \in UnderWay' : p \in UnderWay /\ req'[p] = req[p]
    BY <1>0, <2>1, Finished, FinishType DEF UnderWay
  <2> QED  BY <1>2, <1>3, <2>1, <2>2 DEF LateInv
<1>7. CASE UNCHANGED vars
  <2>1. UNCHANGED <<tables, late>> /\ UnderWay' = UnderWay /\ \A p \in UnderWay : req'[p] = req[p]
    BY <1>7 DEF vars, history, UnderWay
  <2> QED  BY <1>2, <1>3, <2>1 DEF LateInv
<1> QED  BY <1>1, <1>4, <1>5, <1>6, <1>7 DEF Next

-----------------------------------------------------------------------------
(* A replacement of departments holds the row of the enterprise.           *)

LEMMA HeldStep == Typed /\ Held /\ [Next]_vars => Held'
<1> SUFFICES ASSUME Typed, Held, [Next]_vars PROVE Held'
  OBVIOUS
<1>0. TypeOK
  BY DEF Typed
<1>1. ASSUME NEW r \in Requests, Commit(r) PROVE Held'
  <2> SUFFICES ASSUME NEW p \in Requests, req'[p].pc = "picked", req'[p].kind = "departments"
               PROVE  MembersOf(req[p].user)' \subseteq req'[p].members
    BY DEF Held
  <2>1. p # r /\ req'[p] = req[p]
    BY <1>0, <1>1, FinishType DEF Commit
  <2>2. ~EnterpriseFree(r)
    BY <2>1 DEF EnterpriseFree, BumpsOrgFirst, OrgFirst
  <2>3. req[r].kind = "unlock"
    BY <1>1, <2>2 DEF Commit
  <2>4. member' = member
    BY <1>1, <2>3 DEF Commit, Write, UnlockUser
  <2> QED  BY <2>1, <2>4 DEF Held, MembersOf
<1>2. ASSUME NEW r \in Requests, Check(r) PROVE Held'
  <2> PICK op \in RequestRow : Checked(r, op)
    BY <1>0, <1>2, CheckStep
  <2>1. member' = member /\ req'[r].pc = "checked" /\ \A p \in Requests \ {r} : req'[p] = req[p]
    BY <1>0, CheckedRow DEF tables
  <2> QED  BY <2>1 DEF Held, MembersOf
<1>3. ASSUME NEW r \in Requests, Pick(r) PROVE Held'
  <2>1. member' = member /\ req'[r].kind = req[r].kind /\ req'[r].user = req[r].user
        /\ req'[r].members = MembersToEnd(r) /\ \A p \in Requests \ {r} : req'[p] = req[p]
    BY <1>0, <1>3, PickRow DEF tables, SameWish
  <2>2. req[r].kind = "departments" => MembersToEnd(r) = MembersOf(req[r].user)
    BY <1>0, PickedRows
  <2> QED  BY <2>1, <2>2 DEF Held, MembersOf
<1>4. ASSUME NEW r \in Requests, Abort(r) PROVE Held'
  <2>1. member' = member /\ req'[r].pc = "done" /\ \A p \in Requests \ {r} : req'[p] = req[p]
    BY <1>0, <1>4, FinishType DEF Abort, tables
  <2> QED  BY <2>1 DEF Held, MembersOf
<1>5. CASE UNCHANGED vars
  BY <1>5 DEF Held, MembersOf, vars, tables
<1> QED  BY <1>1, <1>2, <1>3, <1>4, <1>5 DEF Next

-----------------------------------------------------------------------------
(* At the start: nothing is under way.                                     *)

LEMMA InitInv == Init => IInv
<1> SUFFICES ASSUME Init PROVE AdminKept /\ OrphansAreLate /\ UnderWay = {} /\ Held
  BY InitType DEF IInv, AdminInv, Alone, LateInv
<1> PICK list \in [Staff -> {l \in Lists : Resolved(l)}],
         grants \in [Staff -> {g \in GrantSets : ScopesExist(g)}] :
       /\ member = Memberships(Setup, First, <<Default>>)
                     \cup UNION {Memberships(Setup, u, list[u]) : u \in Staff}
       /\ binding = Bindings(Setup, First, {[role |-> "system_admin", scope |-> "enterprise"]})
                      \cup UNION {Bindings(Setup, u, grants[u]) : u \in Staff}
  BY DEF Init
<1>1. UnderWay = {} /\ Held
  BY NewFields DEF Init, UnderWay, Held
<1>2. First \in Users /\ \A u \in Staff \cup {First} : u \in Users /\ user[u] = "active"
  BY DirectoryAssumption DEF Init
<1>3. AdminKept
  <2>1. [user |-> First, role |-> "system_admin", scope |-> "enterprise", by |-> Setup] \in binding
    BY DEF Bindings
  <2>2. HasRole(First, "system_admin")
    BY <2>1 DEF HasRole, BindingsOf
  <2> QED  BY <1>2, <2>2 DEF AdminKept, Admins
<1>4. ASSUME NEW u \in Staff \cup {First}, NEW l \in Lists, Resolved(l), NEW m \in Memberships(Setup, u, l)
      PROVE  user[m.user] = "active" /\ department[m.department] = "active"
  <2>1. m.user = u /\ \E i \in DOMAIN l : m.department = l[i]
    BY <1>2, MembershipType
  <2> QED  BY <1>2, <1>4, <2>1 DEF Resolved
<1>5. \A m \in member : user[m.user] = "active" /\ department[m.department] = "active"
  <2>1. Resolved(<<Default>>)
    BY DEF Init, Resolved
  <2>2. \A m \in Memberships(Setup, First, <<Default>>) : user[m.user] = "active" /\ department[m.department] = "active"
    BY <2>1, <1>4, DefaultList
  <2>3. \A u \in Staff : \A m \in Memberships(Setup, u, list[u]) :
          user[m.user] = "active" /\ department[m.department] = "active"
    <3>1. \A u \in Staff : list[u] \in Lists /\ Resolved(list[u])
      OBVIOUS
    <3> QED  BY <3>1, <1>4
  <2> QED  BY <2>2, <2>3
<1>6. \A b \in binding : user[b.user] = "active"
  BY <1>2 DEF Bindings
<1> QED  BY <1>1, <1>3, <1>5, <1>6 DEF OrphansAreLate

LEMMA IInvHolds == Spec => []IInv
BY InitInv, TypeStep, AdminStep, LateStep, HeldStep, PTL DEF Spec, IInv

-----------------------------------------------------------------------------
(* What steps may do.                                                      *)

LEMMA RightsKept == ASSUME UNCHANGED tables, NEW u PROVE Rights(u)' = Rights(u)
BY DEF Rights, BindingsOf, MembersOf, tables

LEMMA LossStep ==
  ASSUME Typed, [Next]_vars, NEW u \in Users, ~(Rights(u) \subseteq Rights(u)')
  PROVE  version' > version
<1>1. PICK r \in Requests : Commit(r)
  <2>1. ASSUME NEW r \in Requests, Check(r) PROVE UNCHANGED tables
    BY <2>1, CheckStep DEF Typed, Checked
  <2> QED  BY <2>1, RightsKept DEF Next, Pick, Abort, vars
<1>2. Write(r)
  BY <1>1 DEF Commit
<1>3. CASE req[r].kind = "unlock" /\ UnlockUser(r)
  <2>1. UNCHANGED <<member, binding>> /\ (user[u] = "active" => user'[u] = "active")
    BY <1>3 DEF UnlockUser, Typed, TypeOK
  <2> QED  BY <2>1 DEF Rights, BindingsOf, MembersOf
<1>4. CASE Bump
  BY <1>4 DEF Bump, Typed, TypeOK
<1> QED
  BY <1>2, <1>3, <1>4 DEF Write, CreateUser, SetStatus, DeleteUser, ReplaceDepartments, GrantBindings,
     ReplaceBindings, InsertBindings, RevokeBinding, NewDepartment, PatchDepartment, DeleteDepartment

(* Of the steps only the commit of r itself succeeds for r.                *)
LEMMA SuccessIsCommit ==
  ASSUME Typed, [Next]_vars, NEW r \in Requests, NEW u, NEW kind, Succeeded(r, u, kind)
  PROVE  Commit(r) /\ Write(r)
<1>0. TypeOK
  BY DEF Typed
<1>1. req[r].pc = "picked" /\ req'[r].pc = "done" /\ version' # version
  BY DEF Succeeded
<1>2. ASSUME NEW q \in Requests, Check(q) PROVE version' = version
  BY <1>0, <1>2, CheckStep DEF Checked, tables
<1>3. ASSUME NEW q \in Requests, Commit(q) PROVE q = r
  BY <1>0, <1>1, <1>3, FinishType DEF Commit
<1>4. PICK q \in Requests : Commit(q)
  BY <1>1, <1>2 DEF Next, Pick, Abort, vars, tables
<1> QED  BY <1>3, <1>4 DEF Commit

LEMMA DepartmentsDeclared ==
  ASSUME Typed, Held, [Next]_vars, NEW r \in Requests, NEW u \in Users, Succeeded(r, u, "departments")
  PROVE  {<<m.department, m.primary>> : m \in MembersOf(u)'} = {<<req[r].list[i], i = 1>> : i \in DOMAIN req[r].list}
<1>1. req[r].user = u /\ ReplaceDepartments(r) /\ MembersOf(u) \subseteq req[r].members
  BY SuccessIsCommit DEF Succeeded, Held, Write
<1>2. MembersOf(u)' = Memberships(r, u, req[r].list)
  BY <1>1 DEF ReplaceDepartments, MembersOf, Memberships
<1>3. \A m \in Memberships(r, u, req[r].list) :
        \E i \in DOMAIN req[r].list : <<m.department, m.primary>> = <<req[r].list[i], i = 1>>
  BY DEF Memberships
<1>4. \A i \in DOMAIN req[r].list :
        \E m \in Memberships(r, u, req[r].list) : <<m.department, m.primary>> = <<req[r].list[i], i = 1>>
  <2> SUFFICES ASSUME NEW i \in DOMAIN req[r].list
               PROVE  \E m \in Memberships(r, u, req[r].list) : <<m.department, m.primary>> = <<req[r].list[i], i = 1>>
    OBVIOUS
  <2> DEFINE m == [user |-> u, department |-> req[r].list[i], primary |-> (i = 1), by |-> r]
  <2>1. m \in Memberships(r, u, req[r].list)
    BY DEF Memberships
  <2>2. <<m.department, m.primary>> = <<req[r].list[i], i = 1>>
    OBVIOUS
  <2> QED  BY <2>1, <2>2
<1> QED  BY <1>2, <1>3, <1>4

LEMMA RolesDeclared ==
  ASSUME Typed, Alone, [Next]_vars, NEW r \in Requests, NEW u \in Users, Succeeded(r, u, "replace"), ~raced
  PROVE  {<<b.role, b.scope>> : b \in BindingsOf(u)'} = {<<g.role, g.scope>> : g \in req[r].grants}
<1>1. req[r].user = u /\ ReplaceBindings(r)
  BY SuccessIsCommit DEF Succeeded, Write
<1>2. BindingsOf(u) \subseteq req[r].bindings
  BY <1>1 DEF Succeeded, Alone, Picked, UnderWay
<1>3. BindingsOf(u)' = Bindings(r, u, req[r].grants)
  BY <1>1, <1>2 DEF ReplaceBindings, InsertBindings, BindingsOf, Bindings
<1>4. \A b \in Bindings(r, u, req[r].grants) :
        \E g \in req[r].grants : <<b.role, b.scope>> = <<g.role, g.scope>>
  BY DEF Bindings
<1>5. \A g \in req[r].grants :
        \E b \in Bindings(r, u, req[r].grants) : <<b.role, b.scope>> = <<g.role, g.scope>>
  <2> SUFFICES ASSUME NEW g \in req[r].grants
               PROVE  \E b \in Bindings(r, u, req[r].grants) : <<b.role, b.scope>> = <<g.role, g.scope>>
    OBVIOUS
  <2> DEFINE b == [user |-> u, role |-> g.role, scope |-> g.scope, by |-> r]
  <2>1. b \in Bindings(r, u, req[r].grants)
    BY DEF Bindings
  <2> QED  BY <2>1
<1> QED  BY <1>3, <1>4, <1>5

-----------------------------------------------------------------------------

(* The tables and the requests keep their types, however requests overlap. *)
THEOREM DirectoryTypeCorrect == Spec => []TypeOK
BY IInvHolds, PTL DEF IInv, Typed

(* For any number of users, roles and requests: requests that come one     *)
(* after another never take the last system administrator away, whatever   *)
(* they disable, delete, revoke or replace (_ensure_not_last_system_admin).*)
THEOREM AnAdminRemains == Spec => []AdminKept
BY IInvHolds, PTL DEF IInv, AdminInv

(* An active membership or role that outlives its user or its department   *)
(* was written by a request that overlapped the one that ended it: no      *)
(* order of requests that do not overlap leaves one.                       *)
THEOREM OrphansComeLate == Spec => []OrphansAreLate
BY IInvHolds, PTL DEF IInv, LateInv

(* A replacement leaves the declared departments, and alone the declared   *)
(* roles: the row of the enterprise that it holds keeps others from adding *)
(* a membership between the rows it ends and the rows it writes.           *)
THEOREM ReplacedAsDeclared == Spec => AsDeclared
<1> DEFINE Declared ==
      \A r \in Requests, u \in Users :
       /\ Succeeded(r, u, "departments") =>
            {<<m.department, m.primary>> : m \in MembersOf(u)'}
              = {<<req[r].list[i], i = 1>> : i \in DOMAIN req[r].list}
       /\ Succeeded(r, u, "replace") /\ ~raced =>
            {<<b.role, b.scope>> : b \in BindingsOf(u)'}
              = {<<g.role, g.scope>> : g \in req[r].grants}
<1>1. IInv /\ [Next]_vars => Declared
  BY DepartmentsDeclared, RolesDeclared DEF IInv, AdminInv
<1> HIDE DEF Declared
<1>2. Spec => [][Declared]_vars
  BY <1>1, IInvHolds, PTL DEF Spec
<1> QED  BY <1>2, PTL DEF AsDeclared, Declared

(* No right of anybody is taken away without a new permission_version.     *)
THEOREM LossesVersioned == Spec => LossVersioned
<1> DEFINE Told == (\E u \in Users : ~(Rights(u) \subseteq Rights(u)')) => version' > version
<1>1. IInv /\ [Next]_vars => Told
  BY LossStep DEF IInv
<1> HIDE DEF Told
<1>2. Spec => [][Told]_vars
  BY <1>1, IInvHolds, PTL DEF Spec
<1> QED  BY <1>2 DEF LossVersioned, Told
=============================================================================
