------------------------------ MODULE Containers ------------------------------
(***************************************************************************)
(* The administration of knowledge bases, folders and documents and of who *)
(* may read them.                                                          *)
(*                                                                         *)
(* A request is one READ COMMITTED transaction.  It reads the rows that it *)
(* is going to change and checks them, and locks nothing; then it writes,  *)
(* by what it has read.  The writes are one step: two requests that write  *)
(* the same resource wait for one another, and where they take their locks *)
(* in opposite orders the database ends one of them (Abort).               *)
(*                                                                         *)
(* Access rules of users and roles work as those of departments do, which  *)
(* stand for all.  Requests come from a system administrator, confirmed.   *)
(***************************************************************************)
EXTENDS Naturals, FiniteSets, Sequences

CONSTANTS
  Bases,        \* knowledge bases
  Folders,
  Docs,
  Departments,
  Owner,        \* owner department of every knowledge base
  Home,         \* the knowledge base of a folder or document
  Present,      \* what is there at the start
  Path,         \* paths of the folders that are there at the start
  Root,         \* stands for no folder
  Keep,         \* stands for a field that a request leaves out
  BaseEdits, BaseRights, DocumentEdits, FolderEdits, Imports,  \* what requests may ask
  Requests      \* requests, each handled once

ASSUME ContainerAssumption ==
  /\ Owner \in Departments
  /\ Bases \cap Docs = {} /\ Bases \cap Folders = {} /\ Docs \cap Folders = {}
  /\ Home \in [Folders \cup Docs -> Bases]
  /\ Present \subseteq Bases \cup Folders \cup Docs
  /\ Path \in [Folders -> Seq(Folders)] /\ Root \notin Folders
  /\ \A f \in Folders \cap Present :
       Path[f] # <<>> /\ (Path[f] = <<f>> \/ \E p \in Folders \cap Present : Path[f] = Append(Path[p], f))
  /\ \A x \in Present \ Bases : Home[x] \in Present

Resources == Bases \cup Folders \cup Docs
Governed  == Bases \cup Docs        \* the resources that have policies

BaseVisibility == {"private", "department_acl", "enterprise"}
Visibility     == {"department", "enterprise"}

BaseRow == [status : {"none", "active", "disabled", "archived", "deleted"},
            visibility : BaseVisibility, access : SUBSET Departments,
            defaultVisibility : Visibility, defaultOwner : Departments, version : Nat]
DocRow == [status : {"none", "draft", "active", "archived", "deleted"}, folder : Folders \cup {Root},
           visibility : Visibility, owner : Departments, version : Nat]
FolderRow == [status : {"none", "active", "disabled", "archived", "deleted"},
              parent : Folders \cup {Root}, path : Seq(Folders)]
\* resource_policies of one resource: the last version, and what is active.
PolicyRow == [last : Nat, active : BOOLEAN, visibility : Visibility, owner : Departments]
BlockRow  == [on : Resources, reason : {"deleted", "permission_tightened"}]

ASSUME EditAssumption ==
  /\ BaseEdits \subseteq [status : {Keep, "active", "disabled", "archived"}, visibility : {Keep} \cup BaseVisibility,
                          defaultVisibility : {Keep} \cup Visibility, defaultOwner : {Keep} \cup Departments]
  /\ BaseRights \subseteq [visibility : BaseVisibility, access : SUBSET Departments,
                           defaultVisibility : Visibility, defaultOwner : Departments]
  /\ DocumentEdits \subseteq [status : {Keep, "active", "archived"}, folder : {Keep, Root} \cup Folders,
                              visibility : {Keep} \cup Visibility, owner : {Keep} \cup Departments]
  /\ FolderEdits \subseteq [status : {Keep, "active", "disabled", "archived"}, parent : {Keep, Root} \cup Folders]
  /\ Imports \subseteq [folder : {Root} \cup Folders, visibility : {Keep} \cup Visibility, owner : {Keep} \cup Departments]

VARIABLES
  base,       \* knowledge_bases and knowledge_base_accesses
  folder,     \* folders
  doc,        \* documents
  policy,     \* resource_policies
  block,      \* the active rows of access_blocks
  refresh,    \* the resources that a permission_refresh job is queued for
  req,        \* the request of each API process
  \* history: resources whose permission a patch wrote by columns that had
  \* changed since it read them, and whether a path has been left behind
  stale, shifted

tables  == <<base, folder, doc, policy, block, refresh>>
history == <<stale, shifted>>
vars    == <<tables, req, history>>

New  == [kind |-> "new"]
Done == [kind |-> "done"]

Listed(b)   == base[b].status \notin {"none", "deleted"}
Standing(f) == folder[f].status \notin {"none", "deleted"}
Kept(d)     == doc[d].status \notin {"none", "deleted"}

TypeOK ==
  /\ base \in [Bases -> BaseRow]
  /\ folder \in [Folders -> FolderRow]
  /\ doc \in [Docs -> DocRow]
  /\ policy \in [Governed -> PolicyRow]
  /\ block \subseteq BlockRow
  /\ refresh \subseteq Governed
  /\ stale \subseteq Governed /\ shifted \in BOOLEAN

---------------------------------------------------------------------------
(* Permissions.                                                            *)

Given(old, new) == IF new = Keep THEN old ELSE new

\* A knowledge base that is not open to all is open to its owner department.
Normalized(access, visibility) == IF visibility = "enterprise" THEN access ELSE access \cup {Owner}

\* Whoever may read the document may query the knowledge base.
Within(row, visibility, owner) ==
  visibility = "enterprise" \/ row.visibility = "enterprise" \/ owner \in row.access

PolicyVisibility(visibility) == IF visibility = "enterprise" THEN "enterprise" ELSE "department"

Tightens(old, new) ==
  new.visibility = "department" /\ (old.visibility = "enterprise" \/ new.owner # old.owner)

\* uq_resource_policies_version: of two changes that read the same version
\* only the first can be written.
FreshVersion(x, version) == policy[x].last < version

Renewed(x, version, visibility, owner) ==
  [policy EXCEPT ![x] = [last |-> version, active |-> TRUE, visibility |-> visibility, owner |-> owner]]
Archived(x) == [policy EXCEPT ![x].active = FALSE]

\* The active rules are revoked and the new ones inserted.
WithRules(row, access) == [row EXCEPT !.access = access]

\* A job is queued that brings the entries and points of the resource up to date.
Refreshing(x) == refresh \cup {x}

Blocked(x, reason) == block \cup {[on |-> x, reason |-> reason]}

BasePermission(row) == <<row.visibility, row.access, row.defaultVisibility, row.defaultOwner>>
DocPermission(row)  == <<row.visibility, row.owner>>

---------------------------------------------------------------------------
(* Requests.                                                               *)

\* The checks of request r pass: it is going to do this, by what it has seen.
Checked(r, kind, x, want, seen) ==
  /\ req[r] = New
  /\ req' = [req EXCEPT ![r] = [kind |-> kind, on |-> x, want |-> want, seen |-> seen]]
  /\ UNCHANGED <<tables, history>>

Finish(r) == req' = [req EXCEPT ![r] = Done]

\* A new row has an identifier that no other request knows.
Unused(x) == \A q \in Requests : req[q] \notin {New, Done} => req[q].on # x

\* Where a document or another folder can be put.
Open(b) == {Root} \cup {f \in Folders : folder[f].status = "active" /\ Home[f] = b}

PathOf(f) == IF f = Root THEN <<>> ELSE folder[f].path

EditedBase(row, edit) ==
  LET visibility == Given(row.visibility, edit.visibility) IN
  [row EXCEPT !.status = Given(@, edit.status), !.visibility = visibility,
              !.access = Normalized(@, visibility),
              !.defaultVisibility = Given(@, edit.defaultVisibility),
              !.defaultOwner = Given(@, edit.defaultOwner)]

EditedDoc(row, edit) ==
  [row EXCEPT !.status = Given(@, edit.status), !.folder = Given(@, edit.folder),
              !.visibility = Given(@, edit.visibility), !.owner = Given(@, edit.owner)]

---------------------------------------------------------------------------
(* Faulty variants of definitions below, each named for the definition it  *)
(* would replace: with it, TLC finds the property it breaks violated.      *)

\* Faulty: defaults are tested only where the visibility changes.
CheckPatchBase_Variant(r, b, edit) ==
  LET next == EditedBase(base[b], edit) IN
  /\ Listed(b)
  /\ next.visibility # base[b].visibility => Within(next, next.defaultVisibility, next.defaultOwner)
  /\ Checked(r, "patch_base", b, edit, base[b])

\* Faulty: a change of the owner department alone renews no policy.
PatchDocument_Variant(r) ==
  LET d == req[r].on  seen == req[r].seen  edit == req[r].want
      next == EditedDoc(seen, edit)
      changed == next.visibility # seen.visibility
  IN /\ Kept(d)
     /\ changed => FreshVersion(d, seen.version + 1)
     /\ doc' = [doc EXCEPT ![d] = [EditedDoc(@, edit) EXCEPT !.version = IF changed THEN seen.version + 1 ELSE @]]
     /\ policy' = IF changed THEN Renewed(d, seen.version + 1, next.visibility, next.owner) ELSE policy
     /\ block' = IF Tightens(seen, next) THEN Blocked(d, "permission_tightened") ELSE block
     /\ refresh' = IF changed THEN Refreshing(d) ELSE refresh
     /\ UNCHANGED <<base, folder, history>>

\* Faulty: a move keeps the path.
PatchFolder_Variant(r) ==
  LET f == req[r].on  edit == req[r].want IN
  /\ Standing(f)
  /\ folder' = [folder EXCEPT ![f].status = Given(@, edit.status), ![f].parent = Given(@, edit.parent)]
  /\ shifted' = (shifted \/ (\E g \in Folders : folder[g].status # "none" /\ folder[g].parent = f)
                         \/ (edit.parent # Keep /\ PathOf(edit.parent) # req[r].seen))
  /\ UNCHANGED <<base, doc, policy, block, refresh, stale>>

---------------------------------------------------------------------------
(* Checking, one operator per operation.                                   *)

CheckCreateBase(r, b, rights) ==
  /\ base[b].status = "none" /\ Unused(b)
  /\ LET row == [rights EXCEPT !.access = Normalized(@, rights.visibility)] IN
       /\ Within(row, row.defaultVisibility, row.defaultOwner)
       /\ Checked(r, "create_base", b, row, base[b])

CheckPatchBase(r, b, edit) ==
  LET next == EditedBase(base[b], edit) IN
  /\ Listed(b)
  /\ <<next.visibility, next.defaultVisibility, next.defaultOwner>>
       # <<base[b].visibility, base[b].defaultVisibility, base[b].defaultOwner>>
     => Within(next, next.defaultVisibility, next.defaultOwner)
  /\ Checked(r, "patch_base", b, edit, base[b])

CheckDeleteBase(r, b) == Listed(b) /\ Checked(r, "delete_base", b, base[b], base[b])

\* What is so already is answered without a write.
CheckReplaceBase(r, b, rights) ==
  LET row == [rights EXCEPT !.access = Normalized(@, rights.visibility)] IN
  /\ Listed(b)
  /\ Within(row, row.defaultVisibility, row.defaultOwner)
  /\ BasePermission(row) # BasePermission(base[b])
  /\ Checked(r, "replace_base", b, row, base[b])

\* The department asked for, or else the first one of the importer; the
\* default of the base where there is neither.
OwnerOf(parent, want) == Given(parent.defaultOwner, want.owner)

CheckImport(r, d, want) ==
  LET parent == base[Home[d]]
      row == [folder |-> want.folder, visibility |-> Given(parent.defaultVisibility, want.visibility),
              owner |-> OwnerOf(parent, want)]
  IN /\ doc[d].status = "none" /\ Unused(d)
     /\ parent.status = "active"
     /\ Within(parent, row.visibility, row.owner)
     /\ row.folder \in Open(Home[d])
     /\ Checked(r, "import", d, row, doc[d])

CheckPatchDocument(r, d, edit) ==
  LET next == EditedDoc(doc[d], edit) IN
  /\ Kept(d) /\ Listed(Home[d])
  /\ edit.folder \in {Keep} \cup Open(Home[d])
  /\ DocPermission(next) # DocPermission(doc[d]) => Within(base[Home[d]], next.visibility, next.owner)
  /\ Checked(r, "patch_document", d, edit, doc[d])

CheckDeleteDocument(r, d) == Kept(d) /\ Listed(Home[d]) /\ Checked(r, "delete_document", d, doc[d], doc[d])

CheckReplaceDocument(r, d, edit) ==
  LET next == EditedDoc(doc[d], edit) IN
  /\ Kept(d) /\ Listed(Home[d])
  /\ edit.visibility # Keep /\ edit.status = Keep /\ edit.folder = Keep
  /\ Within(base[Home[d]], next.visibility, next.owner)
  /\ DocPermission(next) # DocPermission(doc[d])
  /\ Checked(r, "replace_document", d, next, doc[d])

CheckCreateFolder(r, f, parent) ==
  /\ folder[f].status = "none" /\ Unused(f)
  /\ Listed(Home[f]) /\ parent \in Open(Home[f])
  /\ Checked(r, "create_folder", f, parent, PathOf(parent))

\* The descendants of a folder are told by the path of the new parent.
CheckPatchFolder(r, f, edit) ==
  /\ Standing(f) /\ Listed(Home[f])
  /\ edit.parent # Keep => /\ edit.parent # f
                           /\ edit.parent \in Open(Home[f])
                           /\ \A i \in DOMAIN PathOf(edit.parent) : PathOf(edit.parent)[i] # f
  /\ Checked(r, "patch_folder", f, edit, IF edit.parent = Keep THEN <<>> ELSE PathOf(edit.parent))

CheckDeleteFolder(r, f) == Standing(f) /\ Listed(Home[f]) /\ Checked(r, "delete_folder", f, f, f)

---------------------------------------------------------------------------
(* Writing, one operator per operation.                                    *)

CreateBase(r) ==
  LET b == req[r].on  want == req[r].want IN
  /\ base' = [base EXCEPT ![b] = [status |-> "active", visibility |-> want.visibility, access |-> want.access,
                                  defaultVisibility |-> want.defaultVisibility,
                                  defaultOwner |-> want.defaultOwner, version |-> 1]]
  /\ policy' = Renewed(b, 1, PolicyVisibility(want.visibility), Owner)
  /\ UNCHANGED <<folder, doc, block, refresh, history>>

\* The columns that the request gives are written, and the rules where they
\* change; a base that is no longer listed is not found again: rolled back.
PatchBase(r) ==
  LET b == req[r].on  seen == req[r].seen  edit == req[r].want
      next == EditedBase(seen, edit)
      changed == next.visibility # seen.visibility
  IN /\ Listed(b)
     /\ changed => FreshVersion(b, seen.version + 1)
     /\ base' = [base EXCEPT ![b] =
          [status |-> Given(@.status, edit.status), visibility |-> Given(@.visibility, edit.visibility),
           access |-> IF next.access = seen.access THEN @.access ELSE next.access,
           defaultVisibility |-> Given(@.defaultVisibility, edit.defaultVisibility),
           defaultOwner |-> Given(@.defaultOwner, edit.defaultOwner),
           version |-> IF changed THEN seen.version + 1 ELSE @.version]]
     /\ policy' = IF changed THEN Renewed(b, seen.version + 1, PolicyVisibility(next.visibility), Owner) ELSE policy
     /\ refresh' = IF changed THEN Refreshing(b) ELSE refresh
     /\ stale' = IF BasePermission(base[b]) # BasePermission(seen)
                    /\ ({edit.visibility, edit.defaultVisibility, edit.defaultOwner} # {Keep} \/ next.access # seen.access)
                 THEN stale \cup {b} ELSE stale
     /\ UNCHANGED <<folder, doc, block, shifted>>

\* Folders and documents of the base stay as they are.
DeleteBase(r) ==
  LET b == req[r].on IN
  /\ block' = Blocked(b, "deleted")
  /\ base' = [base EXCEPT ![b].status = "deleted"]
  /\ policy' = Archived(b)
  /\ UNCHANGED <<folder, doc, refresh, history>>

\* Rules and policy are replaced even where the base is gone by now.
ReplaceBase(r) ==
  LET b == req[r].on  want == req[r].want  version == req[r].seen.version + 1 IN
  /\ FreshVersion(b, version)
  /\ base' = [base EXCEPT ![b] =
       IF Listed(b)
       THEN [status |-> @.status, visibility |-> want.visibility, access |-> want.access,
             defaultVisibility |-> want.defaultVisibility, defaultOwner |-> want.defaultOwner,
             version |-> version]
       ELSE WithRules(@, want.access)]
  /\ policy' = Renewed(b, version, PolicyVisibility(want.visibility), Owner)
  /\ refresh' = Refreshing(b)
  /\ stale' = stale \ {b}
  /\ UNCHANGED <<folder, doc, block, shifted>>

Import(r) ==
  LET d == req[r].on  want == req[r].want IN
  /\ doc' = [doc EXCEPT ![d] = [status |-> "draft", folder |-> want.folder, visibility |-> want.visibility,
                                owner |-> want.owner, version |-> 1]]
  /\ policy' = Renewed(d, 1, want.visibility, want.owner)
  /\ UNCHANGED <<base, folder, block, refresh, history>>

PatchDocument(r) ==
  LET d == req[r].on  seen == req[r].seen  edit == req[r].want
      next == EditedDoc(seen, edit)
      changed == DocPermission(next) # DocPermission(seen)
      row == [EditedDoc(doc[d], edit) EXCEPT !.version = IF changed THEN seen.version + 1 ELSE @]
  IN /\ Kept(d)
     /\ changed => FreshVersion(d, seen.version + 1)
     /\ doc' = [doc EXCEPT ![d] = row]
     /\ policy' = IF changed THEN Renewed(d, seen.version + 1, next.visibility, next.owner) ELSE policy
     /\ block' = IF Tightens(seen, next) THEN Blocked(d, "permission_tightened") ELSE block
     /\ refresh' = IF changed THEN Refreshing(d) ELSE refresh
     /\ stale' = IF DocPermission(doc[d]) # DocPermission(seen) /\ {edit.visibility, edit.owner} # {Keep}
                 THEN stale \cup {d} ELSE stale
     /\ UNCHANGED <<base, folder, shifted>>

DeleteDocument(r) ==
  LET d == req[r].on IN
  /\ block' = Blocked(d, "deleted")
  /\ doc' = [doc EXCEPT ![d].status = "deleted"]
  /\ policy' = Archived(d)
  /\ UNCHANGED <<base, folder, refresh, history>>

ReplaceDocument(r) ==
  LET d == req[r].on  want == req[r].want  version == req[r].seen.version + 1 IN
  /\ FreshVersion(d, version)
  /\ doc' = [doc EXCEPT ![d] =
       IF Kept(d) THEN [@ EXCEPT !.visibility = want.visibility, !.owner = want.owner, !.version = version] ELSE @]
  /\ policy' = Renewed(d, version, want.visibility, want.owner)
  /\ block' = IF Tightens(req[r].seen, want) THEN Blocked(d, "permission_tightened") ELSE block
  /\ refresh' = Refreshing(d)
  /\ stale' = stale \ {d}
  /\ UNCHANGED <<base, folder, shifted>>

CreateFolder(r) ==
  LET f == req[r].on  parent == req[r].want IN
  /\ folder' = [folder EXCEPT ![f] = [status |-> "active", parent |-> parent, path |-> Append(req[r].seen, f)]]
  /\ shifted' = (shifted \/ PathOf(parent) # req[r].seen)
  /\ UNCHANGED <<base, doc, policy, block, refresh, stale>>

\* Only the path of the folder itself is written, not those below it.
PatchFolder(r) ==
  LET f == req[r].on  edit == req[r].want  moves == edit.parent # Keep IN
  /\ Standing(f)
  /\ folder' = [folder EXCEPT ![f] =
       [status |-> Given(@.status, edit.status), parent |-> Given(@.parent, edit.parent),
        path |-> IF moves THEN Append(req[r].seen, f) ELSE @.path]]
  /\ shifted' = (shifted \/ (moves /\ (\/ \E g \in Folders : folder[g].status # "none" /\ folder[g].parent = f
                                       \/ PathOf(edit.parent) # req[r].seen)))
  /\ UNCHANGED <<base, doc, policy, block, refresh, stale>>

\* What is in the folder stays as it is.
DeleteFolder(r) ==
  LET f == req[r].on IN
  /\ block' = Blocked(f, "deleted")
  /\ folder' = [folder EXCEPT ![f].status = "deleted"]
  /\ UNCHANGED <<base, doc, policy, refresh, history>>

---------------------------------------------------------------------------

Check(r) ==
  \/ \E b \in Bases : \/ \E rights \in BaseRights : CheckCreateBase(r, b, rights) \/ CheckReplaceBase(r, b, rights)
                      \/ \E edit \in BaseEdits : CheckPatchBase(r, b, edit)
                      \/ CheckDeleteBase(r, b)
  \/ \E d \in Docs : \/ \E want \in Imports : CheckImport(r, d, want)
                     \/ \E edit \in DocumentEdits : CheckPatchDocument(r, d, edit) \/ CheckReplaceDocument(r, d, edit)
                     \/ CheckDeleteDocument(r, d)
  \/ \E f \in Folders : \/ \E parent \in {Root} \cup Folders : CheckCreateFolder(r, f, parent)
                        \/ \E edit \in FolderEdits : CheckPatchFolder(r, f, edit)
                        \/ CheckDeleteFolder(r, f)

WriteBase(r) ==
  \/ req[r].kind = "create_base" /\ CreateBase(r)
  \/ req[r].kind = "patch_base" /\ PatchBase(r)
  \/ req[r].kind = "delete_base" /\ DeleteBase(r)
  \/ req[r].kind = "replace_base" /\ ReplaceBase(r)

WriteDocument(r) ==
  \/ req[r].kind = "import" /\ Import(r)
  \/ req[r].kind = "patch_document" /\ PatchDocument(r)
  \/ req[r].kind = "delete_document" /\ DeleteDocument(r)
  \/ req[r].kind = "replace_document" /\ ReplaceDocument(r)

WriteFolder(r) ==
  \/ req[r].kind = "create_folder" /\ CreateFolder(r)
  \/ req[r].kind = "patch_folder" /\ PatchFolder(r)
  \/ req[r].kind = "delete_folder" /\ DeleteFolder(r)

Write(r) == (WriteBase(r) \/ WriteDocument(r) \/ WriteFolder(r)) /\ Finish(r)

\* A clash, a row that is gone, a lost connection, a deadlock: rolled back.
Abort(r) ==
  /\ req[r] \notin {New, Done}
  /\ Finish(r) /\ UNCHANGED <<tables, history>>

AdminNext == \E r \in Requests : Check(r) \/ Write(r) \/ Abort(r)

---------------------------------------------------------------------------

(* What is there at the start was created by requests.                     *)

Settled(rights) ==
  LET row == [rights EXCEPT !.access = Normalized(@, rights.visibility)] IN
  {[status |-> "active", visibility |-> row.visibility, access |-> row.access,
    defaultVisibility |-> row.defaultVisibility, defaultOwner |-> row.defaultOwner, version |-> 1] :
   x \in {y \in {1} : Within(row, row.defaultVisibility, row.defaultOwner)}}

NoBase == [status |-> "none", visibility |-> "private", access |-> {}, defaultVisibility |-> "department",
           defaultOwner |-> Owner, version |-> 0]
NoDoc  == [status |-> "none", folder |-> Root, visibility |-> "department", owner |-> Owner, version |-> 0]
NoFolder == [status |-> "none", parent |-> Root, path |-> <<>>]
NoPolicy == [last |-> 0, active |-> FALSE, visibility |-> "department", owner |-> Owner]

InitContainers ==
  /\ \E rows \in [Bases \cap Present -> UNION {Settled(rights) : rights \in BaseRights}] :
       base = [b \in Bases |-> IF b \in Present THEN rows[b] ELSE NoBase]
  /\ \E open \in SUBSET (Docs \cap Present) :
       doc = [d \in Docs |-> IF d \notin Present THEN NoDoc
                             ELSE [NoDoc EXCEPT !.status = "active", !.version = 1,
                                                !.visibility = IF d \in open THEN "enterprise" ELSE "department"]]
  /\ folder = [f \in Folders |-> IF f \notin Present THEN NoFolder
                                 ELSE [status |-> "active", path |-> Path[f],
                                       parent |-> IF Len(Path[f]) = 1 THEN Root ELSE Path[f][Len(Path[f]) - 1]]]
  /\ policy = [x \in Governed |->
       IF x \notin Present THEN NoPolicy
       ELSE IF x \in Bases THEN [last |-> 1, active |-> TRUE, visibility |-> PolicyVisibility(base[x].visibility), owner |-> Owner]
       ELSE [last |-> 1, active |-> TRUE, visibility |-> doc[x].visibility, owner |-> doc[x].owner]]
  /\ block = {} /\ refresh = {}
  /\ req = [r \in Requests |-> New]
  /\ stale = {} /\ shifted = FALSE

---------------------------------------------------------------------------
(* Properties.                                                             *)

\* The active policy of a knowledge base or document says what its row says,
\* and is the latest version: overlapping changes never leave the one ahead of
\* the other, except where a patch wrote back a column it had read too early.
PolicyAgrees ==
  /\ \A b \in Bases \ stale : Listed(b) =>
       /\ policy[b].active /\ policy[b].last = base[b].version
       /\ policy[b].visibility = PolicyVisibility(base[b].visibility)
  /\ \A d \in Docs \ stale : Kept(d) =>
       /\ policy[d].active /\ policy[d].last = doc[d].version
       /\ policy[d].visibility = doc[d].visibility /\ policy[d].owner = doc[d].owner

\* A document imported with the defaults of its knowledge base can be read by
\* somebody who may query the base: no order of changes of the rules and of
\* the defaults breaks it, except patches that overlapped.
DefaultsFit ==
  \A b \in Bases \ stale : Listed(b) => Within(base[b], base[b].defaultVisibility, base[b].defaultOwner)

\* While no folder was moved that has others below it, and no move overlapped
\* another of an ancestor, paths are the paths in the tree: then there is no
\* cycle, and the test for descendants tells them all.
PathsAreAncestors ==
  ~shifted => \A f \in Folders : folder[f].status # "none" =>
                folder[f].path = Append(PathOf(folder[f].parent), f)
=============================================================================
