------------------------- MODULE KnowledgeBrowsingProofs -------------------------
(***************************************************************************)
(* The administration of containers, for every set of them and of requests *)
(* and every history of overlapping changes, while documents are published *)
(* and refreshed and users read; and what users are then shown, whatever   *)
(* the administration does meanwhile.                                      *)
(***************************************************************************)
EXTENDS KnowledgeBrowsing, SequenceTheorems, TLAPS

BaseWant == [visibility : BaseVisibility, access : SUBSET Departments,
             defaultVisibility : Visibility, defaultOwner : Departments]
DocWant  == [folder : Folders \cup {Root}, visibility : Visibility, owner : Departments]

FitsDefaults(row) == Within(row, row.defaultVisibility, row.defaultOwner)
Defaults(row) == <<row.visibility, row.defaultVisibility, row.defaultOwner>>

(* What a request knows from its checks, whatever the tables say by now.   *)
RequestOK(q) ==
  /\ q.kind = "create_base" => q.on \in Bases /\ q.want \in BaseWant /\ FitsDefaults(q.want)
  /\ q.kind = "patch_base" =>
       /\ q.on \in Bases /\ q.want \in BaseEdits /\ q.seen \in BaseRow
       /\ Defaults(EditedBase(q.seen, q.want)) # Defaults(q.seen) => FitsDefaults(EditedBase(q.seen, q.want))
  /\ q.kind = "delete_base" => q.on \in Bases
  /\ q.kind = "replace_base" =>
       q.on \in Bases /\ q.want \in BaseWant /\ FitsDefaults(q.want) /\ q.seen \in BaseRow
  /\ q.kind = "import" => q.on \in Docs /\ q.want \in DocWant
  /\ q.kind = "patch_document" => q.on \in Docs /\ q.want \in DocumentEdits /\ q.seen \in DocRow
  /\ q.kind = "delete_document" => q.on \in Docs
  /\ q.kind = "replace_document" => q.on \in Docs /\ q.want \in DocRow /\ q.seen \in DocRow
  /\ q.kind = "create_folder" =>
       q.on \in Folders /\ q.want \in {Root} \cup Folders /\ q.want # q.on /\ q.seen \in Seq(Folders)
  /\ q.kind = "patch_folder" =>
       /\ q.on \in Folders /\ q.want \in FolderEdits /\ q.seen \in Seq(Folders)
       /\ q.want.parent # Keep => q.want.parent # q.on
  /\ q.kind = "delete_folder" => q.on \in Folders

Requested == DOMAIN req = Requests /\ \A r \in Requests : RequestOK(req[r])

Typed == TypeOK /\ Requested

-----------------------------------------------------------------------------

LEMMA Names ==
  /\ Owner \in Departments /\ Home \in [Folders \cup Docs -> Bases] /\ Root \notin Folders
  /\ Bases \cap Docs = {} /\ Bases \cap Folders = {} /\ Docs \cap Folders = {}
  /\ Bases \subseteq Governed /\ Docs \subseteq Governed /\ Governed \subseteq Resources /\ Folders \subseteq Resources
BY ContainerAssumption DEF Governed, Resources

LEMMA Edits ==
  /\ \A e \in BaseEdits : /\ e.status \in {Keep, "active", "disabled", "archived"}
                          /\ e.visibility \in {Keep} \cup BaseVisibility
                          /\ e.defaultVisibility \in {Keep} \cup Visibility
                          /\ e.defaultOwner \in {Keep} \cup Departments
  /\ BaseRights \subseteq BaseWant
  /\ \A e \in DocumentEdits : /\ e.status \in {Keep, "active", "archived"}
                              /\ e.folder \in {Keep, Root} \cup Folders
                              /\ e.visibility \in {Keep} \cup Visibility
                              /\ e.owner \in {Keep} \cup Departments
  /\ \A e \in FolderEdits : /\ e.status \in {Keep, "active", "disabled", "archived"}
                            /\ e.parent \in {Keep, Root} \cup Folders
  /\ \A e \in Imports : /\ e.folder \in {Root} \cup Folders
                        /\ e.visibility \in {Keep} \cup Visibility
                        /\ e.owner \in {Keep} \cup Departments
BY EditAssumption DEF BaseWant

LEMMA RestingOK == RequestOK(New) /\ RequestOK(Done)
BY DEF New, Done, RequestOK

LEMMA EditedBaseType ==
  ASSUME NEW row \in BaseRow, NEW edit \in BaseEdits
  PROVE  EditedBase(row, edit) \in BaseRow
BY Edits, Names DEF EditedBase, BaseRow, Given, Normalized

LEMMA EditedDocType ==
  ASSUME NEW row \in DocRow, NEW edit \in DocumentEdits
  PROVE  EditedDoc(row, edit) \in DocRow
<1> DEFINE status == Given(row.status, edit.status)
           home   == Given(row.folder, edit.folder)
           sight  == Given(row.visibility, edit.visibility)
           owner  == Given(row.owner, edit.owner)
<1>1. EditedDoc(row, edit) = [row EXCEPT !.status = status, !.folder = home, !.visibility = sight, !.owner = owner]
  BY DEF EditedDoc, DocRow
<1>2. status \in {"none", "draft", "active", "archived", "deleted"}
  BY Edits DEF DocRow, Given
<1>3. home \in Folders \cup {Root} /\ sight \in Visibility /\ owner \in Departments
  BY Edits DEF DocRow, Given
<1> HIDE DEF status, home, sight, owner
<1> QED BY <1>1, <1>2, <1>3 DEF DocRow

LEMMA NormalizedType ==
  ASSUME NEW rights \in BaseRights
  PROVE  [rights EXCEPT !.access = Normalized(@, rights.visibility)] \in BaseWant
BY Edits, Names DEF Normalized, BaseWant

LEMMA PathType == ASSUME TypeOK, NEW f \in {Root} \cup Folders PROVE PathOf(f) \in Seq(Folders)
BY Names DEF TypeOK, FolderRow, PathOf

-----------------------------------------------------------------------------
(* Checks leave the tables alone and make one request known.               *)

LEMMA CheckedType ==
  ASSUME Typed, NEW r \in Requests, NEW kind, NEW x, NEW want, NEW seen, Checked(r, kind, x, want, seen),
         RequestOK([kind |-> kind, on |-> x, want |-> want, seen |-> seen])
  PROVE  Typed'
<1> DEFINE q == [kind |-> kind, on |-> x, want |-> want, seen |-> seen]
<1>1. req' = [req EXCEPT ![r] = q] /\ UNCHANGED <<tables, history>>
  BY DEF Checked
<1>2. RequestOK(q)
  OBVIOUS
<1> HIDE DEF q
<1>3. DOMAIN req' = Requests /\ \A u \in Requests : req'[u] = IF u = r THEN q ELSE req[u]
  BY <1>1 DEF Typed, Requested
<1>4. \A u \in Requests : RequestOK(req'[u])
  BY <1>2, <1>3 DEF Typed, Requested
<1>5. Requested'
  BY <1>3, <1>4 DEF Requested, RequestOK
<1>6. TypeOK'
  BY <1>1 DEF Typed, TypeOK, tables, history
<1> QED  BY <1>5, <1>6 DEF Typed

LEMMA CheckBaseType ==
  ASSUME Typed, NEW r \in Requests, NEW b \in Bases,
         \/ \E rights \in BaseRights : CheckCreateBase(r, b, rights) \/ CheckReplaceBase(r, b, rights)
         \/ \E edit \in BaseEdits : CheckPatchBase(r, b, edit)
         \/ CheckDeleteBase(r, b)
  PROVE  Typed'
<1>0. base[b] \in BaseRow
  BY DEF Typed, TypeOK
<1>1. ASSUME NEW rights \in BaseRights, CheckCreateBase(r, b, rights) PROVE Typed'
  <2> DEFINE row == [rights EXCEPT !.access = Normalized(@, rights.visibility)]
  <2>1. row \in BaseWant
    BY NormalizedType
  <2>2. FitsDefaults(row) /\ Checked(r, "create_base", b, row, base[b])
    BY <1>1 DEF CheckCreateBase, FitsDefaults
  <2> HIDE DEF row
  <2>3. RequestOK([kind |-> "create_base", on |-> b, want |-> row, seen |-> base[b]])
    BY <2>1, <2>2 DEF RequestOK
  <2> QED  BY <2>2, <2>3, CheckedType
<1>2. ASSUME NEW rights \in BaseRights, CheckReplaceBase(r, b, rights) PROVE Typed'
  <2> DEFINE row == [rights EXCEPT !.access = Normalized(@, rights.visibility)]
  <2>1. row \in BaseWant
    BY NormalizedType
  <2>2. FitsDefaults(row) /\ Checked(r, "replace_base", b, row, base[b])
    BY <1>2 DEF CheckReplaceBase, FitsDefaults
  <2> HIDE DEF row
  <2>3. RequestOK([kind |-> "replace_base", on |-> b, want |-> row, seen |-> base[b]])
    BY <1>0, <2>1, <2>2 DEF RequestOK
  <2> QED  BY <2>2, <2>3, CheckedType
<1>3. ASSUME NEW edit \in BaseEdits, CheckPatchBase(r, b, edit) PROVE Typed'
  <2>1. /\ Defaults(EditedBase(base[b], edit)) # Defaults(base[b]) => FitsDefaults(EditedBase(base[b], edit))
        /\ Checked(r, "patch_base", b, edit, base[b])
    BY <1>3 DEF CheckPatchBase, FitsDefaults, Defaults
  <2>2. RequestOK([kind |-> "patch_base", on |-> b, want |-> edit, seen |-> base[b]])
    BY <1>0, <2>1 DEF RequestOK
  <2> QED  BY <2>1, <2>2, CheckedType
<1>4. CASE CheckDeleteBase(r, b)
  <2>1. RequestOK([kind |-> "delete_base", on |-> b, want |-> base[b], seen |-> base[b]])
    BY DEF RequestOK
  <2> QED  BY <1>4, <2>1, CheckedType DEF CheckDeleteBase
<1> QED  BY <1>1, <1>2, <1>3, <1>4

LEMMA CheckDocumentType ==
  ASSUME Typed, NEW r \in Requests, NEW d \in Docs,
         \/ \E want \in Imports : CheckImport(r, d, want)
         \/ \E edit \in DocumentEdits : CheckPatchDocument(r, d, edit) \/ CheckReplaceDocument(r, d, edit)
         \/ CheckDeleteDocument(r, d)
  PROVE  Typed'
<1>0. doc[d] \in DocRow /\ base[Home[d]] \in BaseRow
  BY Names DEF Typed, TypeOK
<1>1. ASSUME NEW want \in Imports, CheckImport(r, d, want) PROVE Typed'
  <2> DEFINE parent == base[Home[d]]
             row == [folder |-> want.folder, visibility |-> Given(parent.defaultVisibility, want.visibility),
                     owner |-> OwnerOf(parent, want)]
  <2>1. row \in DocWant
    BY <1>0, Edits DEF DocWant, Given, OwnerOf, BaseRow
  <2>2. Checked(r, "import", d, row, doc[d])
    BY <1>1 DEF CheckImport
  <2> HIDE DEF row
  <2>3. RequestOK([kind |-> "import", on |-> d, want |-> row, seen |-> doc[d]])
    BY <2>1 DEF RequestOK
  <2> QED  BY <2>2, <2>3, CheckedType
<1>2. ASSUME NEW edit \in DocumentEdits, CheckPatchDocument(r, d, edit) PROVE Typed'
  <2>1. RequestOK([kind |-> "patch_document", on |-> d, want |-> edit, seen |-> doc[d]])
    BY <1>0 DEF RequestOK
  <2> QED  BY <1>2, <2>1, CheckedType DEF CheckPatchDocument
<1>3. ASSUME NEW edit \in DocumentEdits, CheckReplaceDocument(r, d, edit) PROVE Typed'
  <2>1. EditedDoc(doc[d], edit) \in DocRow
    BY <1>0, EditedDocType
  <2>2. RequestOK([kind |-> "replace_document", on |-> d, want |-> EditedDoc(doc[d], edit), seen |-> doc[d]])
    BY <1>0, <2>1 DEF RequestOK
  <2> QED  BY <1>3, <2>2, CheckedType DEF CheckReplaceDocument
<1>4. CASE CheckDeleteDocument(r, d)
  <2>1. RequestOK([kind |-> "delete_document", on |-> d, want |-> doc[d], seen |-> doc[d]])
    BY DEF RequestOK
  <2> QED  BY <1>4, <2>1, CheckedType DEF CheckDeleteDocument
<1> QED  BY <1>1, <1>2, <1>3, <1>4

LEMMA CheckFolderType ==
  ASSUME Typed, NEW r \in Requests, NEW f \in Folders,
         \/ \E parent \in {Root} \cup Folders : CheckCreateFolder(r, f, parent)
         \/ \E edit \in FolderEdits : CheckPatchFolder(r, f, edit)
         \/ CheckDeleteFolder(r, f)
  PROVE  Typed'
<1>1. ASSUME NEW parent \in {Root} \cup Folders, CheckCreateFolder(r, f, parent) PROVE Typed'
  <2>1. PathOf(parent) \in Seq(Folders) /\ parent # f
    BY <1>1, PathType, Names DEF Typed, CheckCreateFolder, Open
  <2>2. RequestOK([kind |-> "create_folder", on |-> f, want |-> parent, seen |-> PathOf(parent)])
    BY <2>1 DEF RequestOK
  <2> QED  BY <1>1, <2>2, CheckedType DEF CheckCreateFolder
<1>2. ASSUME NEW edit \in FolderEdits, CheckPatchFolder(r, f, edit) PROVE Typed'
  <2> DEFINE seen == IF edit.parent = Keep THEN <<>> ELSE PathOf(edit.parent)
  <2>1. seen \in Seq(Folders)
    BY Edits, PathType DEF Typed
  <2>2. Checked(r, "patch_folder", f, edit, seen) /\ (edit.parent # Keep => edit.parent # f)
    BY <1>2 DEF CheckPatchFolder
  <2> HIDE DEF seen
  <2>3. RequestOK([kind |-> "patch_folder", on |-> f, want |-> edit, seen |-> seen])
    BY <2>1, <2>2 DEF RequestOK
  <2> QED  BY <2>2, <2>3, CheckedType
<1>3. CASE CheckDeleteFolder(r, f)
  <2>1. RequestOK([kind |-> "delete_folder", on |-> f, want |-> f, seen |-> f])
    BY DEF RequestOK
  <2> QED  BY <1>3, <2>1, CheckedType DEF CheckDeleteFolder
<1> QED  BY <1>1, <1>2, <1>3

LEMMA CheckType == ASSUME Typed, NEW r \in Requests, Check(r) PROVE Typed'
BY CheckBaseType, CheckDocumentType, CheckFolderType DEF Check

-----------------------------------------------------------------------------
(* Writes keep the types of the tables and end their request.              *)

LEMMA RenewedType ==
  ASSUME TypeOK, NEW x \in Governed, NEW version \in Nat, NEW visibility \in Visibility, NEW owner \in Departments
  PROVE  Renewed(x, version, visibility, owner) \in [Governed -> PolicyRow]
<1> DEFINE row == [last |-> version, active |-> TRUE, visibility |-> visibility, owner |-> owner]
<1>1. row \in PolicyRow
  BY DEF PolicyRow
<1>2. Renewed(x, version, visibility, owner) = [policy EXCEPT ![x] = row]
  BY DEF Renewed
<1> HIDE DEF row
<1> QED  BY <1>1, <1>2 DEF TypeOK

LEMMA ArchivedType == ASSUME TypeOK, NEW x \in Governed PROVE Archived(x) \in [Governed -> PolicyRow]
<1> DEFINE row == [policy[x] EXCEPT !.active = FALSE]
<1>1. row \in PolicyRow
  BY DEF TypeOK, PolicyRow
<1>2. Archived(x) = [policy EXCEPT ![x] = row]
  BY DEF Archived
<1> HIDE DEF row
<1> QED  BY <1>1, <1>2 DEF TypeOK

LEMMA PolicyVisibilityType == \A v : PolicyVisibility(v) \in Visibility
BY DEF PolicyVisibility, Visibility

LEMMA BlockedType ==
  ASSUME TypeOK, NEW x \in Resources, NEW reason \in {"deleted", "permission_tightened"}
  PROVE  Blocked(x, reason) \subseteq BlockRow
BY DEF TypeOK, Blocked, BlockRow

LEMMA RefreshingType == ASSUME TypeOK, NEW x \in Governed PROVE Refreshing(x) \subseteq Governed
BY DEF TypeOK, Refreshing

LEMMA CreateBaseType ==
  ASSUME Typed, NEW r \in Requests, req[r].kind = "create_base", CreateBase(r) PROVE TypeOK'
<1> DEFINE b == req[r].on
           want == req[r].want
           row == [status |-> "active", visibility |-> want.visibility, access |-> want.access,
                   defaultVisibility |-> want.defaultVisibility, defaultOwner |-> want.defaultOwner, version |-> 1]
<1>1. b \in Bases /\ b \in Governed /\ want \in BaseWant
  BY Names DEF Typed, Requested, RequestOK
<1>2. row \in BaseRow
  BY <1>1 DEF BaseWant, BaseRow
<1>3. policy' \in [Governed -> PolicyRow]
  BY <1>1, RenewedType, PolicyVisibilityType, Names DEF CreateBase, Typed
<1>4. base' = [base EXCEPT ![b] = row] /\ UNCHANGED <<folder, doc, block, refresh, history>>
  BY DEF CreateBase
<1> HIDE DEF b, want, row
<1> QED  BY <1>1, <1>2, <1>3, <1>4 DEF Typed, TypeOK, history

LEMMA PatchBaseType ==
  ASSUME Typed, NEW r \in Requests, req[r].kind = "patch_base", PatchBase(r) PROVE TypeOK'
<1> DEFINE b == req[r].on
           seen == req[r].seen
           edit == req[r].want
           next == EditedBase(seen, edit)
           changed == next.visibility # seen.visibility
           row == [status |-> Given(base[b].status, edit.status), visibility |-> Given(base[b].visibility, edit.visibility),
                   access |-> IF next.access = seen.access THEN base[b].access ELSE next.access,
                   defaultVisibility |-> Given(base[b].defaultVisibility, edit.defaultVisibility),
                   defaultOwner |-> Given(base[b].defaultOwner, edit.defaultOwner),
                   version |-> IF changed THEN seen.version + 1 ELSE base[b].version]
<1>1. b \in Bases /\ b \in Governed /\ edit \in BaseEdits /\ seen \in BaseRow /\ base[b] \in BaseRow
  BY Names DEF Typed, TypeOK, Requested, RequestOK
<1>2. next \in BaseRow
  BY <1>1, EditedBaseType
<1>3. row \in BaseRow
  BY <1>1, <1>2, Edits DEF BaseRow, Given
<1>4. seen.version + 1 \in Nat
  BY <1>1 DEF BaseRow
<1>5. policy' \in [Governed -> PolicyRow]
  BY <1>1, <1>4, RenewedType, PolicyVisibilityType, Names DEF PatchBase, Typed, TypeOK
<1>6. refresh' \subseteq Governed /\ stale' \subseteq Governed
  BY <1>1, RefreshingType DEF PatchBase, Typed, TypeOK
<1>7. base' = [base EXCEPT ![b] = row] /\ UNCHANGED <<folder, doc, block, shifted>>
  BY DEF PatchBase
<1> HIDE DEF b, seen, edit, next, row, changed
<1> QED  BY <1>1, <1>3, <1>5, <1>6, <1>7 DEF Typed, TypeOK

LEMMA DeleteBaseType ==
  ASSUME Typed, NEW r \in Requests, req[r].kind = "delete_base", DeleteBase(r) PROVE TypeOK'
<1> DEFINE b == req[r].on
           row == [base[b] EXCEPT !.status = "deleted"]
<1>1. b \in Bases /\ b \in Governed /\ b \in Resources /\ base[b] \in BaseRow
  BY Names DEF Typed, TypeOK, Requested, RequestOK
<1>2. row \in BaseRow
  BY <1>1 DEF BaseRow
<1>3. policy' \in [Governed -> PolicyRow] /\ block' \subseteq BlockRow
  BY <1>1, ArchivedType, BlockedType DEF DeleteBase, Typed
<1>4. base' = [base EXCEPT ![b] = row] /\ UNCHANGED <<folder, doc, refresh, history>>
  BY DEF DeleteBase
<1> HIDE DEF b, row
<1> QED  BY <1>1, <1>2, <1>3, <1>4 DEF Typed, TypeOK, history

LEMMA ReplaceBaseType ==
  ASSUME Typed, NEW r \in Requests, req[r].kind = "replace_base", ReplaceBase(r) PROVE TypeOK'
<1> DEFINE b == req[r].on
           want == req[r].want
           version == req[r].seen.version + 1
           row == IF Listed(b)
                  THEN [status |-> base[b].status, visibility |-> want.visibility, access |-> want.access,
                        defaultVisibility |-> want.defaultVisibility, defaultOwner |-> want.defaultOwner,
                        version |-> version]
                  ELSE WithRules(base[b], want.access)
<1>1. b \in Bases /\ b \in Governed /\ want \in BaseWant /\ base[b] \in BaseRow /\ version \in Nat
  BY Names DEF Typed, TypeOK, Requested, RequestOK, BaseRow
<1>2. row \in BaseRow
  BY <1>1 DEF BaseRow, BaseWant, WithRules
<1>3. policy' \in [Governed -> PolicyRow]
  BY <1>1, RenewedType, PolicyVisibilityType, Names DEF ReplaceBase, Typed
<1>4. refresh' \subseteq Governed /\ stale' \subseteq Governed
  BY <1>1, RefreshingType DEF ReplaceBase, Typed, TypeOK
<1>5. base' = [base EXCEPT ![b] = row] /\ UNCHANGED <<folder, doc, block, shifted>>
  BY DEF ReplaceBase
<1> HIDE DEF b, want, version, row
<1> QED  BY <1>1, <1>2, <1>3, <1>4, <1>5 DEF Typed, TypeOK

LEMMA ImportType ==
  ASSUME Typed, NEW r \in Requests, req[r].kind = "import", Import(r) PROVE TypeOK'
<1> DEFINE d == req[r].on
           want == req[r].want
           row == [status |-> "draft", folder |-> want.folder, visibility |-> want.visibility,
                   owner |-> want.owner, version |-> 1]
<1>1. d \in Docs /\ d \in Governed /\ want \in DocWant
  BY Names DEF Typed, Requested, RequestOK
<1>2. row \in DocRow
  BY <1>1 DEF DocWant, DocRow
<1>3. policy' \in [Governed -> PolicyRow]
  BY <1>1, RenewedType DEF Import, Typed, DocWant
<1>4. doc' = [doc EXCEPT ![d] = row] /\ UNCHANGED <<base, folder, block, refresh, history>>
  BY DEF Import
<1> HIDE DEF d, want, row
<1> QED  BY <1>1, <1>2, <1>3, <1>4 DEF Typed, TypeOK, history

LEMMA PatchDocumentType ==
  ASSUME Typed, NEW r \in Requests, req[r].kind = "patch_document", PatchDocument(r) PROVE TypeOK'
<1> DEFINE d == req[r].on
           seen == req[r].seen
           edit == req[r].want
           next == EditedDoc(seen, edit)
           changed == DocPermission(next) # DocPermission(seen)
           row == [EditedDoc(doc[d], edit) EXCEPT !.version = IF changed THEN seen.version + 1 ELSE @]
<1>1. /\ d \in Docs /\ d \in Governed /\ d \in Resources /\ edit \in DocumentEdits /\ seen \in DocRow
      /\ doc[d] \in DocRow
  BY Names DEF Typed, TypeOK, Requested, RequestOK
<1>2. next \in DocRow /\ EditedDoc(doc[d], edit) \in DocRow
  BY <1>1, EditedDocType
<1>3. row \in DocRow /\ seen.version + 1 \in Nat
  BY <1>1, <1>2 DEF DocRow
<1>4. policy' \in [Governed -> PolicyRow]
  <2>1. next.visibility \in Visibility /\ next.owner \in Departments
    BY <1>2 DEF DocRow
  <2> QED  BY <1>1, <1>3, <2>1, RenewedType DEF PatchDocument, Typed, TypeOK
<1>5. refresh' \subseteq Governed /\ stale' \subseteq Governed /\ block' \subseteq BlockRow
  BY <1>1, RefreshingType, BlockedType DEF PatchDocument, Typed, TypeOK
<1>6. doc' = [doc EXCEPT ![d] = row] /\ UNCHANGED <<base, folder, shifted>>
  BY DEF PatchDocument
<1> HIDE DEF d, seen, edit, next, row, changed
<1> QED  BY <1>1, <1>3, <1>4, <1>5, <1>6 DEF Typed, TypeOK

LEMMA DeleteDocumentType ==
  ASSUME Typed, NEW r \in Requests, req[r].kind = "delete_document", DeleteDocument(r) PROVE TypeOK'
<1> DEFINE d == req[r].on
           row == [doc[d] EXCEPT !.status = "deleted"]
<1>1. d \in Docs /\ d \in Governed /\ d \in Resources /\ doc[d] \in DocRow
  BY Names DEF Typed, TypeOK, Requested, RequestOK
<1>2. row \in DocRow
  BY <1>1 DEF DocRow
<1>3. policy' \in [Governed -> PolicyRow] /\ block' \subseteq BlockRow
  BY <1>1, ArchivedType, BlockedType DEF DeleteDocument, Typed
<1>4. doc' = [doc EXCEPT ![d] = row] /\ UNCHANGED <<base, folder, refresh, history>>
  BY DEF DeleteDocument
<1> HIDE DEF d, row
<1> QED  BY <1>1, <1>2, <1>3, <1>4 DEF Typed, TypeOK, history

LEMMA ReplaceDocumentType ==
  ASSUME Typed, NEW r \in Requests, req[r].kind = "replace_document", ReplaceDocument(r) PROVE TypeOK'
<1> DEFINE d == req[r].on
           want == req[r].want
           version == req[r].seen.version + 1
           row == IF Kept(d) THEN [doc[d] EXCEPT !.visibility = want.visibility, !.owner = want.owner, !.version = version]
                  ELSE doc[d]
<1>1. /\ d \in Docs /\ d \in Governed /\ d \in Resources /\ want \in DocRow /\ doc[d] \in DocRow /\ version \in Nat
      /\ want.visibility \in Visibility /\ want.owner \in Departments
  BY Names DEF Typed, TypeOK, Requested, RequestOK, DocRow
<1>2. row \in DocRow
  BY <1>1 DEF DocRow
<1>3. policy' \in [Governed -> PolicyRow] /\ block' \subseteq BlockRow
  BY <1>1, RenewedType, BlockedType DEF ReplaceDocument, Typed, TypeOK
<1>4. refresh' \subseteq Governed /\ stale' \subseteq Governed
  BY <1>1, RefreshingType DEF ReplaceDocument, Typed, TypeOK
<1>5. doc' = [doc EXCEPT ![d] = row] /\ UNCHANGED <<base, folder, shifted>>
  BY DEF ReplaceDocument
<1> HIDE DEF d, want, version, row
<1> QED  BY <1>1, <1>2, <1>3, <1>4, <1>5 DEF Typed, TypeOK

LEMMA FolderType ==
  ASSUME Typed, NEW r \in Requests, WriteFolder(r) PROVE TypeOK'
<1> DEFINE f == req[r].on
<1>1. CASE req[r].kind = "create_folder" /\ CreateFolder(r)
  <2> DEFINE row == [status |-> "active", parent |-> req[r].want, path |-> Append(req[r].seen, f)]
  <2>1. f \in Folders /\ req[r].want \in {Root} \cup Folders /\ req[r].seen \in Seq(Folders)
    BY <1>1 DEF Typed, Requested, RequestOK
  <2>2. row \in FolderRow
    BY <2>1, AppendProperties DEF FolderRow
  <2>3. /\ folder' = [folder EXCEPT ![f] = row] /\ UNCHANGED <<base, doc, policy, block, refresh, stale>>
        /\ shifted' \in BOOLEAN
    BY <1>1 DEF CreateFolder, Typed, TypeOK
  <2> HIDE DEF row, f
  <2> QED  BY <2>1, <2>2, <2>3 DEF Typed, TypeOK
<1>2. CASE req[r].kind = "patch_folder" /\ PatchFolder(r)
  <2> DEFINE edit == req[r].want
             row == [status |-> Given(folder[f].status, edit.status), parent |-> Given(folder[f].parent, edit.parent),
                     path |-> IF edit.parent # Keep THEN Append(req[r].seen, f) ELSE folder[f].path]
  <2>1. f \in Folders /\ edit \in FolderEdits /\ req[r].seen \in Seq(Folders) /\ folder[f] \in FolderRow
    BY <1>2 DEF Typed, TypeOK, Requested, RequestOK
  <2>2. row \in FolderRow
    BY <2>1, Edits, AppendProperties DEF FolderRow, Given
  <2>3. /\ folder' = [folder EXCEPT ![f] = row] /\ UNCHANGED <<base, doc, policy, block, refresh, stale>>
        /\ shifted' \in BOOLEAN
    BY <1>2 DEF PatchFolder, Typed, TypeOK
  <2> HIDE DEF row, f, edit
  <2> QED  BY <2>1, <2>2, <2>3 DEF Typed, TypeOK
<1>3. CASE req[r].kind = "delete_folder" /\ DeleteFolder(r)
  <2> DEFINE row == [folder[f] EXCEPT !.status = "deleted"]
  <2>1. f \in Folders /\ f \in Resources /\ folder[f] \in FolderRow
    BY <1>3, Names DEF Typed, TypeOK, Requested, RequestOK
  <2>2. row \in FolderRow
    BY <2>1 DEF FolderRow
  <2>3. /\ folder' = [folder EXCEPT ![f] = row] /\ UNCHANGED <<base, doc, policy, refresh, history>>
        /\ block' \subseteq BlockRow
    BY <1>3, <2>1, BlockedType DEF DeleteFolder, Typed
  <2> HIDE DEF row, f
  <2> QED  BY <2>1, <2>2, <2>3 DEF Typed, TypeOK, history
<1> QED  BY <1>1, <1>2, <1>3 DEF WriteFolder

LEMMA FinishType == ASSUME Typed, NEW r \in Requests, Finish(r) PROVE Requested'
<1>1. DOMAIN req' = Requests /\ \A u \in Requests : req'[u] = IF u = r THEN Done ELSE req[u]
  BY DEF Finish, Typed, Requested
<1>2. \A u \in Requests : RequestOK(req'[u])
  BY <1>1, RestingOK DEF Typed, Requested
<1> QED  BY <1>1, <1>2 DEF Requested, RequestOK

LEMMA WriteType == ASSUME Typed, NEW r \in Requests, Write(r) PROVE Typed'
<1>1. CASE WriteBase(r)
  BY <1>1, CreateBaseType, PatchBaseType, DeleteBaseType, ReplaceBaseType, FinishType DEF WriteBase, Write, Typed
<1>2. CASE WriteDocument(r)
  BY <1>2, ImportType, PatchDocumentType, DeleteDocumentType, ReplaceDocumentType, FinishType
     DEF WriteDocument, Write, Typed
<1>3. CASE WriteFolder(r)
  BY <1>3, FolderType, FinishType DEF Write, Typed
<1> QED  BY <1>1, <1>2, <1>3 DEF Write

-----------------------------------------------------------------------------
(* The kinds of step.  Besides requests, workers publish and refresh       *)
(* documents, and users read.                                              *)

(* A worker's step changes no row of a base or folder, and no permission of*)
(* a document.                                                             *)
WorkStep(d) ==
  /\ UNCHANGED <<base, folder, policy, req, history>>
  /\ doc' = doc \/ (Kept(d) /\ doc' = [doc EXCEPT ![d].status = "active"])
  /\ refresh' \subseteq refresh /\ block' \subseteq block

LEMMA Steps ==
  ASSUME [BrowseNext]_browseVars
  PROVE  \/ \E r \in Requests : Check(r) \/ Write(r) \/ Abort(r)
         \/ \E d \in Docs : WorkStep(d)
         \/ UNCHANGED vars
<1>1. CASE Browse
  BY <1>1 DEF Browse, allVars
<1>2. CASE Ask
  BY <1>2 DEF Ask
<1>3. CASE Administer
  BY <1>3 DEF Administer, AdminNext
<1>4. CASE Work
  <2>1. ASSUME NEW d \in Docs, PublishDocument(d) PROVE WorkStep(d)
    BY <2>1 DEF PublishDocument, WorkStep
  <2>2. ASSUME NEW d \in Docs, RefreshDocument(d) PROVE WorkStep(d)
    BY <2>2 DEF RefreshDocument, WorkStep
  <2> QED  BY <1>4, <2>1, <2>2 DEF Work
<1>5. CASE Reassign
  BY <1>5 DEF Reassign
<1>6. CASE Reindex
  BY <1>6 DEF Reindex, RebuildDocument, CleanupDocument
<1>7. CASE UNCHANGED browseVars
  BY <1>7 DEF browseVars, allVars
<1> QED  BY <1>1, <1>2, <1>3, <1>4, <1>5, <1>6, <1>7 DEF BrowseNext, Others, Meanwhile

LEMMA AbortStep == ASSUME NEW r \in Requests, Abort(r) PROVE Finish(r) /\ UNCHANGED <<tables, history>>
BY DEF Abort

LEMMA WorkType == ASSUME Typed, NEW d \in Docs, WorkStep(d) PROVE Typed'
<1>1. doc' \in [Docs -> DocRow]
  <2> DEFINE row == [doc[d] EXCEPT !.status = "active"]
  <2>1. row \in DocRow
    BY DEF Typed, TypeOK, DocRow
  <2>2. doc' = doc \/ doc' = [doc EXCEPT ![d] = row]
    BY DEF WorkStep
  <2> HIDE DEF row
  <2> QED  BY <2>1, <2>2 DEF Typed, TypeOK
<1>2. Requested'
  BY DEF WorkStep, Typed, Requested, RequestOK
<1> QED  BY <1>1, <1>2 DEF WorkStep, Typed, TypeOK, history

LEMMA TypeStep == Typed /\ [BrowseNext]_browseVars => Typed'
<1> SUFFICES ASSUME Typed, [BrowseNext]_browseVars PROVE Typed'
  OBVIOUS
<1>1. ASSUME NEW r \in Requests, Abort(r) PROVE Typed'
  <2>1. Requested' /\ UNCHANGED <<tables, history>>
    BY <1>1, AbortStep, FinishType
  <2> QED  BY <2>1 DEF Typed, TypeOK, tables, history
<1>2. CASE UNCHANGED vars
  <2>1. Requested'
    BY <1>2 DEF Typed, Requested, RequestOK, vars
  <2> QED  BY <1>2, <2>1 DEF Typed, TypeOK, vars, tables, history
<1> QED  BY <1>1, <1>2, Steps, CheckType, WriteType, WorkType

-----------------------------------------------------------------------------
(* The defaults of a knowledge base.                                       *)

LEMMA FitRow == DefaultsFit <=> \A b \in Bases \ stale : Listed(b) => FitsDefaults(base[b])
BY DEF DefaultsFit, FitsDefaults, Within

(* A row that is written for one base fits; the others keep theirs.        *)
LEMMA FitWritten ==
  ASSUME Typed, DefaultsFit, NEW b \in Bases, NEW row,
         base' = [base EXCEPT ![b] = row], stale \subseteq stale' \cup {b},
         b \notin stale' /\ row.status \notin {"none", "deleted"} => FitsDefaults(row)
  PROVE  DefaultsFit'
<1>1. \A c \in Bases : base'[c] = IF c = b THEN row ELSE base[c]
  BY DEF Typed, TypeOK
<1>2. \A c \in Bases \ stale' : base'[c].status \notin {"none", "deleted"} => FitsDefaults(base'[c])
  BY <1>1, FitRow DEF Listed
<1> QED  BY <1>2 DEF DefaultsFit, FitsDefaults, Within, Listed

LEMMA FitKept ==
  ASSUME DefaultsFit, base' = base, stale \cap Bases \subseteq stale' PROVE DefaultsFit'
BY DEF DefaultsFit, Within, Listed

LEMMA PatchBaseFit ==
  ASSUME Typed, DefaultsFit, NEW r \in Requests, req[r].kind = "patch_base", PatchBase(r) PROVE DefaultsFit'
<1> DEFINE b == req[r].on
           seen == req[r].seen
           edit == req[r].want
           next == EditedBase(seen, edit)
           old == base[b]
           row == [status |-> Given(old.status, edit.status), visibility |-> Given(old.visibility, edit.visibility),
                   access |-> IF next.access = seen.access THEN old.access ELSE next.access,
                   defaultVisibility |-> Given(old.defaultVisibility, edit.defaultVisibility),
                   defaultOwner |-> Given(old.defaultOwner, edit.defaultOwner),
                   version |-> IF next.visibility # seen.visibility THEN seen.version + 1 ELSE old.version]
<1>1. /\ b \in Bases /\ edit \in BaseEdits /\ seen \in BaseRow /\ old \in BaseRow
      /\ Defaults(next) # Defaults(seen) => FitsDefaults(next)
  BY DEF Typed, TypeOK, Requested, RequestOK
<1>2. /\ base' = [base EXCEPT ![b] = row] /\ Listed(b) /\ stale \subseteq stale'
      /\ b \notin stale' =>
           \/ BasePermission(old) = BasePermission(seen)
           \/ {edit.visibility, edit.defaultVisibility, edit.defaultOwner} = {Keep} /\ next.access = seen.access
  BY DEF PatchBase
<1>3. /\ next.visibility = Given(seen.visibility, edit.visibility)
      /\ next.access = Normalized(seen.access, next.visibility)
      /\ next.defaultVisibility = Given(seen.defaultVisibility, edit.defaultVisibility)
      /\ next.defaultOwner = Given(seen.defaultOwner, edit.defaultOwner)
  BY <1>1 DEF EditedBase, BaseRow
<1>4. /\ row.visibility = Given(old.visibility, edit.visibility)
      /\ row.access = IF next.access = seen.access THEN old.access ELSE next.access
      /\ row.defaultVisibility = Given(old.defaultVisibility, edit.defaultVisibility)
      /\ row.defaultOwner = Given(old.defaultOwner, edit.defaultOwner)
  OBVIOUS
<1> HIDE DEF b, seen, edit, next, row
<1>5. ASSUME b \notin stale' PROVE FitsDefaults(row)
  <2>1. FitsDefaults(old)
    BY <1>1, <1>2, <1>5, FitRow DEF old
  <2> HIDE DEF old
  <2>2. CASE {edit.visibility, edit.defaultVisibility, edit.defaultOwner} = {Keep} /\ next.access = seen.access
    <3>1. edit.visibility = Keep /\ edit.defaultVisibility = Keep /\ edit.defaultOwner = Keep
      BY <2>2
    <3>2. /\ row.visibility = old.visibility /\ row.access = old.access
          /\ row.defaultVisibility = old.defaultVisibility /\ row.defaultOwner = old.defaultOwner
      BY <1>4, <2>2, <3>1 DEF Given
    <3> QED  BY <2>1, <3>2 DEF FitsDefaults, Within
  <2>3. CASE BasePermission(old) = BasePermission(seen)
    <3>1. /\ old.visibility = seen.visibility /\ old.access = seen.access
          /\ old.defaultVisibility = seen.defaultVisibility /\ old.defaultOwner = seen.defaultOwner
      BY <2>3 DEF BasePermission
    <3>2. /\ row.visibility = next.visibility /\ row.access = next.access
          /\ row.defaultVisibility = next.defaultVisibility /\ row.defaultOwner = next.defaultOwner
      BY <1>3, <1>4, <3>1
    <3>3. CASE Defaults(next) # Defaults(seen)
      BY <1>1, <3>2, <3>3 DEF FitsDefaults, Within
    <3>4. CASE Defaults(next) = Defaults(seen)
      <4>1. /\ next.visibility = old.visibility /\ next.defaultVisibility = old.defaultVisibility
            /\ next.defaultOwner = old.defaultOwner
        BY <3>1, <3>4 DEF Defaults
      <4>2. old.access \subseteq next.access
        BY <1>3, <3>1 DEF Normalized
      <4> QED  BY <2>1, <3>2, <4>1, <4>2 DEF FitsDefaults, Within
    <3> QED  BY <3>3, <3>4
  <2> QED  BY <1>2, <1>5, <2>2, <2>3
<1> QED  BY <1>1, <1>2, <1>5, FitWritten

LEMMA WriteBaseFit == ASSUME Typed, DefaultsFit, NEW r \in Requests, WriteBase(r) PROVE DefaultsFit'
<1> DEFINE b == req[r].on
           want == req[r].want
<1>1. CASE req[r].kind = "create_base" /\ CreateBase(r)
  <2> DEFINE row == [status |-> "active", visibility |-> want.visibility, access |-> want.access,
                     defaultVisibility |-> want.defaultVisibility, defaultOwner |-> want.defaultOwner, version |-> 1]
  <2>1. b \in Bases /\ FitsDefaults(want)
    BY <1>1 DEF Typed, Requested, RequestOK
  <2>2. FitsDefaults(row)
    BY <2>1 DEF FitsDefaults, Within
  <2>3. base' = [base EXCEPT ![b] = row] /\ stale' = stale
    BY <1>1 DEF CreateBase, history
  <2> HIDE DEF row, b, want
  <2> QED  BY <2>1, <2>2, <2>3, FitWritten
<1>2. CASE req[r].kind = "patch_base" /\ PatchBase(r)
  BY <1>2, PatchBaseFit
<1>3. CASE req[r].kind = "delete_base" /\ DeleteBase(r)
  <2> DEFINE row == [base[b] EXCEPT !.status = "deleted"]
  <2>1. b \in Bases /\ base[b] \in BaseRow
    BY <1>3 DEF Typed, TypeOK, Requested, RequestOK
  <2>2. row.status = "deleted"
    BY <2>1 DEF BaseRow
  <2>3. base' = [base EXCEPT ![b] = row] /\ stale' = stale
    BY <1>3 DEF DeleteBase, history
  <2> HIDE DEF row, b
  <2> QED  BY <2>1, <2>2, <2>3, FitWritten
<1>4. CASE req[r].kind = "replace_base" /\ ReplaceBase(r)
  <2> DEFINE version == req[r].seen.version + 1
             row == IF Listed(b)
                    THEN [status |-> base[b].status, visibility |-> want.visibility, access |-> want.access,
                          defaultVisibility |-> want.defaultVisibility, defaultOwner |-> want.defaultOwner,
                          version |-> version]
                    ELSE WithRules(base[b], want.access)
  <2>1. b \in Bases /\ FitsDefaults(want) /\ base[b] \in BaseRow
    BY <1>4 DEF Typed, TypeOK, Requested, RequestOK
  <2>2. row.status \notin {"none", "deleted"} => FitsDefaults(row)
    <3>1. CASE Listed(b)
      BY <2>1, <3>1 DEF FitsDefaults, Within
    <3>2. CASE ~Listed(b)
      BY <2>1, <3>2 DEF WithRules, BaseRow, Listed
    <3> QED  BY <3>1, <3>2
  <2>3. base' = [base EXCEPT ![b] = row] /\ stale' = stale \ {b}
    BY <1>4 DEF ReplaceBase
  <2> HIDE DEF row, b, want
  <2> QED  BY <2>1, <2>2, <2>3, FitWritten
<1> QED  BY <1>1, <1>2, <1>3, <1>4 DEF WriteBase

LEMMA WriteDocumentFit == ASSUME Typed, DefaultsFit, NEW r \in Requests, WriteDocument(r) PROVE DefaultsFit'
<1>1. req[r].kind \in {"import", "patch_document", "delete_document", "replace_document"} => req[r].on \in Docs
  BY DEF Typed, Requested, RequestOK
<1>2. base' = base /\ stale \cap Bases \subseteq stale'
  BY <1>1, Names DEF WriteDocument, Import, PatchDocument, DeleteDocument, ReplaceDocument, history
<1> QED  BY <1>2, FitKept

LEMMA FitStep == Typed /\ DefaultsFit /\ [BrowseNext]_browseVars => DefaultsFit'
<1> SUFFICES ASSUME Typed, DefaultsFit, [BrowseNext]_browseVars PROVE DefaultsFit'
  OBVIOUS
<1>1. ASSUME NEW r \in Requests, Write(r) PROVE DefaultsFit'
  <2>1. CASE WriteFolder(r)
    BY <2>1, FitKept DEF WriteFolder, CreateFolder, PatchFolder, DeleteFolder, history
  <2> QED  BY <1>1, <2>1, WriteBaseFit, WriteDocumentFit DEF Write
<1>2. ASSUME NEW r \in Requests, Check(r) PROVE base' = base /\ stale' = stale
  <2>1. UNCHANGED <<tables, history>>
    BY <1>2 DEF Check, Checked, CheckCreateBase, CheckReplaceBase, CheckPatchBase, CheckDeleteBase, CheckImport,
         CheckPatchDocument, CheckReplaceDocument, CheckDeleteDocument, CheckCreateFolder, CheckPatchFolder,
         CheckDeleteFolder
  <2> QED  BY <2>1 DEF tables, history
<1>3. ASSUME NEW r \in Requests, Abort(r) PROVE base' = base /\ stale' = stale
  BY <1>3 DEF Abort, tables, history
<1>4. ASSUME NEW d \in Docs, WorkStep(d) PROVE base' = base /\ stale' = stale
  BY <1>4 DEF WorkStep, history
<1>5. CASE UNCHANGED vars
  BY <1>5, FitKept DEF vars, tables, history
<1> QED  BY <1>1, <1>2, <1>3, <1>4, <1>5, Steps, FitKept

-----------------------------------------------------------------------------
(* Policies and rows.                                                      *)

BaseSays(row, p) ==
  row.status \notin {"none", "deleted"} =>
    p.active /\ p.last = row.version /\ p.visibility = PolicyVisibility(row.visibility)

DocSays(row, p) ==
  row.status \notin {"none", "deleted"} =>
    p.active /\ p.last = row.version /\ p.visibility = row.visibility /\ p.owner = row.owner

LEMMA AgreeRow ==
  PolicyAgrees <=> /\ \A b \in Bases \ stale : BaseSays(base[b], policy[b])
                   /\ \A d \in Docs \ stale : DocSays(doc[d], policy[d])
BY DEF PolicyAgrees, BaseSays, DocSays, Listed, Kept, PolicyVisibility

LEMMA AgreeAll ==
  ASSUME \A b \in Bases \ stale' : BaseSays(base'[b], policy'[b]),
         \A d \in Docs \ stale' : DocSays(doc'[d], policy'[d])
  PROVE  PolicyAgrees'
BY DEF PolicyAgrees, BaseSays, DocSays, Listed, Kept, PolicyVisibility

(* One row is written and perhaps its policy; the others stay as they are. *)
LEMMA AgreeBase ==
  ASSUME Typed, PolicyAgrees, NEW b \in Bases, NEW row,
         base' = [base EXCEPT ![b] = row], doc' = doc, \A x \in Governed \ {b} : policy'[x] = policy[x],
         stale \subseteq stale' \cup {b}, b \notin stale' => BaseSays(row, policy'[b])
  PROVE  PolicyAgrees'
<1>1. \A c \in Bases : base'[c] = IF c = b THEN row ELSE base[c]
  BY DEF Typed, TypeOK
<1>2. \A c \in Bases \ stale' : BaseSays(base'[c], policy'[c])
  BY <1>1, AgreeRow, Names
<1>3. \A d \in Docs \ stale' : DocSays(doc'[d], policy'[d])
  <2> SUFFICES ASSUME NEW d \in Docs \ stale' PROVE DocSays(doc'[d], policy'[d])
    OBVIOUS
  <2>1. d # b /\ d \in Governed
    BY Names
  <2> QED  BY <2>1, AgreeRow
<1> QED  BY <1>2, <1>3, AgreeAll

LEMMA AgreeDoc ==
  ASSUME Typed, PolicyAgrees, NEW d \in Docs, NEW row,
         doc' = [doc EXCEPT ![d] = row], base' = base, \A x \in Governed \ {d} : policy'[x] = policy[x],
         stale \subseteq stale' \cup {d}, d \notin stale' => DocSays(row, policy'[d])
  PROVE  PolicyAgrees'
<1>1. \A c \in Docs : doc'[c] = IF c = d THEN row ELSE doc[c]
  BY DEF Typed, TypeOK
<1>2. \A c \in Docs \ stale' : DocSays(doc'[c], policy'[c])
  BY <1>1, AgreeRow, Names
<1>3. \A b \in Bases \ stale' : BaseSays(base'[b], policy'[b])
  <2> SUFFICES ASSUME NEW b \in Bases \ stale' PROVE BaseSays(base'[b], policy'[b])
    OBVIOUS
  <2>1. d # b /\ b \in Governed
    BY Names
  <2> QED  BY <2>1, AgreeRow
<1> QED  BY <1>2, <1>3, AgreeAll

LEMMA RenewedRow ==
  ASSUME TypeOK, NEW x \in Governed, NEW version, NEW visibility, NEW owner,
         policy' = Renewed(x, version, visibility, owner)
  PROVE  /\ policy'[x].last = version /\ policy'[x].active
         /\ policy'[x].visibility = visibility /\ policy'[x].owner = owner
         /\ \A y \in Governed \ {x} : policy'[y] = policy[y]
<1> DEFINE row == [last |-> version, active |-> TRUE, visibility |-> visibility, owner |-> owner]
<1>1. policy' = [policy EXCEPT ![x] = row]
  BY DEF Renewed
<1>2. row.last = version /\ row.active /\ row.visibility = visibility /\ row.owner = owner
  OBVIOUS
<1> HIDE DEF row
<1>3. policy'[x] = row
  BY <1>1 DEF TypeOK
<1> QED  BY <1>1, <1>2, <1>3 DEF TypeOK

LEMMA ArchivedRow ==
  ASSUME TypeOK, NEW x \in Governed, policy' = Archived(x)
  PROVE  \A y \in Governed \ {x} : policy'[y] = policy[y]
BY DEF TypeOK, Archived

LEMMA CreateBaseAgrees ==
  ASSUME Typed, PolicyAgrees, NEW r \in Requests, req[r].kind = "create_base", CreateBase(r) PROVE PolicyAgrees'
<1> DEFINE b == req[r].on
           want == req[r].want
           row == [status |-> "active", visibility |-> want.visibility, access |-> want.access,
                   defaultVisibility |-> want.defaultVisibility, defaultOwner |-> want.defaultOwner, version |-> 1]
<1>1. b \in Bases /\ b \in Governed
  BY Names DEF Typed, Requested, RequestOK
<1>2. /\ base' = [base EXCEPT ![b] = row] /\ doc' = doc /\ stale' = stale
      /\ policy' = Renewed(b, 1, PolicyVisibility(want.visibility), Owner)
  BY DEF CreateBase, history
<1>3. row.version = 1 /\ row.visibility = want.visibility
  OBVIOUS
<1> HIDE DEF b, want, row
<1>4. BaseSays(row, policy'[b]) /\ \A y \in Governed \ {b} : policy'[y] = policy[y]
  BY <1>1, <1>2, <1>3, RenewedRow DEF Typed, BaseSays
<1> QED  BY <1>1, <1>2, <1>4, AgreeBase

LEMMA PatchBaseAgrees ==
  ASSUME Typed, PolicyAgrees, NEW r \in Requests, req[r].kind = "patch_base", PatchBase(r) PROVE PolicyAgrees'
<1> DEFINE b == req[r].on
           seen == req[r].seen
           edit == req[r].want
           next == EditedBase(seen, edit)
           changed == next.visibility # seen.visibility
           old == base[b]
           row == [status |-> Given(old.status, edit.status), visibility |-> Given(old.visibility, edit.visibility),
                   access |-> IF next.access = seen.access THEN old.access ELSE next.access,
                   defaultVisibility |-> Given(old.defaultVisibility, edit.defaultVisibility),
                   defaultOwner |-> Given(old.defaultOwner, edit.defaultOwner),
                   version |-> IF changed THEN seen.version + 1 ELSE old.version]
<1>1. b \in Bases /\ b \in Governed /\ seen \in BaseRow /\ edit \in BaseEdits
  BY Names DEF Typed, Requested, RequestOK
<1>2. /\ base' = [base EXCEPT ![b] = row] /\ doc' = doc /\ Listed(b) /\ stale \subseteq stale'
      /\ policy' = IF changed THEN Renewed(b, seen.version + 1, PolicyVisibility(next.visibility), Owner) ELSE policy
      /\ b \notin stale' => BasePermission(old) = BasePermission(seen) \/ edit.visibility = Keep
  BY DEF PatchBase
<1>3. next.visibility = Given(seen.visibility, edit.visibility)
  BY <1>1 DEF EditedBase, BaseRow
<1>4. /\ row.visibility = Given(old.visibility, edit.visibility)
      /\ row.version = IF changed THEN seen.version + 1 ELSE old.version
  OBVIOUS
<1> HIDE DEF b, seen, edit, next, row
<1>5. CASE changed
  <2>1. row.visibility = next.visibility
    BY <1>3, <1>4, <1>5 DEF Given
  <2>2. BaseSays(row, policy'[b]) /\ \A y \in Governed \ {b} : policy'[y] = policy[y]
    BY <1>1, <1>2, <1>4, <1>5, <2>1, RenewedRow DEF Typed, BaseSays
  <2> QED  BY <1>1, <1>2, <2>2, AgreeBase
<1>6. CASE ~changed
  <2>1. b \notin stale' => BaseSays(old, policy[b]) /\ old.status \notin {"none", "deleted"}
    BY <1>1, <1>2, AgreeRow DEF Listed
  <2>2. ASSUME b \notin stale' PROVE row.visibility = old.visibility
    <3>1. CASE edit.visibility = Keep
      BY <1>4, <3>1 DEF Given
    <3>2. CASE BasePermission(old) = BasePermission(seen)
      <4>1. old.visibility = seen.visibility
        BY <3>2 DEF BasePermission
      <4> QED  BY <1>3, <1>4, <1>6, <4>1 DEF Given
    <3> QED  BY <1>2, <2>2, <3>1, <3>2
  <2>3. b \notin stale' => BaseSays(row, policy'[b])
    BY <1>2, <1>4, <1>6, <2>1, <2>2 DEF BaseSays
  <2> QED  BY <1>1, <1>2, <1>6, <2>3, AgreeBase
<1> QED  BY <1>5, <1>6

LEMMA DeleteBaseAgrees ==
  ASSUME Typed, PolicyAgrees, NEW r \in Requests, req[r].kind = "delete_base", DeleteBase(r) PROVE PolicyAgrees'
<1> DEFINE b == req[r].on
           row == [base[b] EXCEPT !.status = "deleted"]
<1>1. b \in Bases /\ b \in Governed /\ base[b] \in BaseRow
  BY Names DEF Typed, TypeOK, Requested, RequestOK
<1>2. base' = [base EXCEPT ![b] = row] /\ doc' = doc /\ stale' = stale /\ policy' = Archived(b)
  BY DEF DeleteBase, history
<1>3. row.status = "deleted"
  BY <1>1 DEF BaseRow
<1> HIDE DEF b, row
<1> QED  BY <1>1, <1>2, <1>3, ArchivedRow, AgreeBase DEF Typed, BaseSays

LEMMA ReplaceBaseAgrees ==
  ASSUME Typed, PolicyAgrees, NEW r \in Requests, req[r].kind = "replace_base", ReplaceBase(r) PROVE PolicyAgrees'
<1> DEFINE b == req[r].on
           want == req[r].want
           version == req[r].seen.version + 1
           row == IF Listed(b)
                  THEN [status |-> base[b].status, visibility |-> want.visibility, access |-> want.access,
                        defaultVisibility |-> want.defaultVisibility, defaultOwner |-> want.defaultOwner,
                        version |-> version]
                  ELSE WithRules(base[b], want.access)
<1>1. b \in Bases /\ b \in Governed /\ base[b] \in BaseRow
  BY Names DEF Typed, TypeOK, Requested, RequestOK
<1>2. /\ base' = [base EXCEPT ![b] = row] /\ doc' = doc /\ stale' = stale \ {b}
      /\ policy' = Renewed(b, version, PolicyVisibility(want.visibility), Owner)
  BY DEF ReplaceBase
<1>3. \/ row.version = version /\ row.visibility = want.visibility
      \/ row.status \in {"none", "deleted"}
  BY <1>1 DEF WithRules, BaseRow, Listed
<1> HIDE DEF b, want, version, row
<1>4. BaseSays(row, policy'[b]) /\ \A y \in Governed \ {b} : policy'[y] = policy[y]
  BY <1>1, <1>2, <1>3, RenewedRow DEF Typed, BaseSays
<1> QED  BY <1>1, <1>2, <1>4, AgreeBase

LEMMA ImportAgrees ==
  ASSUME Typed, PolicyAgrees, NEW r \in Requests, req[r].kind = "import", Import(r) PROVE PolicyAgrees'
<1> DEFINE d == req[r].on
           want == req[r].want
           row == [status |-> "draft", folder |-> want.folder, visibility |-> want.visibility,
                   owner |-> want.owner, version |-> 1]
<1>1. d \in Docs /\ d \in Governed
  BY Names DEF Typed, Requested, RequestOK
<1>2. /\ doc' = [doc EXCEPT ![d] = row] /\ base' = base /\ stale' = stale
      /\ policy' = Renewed(d, 1, want.visibility, want.owner)
  BY DEF Import, history
<1>3. row.version = 1 /\ row.visibility = want.visibility /\ row.owner = want.owner
  OBVIOUS
<1> HIDE DEF d, want, row
<1>4. DocSays(row, policy'[d]) /\ \A y \in Governed \ {d} : policy'[y] = policy[y]
  BY <1>1, <1>2, <1>3, RenewedRow DEF Typed, DocSays
<1> QED  BY <1>1, <1>2, <1>4, AgreeDoc

LEMMA PatchDocumentAgrees ==
  ASSUME Typed, PolicyAgrees, NEW r \in Requests, req[r].kind = "patch_document", PatchDocument(r)
  PROVE  PolicyAgrees'
<1> DEFINE d == req[r].on
           seen == req[r].seen
           edit == req[r].want
           next == EditedDoc(seen, edit)
           changed == DocPermission(next) # DocPermission(seen)
           old == doc[d]
           row == [EditedDoc(old, edit) EXCEPT !.version = IF changed THEN seen.version + 1 ELSE @]
<1>1. d \in Docs /\ d \in Governed /\ seen \in DocRow /\ old \in DocRow /\ edit \in DocumentEdits
  BY Names DEF Typed, TypeOK, Requested, RequestOK
<1>2. /\ doc' = [doc EXCEPT ![d] = row] /\ base' = base /\ Kept(d) /\ stale \subseteq stale'
      /\ policy' = IF changed THEN Renewed(d, seen.version + 1, next.visibility, next.owner) ELSE policy
      /\ d \notin stale' => \/ DocPermission(old) = DocPermission(seen)
                            \/ edit.visibility = Keep /\ edit.owner = Keep
  BY DEF PatchDocument
<1>3. next.visibility = Given(seen.visibility, edit.visibility) /\ next.owner = Given(seen.owner, edit.owner)
  BY <1>1 DEF EditedDoc, DocRow
<1>4. /\ row.visibility = Given(old.visibility, edit.visibility) /\ row.owner = Given(old.owner, edit.owner)
      /\ row.version = IF changed THEN seen.version + 1 ELSE old.version
  BY <1>1, EditedDocType DEF EditedDoc, DocRow
<1> HIDE DEF d, seen, edit, next, row
<1>5. d \notin stale' => DocSays(old, policy[d]) /\ old.status \notin {"none", "deleted"}
  BY <1>1, <1>2, AgreeRow DEF Kept
<1>6. CASE changed
  <2>1. ASSUME d \notin stale' PROVE row.visibility = next.visibility /\ row.owner = next.owner
    <3>1. ~(edit.visibility = Keep /\ edit.owner = Keep)
      BY <1>3, <1>6 DEF Given, DocPermission
    <3>2. old.visibility = seen.visibility /\ old.owner = seen.owner
      BY <1>2, <2>1, <3>1 DEF DocPermission
    <3> QED  BY <1>3, <1>4, <3>2
  <2>2. d \notin stale' => DocSays(row, policy'[d])
    BY <1>1, <1>2, <1>4, <1>6, <2>1, RenewedRow DEF Typed, DocSays
  <2>3. \A y \in Governed \ {d} : policy'[y] = policy[y]
    BY <1>1, <1>2, <1>6, RenewedRow DEF Typed
  <2> QED  BY <1>1, <1>2, <2>2, <2>3, AgreeDoc
<1>7. CASE ~changed
  <2>1. next.visibility = seen.visibility /\ next.owner = seen.owner
    BY <1>7 DEF DocPermission
  <2>2. ASSUME d \notin stale' PROVE row.visibility = old.visibility /\ row.owner = old.owner
    <3>1. CASE edit.visibility = Keep /\ edit.owner = Keep
      BY <1>4, <3>1 DEF Given
    <3>2. CASE DocPermission(old) = DocPermission(seen)
      <4>1. old.visibility = seen.visibility /\ old.owner = seen.owner
        BY <3>2 DEF DocPermission
      <4> QED  BY <1>3, <1>4, <2>1, <4>1 DEF Given
    <3> QED  BY <1>2, <2>2, <3>1, <3>2
  <2>3. d \notin stale' => DocSays(row, policy'[d])
    BY <1>2, <1>4, <1>5, <1>7, <2>2 DEF DocSays
  <2> QED  BY <1>1, <1>2, <1>7, <2>3, AgreeDoc
<1> QED  BY <1>6, <1>7

LEMMA DeleteDocumentAgrees ==
  ASSUME Typed, PolicyAgrees, NEW r \in Requests, req[r].kind = "delete_document", DeleteDocument(r)
  PROVE  PolicyAgrees'
<1> DEFINE d == req[r].on
           row == [doc[d] EXCEPT !.status = "deleted"]
<1>1. d \in Docs /\ d \in Governed /\ doc[d] \in DocRow
  BY Names DEF Typed, TypeOK, Requested, RequestOK
<1>2. doc' = [doc EXCEPT ![d] = row] /\ base' = base /\ stale' = stale /\ policy' = Archived(d)
  BY DEF DeleteDocument, history
<1>3. row.status = "deleted"
  BY <1>1 DEF DocRow
<1> HIDE DEF d, row
<1> QED  BY <1>1, <1>2, <1>3, ArchivedRow, AgreeDoc DEF Typed, DocSays

LEMMA ReplaceDocumentAgrees ==
  ASSUME Typed, PolicyAgrees, NEW r \in Requests, req[r].kind = "replace_document", ReplaceDocument(r)
  PROVE  PolicyAgrees'
<1> DEFINE d == req[r].on
           want == req[r].want
           version == req[r].seen.version + 1
           row == IF Kept(d) THEN [doc[d] EXCEPT !.visibility = want.visibility, !.owner = want.owner, !.version = version]
                  ELSE doc[d]
<1>1. d \in Docs /\ d \in Governed /\ doc[d] \in DocRow
  BY Names DEF Typed, TypeOK, Requested, RequestOK
<1>2. /\ doc' = [doc EXCEPT ![d] = row] /\ base' = base /\ stale' = stale \ {d}
      /\ policy' = Renewed(d, version, want.visibility, want.owner)
  BY DEF ReplaceDocument
<1>3. \/ row.version = version /\ row.visibility = want.visibility /\ row.owner = want.owner
      \/ row.status \in {"none", "deleted"}
  BY <1>1 DEF DocRow, Kept
<1> HIDE DEF d, want, version, row
<1>4. DocSays(row, policy'[d]) /\ \A y \in Governed \ {d} : policy'[y] = policy[y]
  BY <1>1, <1>2, <1>3, RenewedRow DEF Typed, DocSays
<1> QED  BY <1>1, <1>2, <1>4, AgreeDoc

LEMMA WorkAgrees == ASSUME Typed, PolicyAgrees, NEW d \in Docs, WorkStep(d) PROVE PolicyAgrees'
<1>1. base' = base /\ policy' = policy /\ stale' = stale
  BY DEF WorkStep, history
<1>2. CASE doc' = doc
  BY <1>1, <1>2, AgreeRow, AgreeAll
<1>3. CASE Kept(d) /\ doc' = [doc EXCEPT ![d].status = "active"]
  <2> DEFINE row == [doc[d] EXCEPT !.status = "active"]
  <2>1. row.visibility = doc[d].visibility /\ row.owner = doc[d].owner /\ row.version = doc[d].version
    BY DEF Typed, TypeOK, DocRow
  <2>2. doc' = [doc EXCEPT ![d] = row]
    BY <1>3
  <2> HIDE DEF row
  <2>3. d \notin stale' => DocSays(row, policy'[d])
    BY <1>1, <1>3, <2>1, AgreeRow DEF DocSays, Kept
  <2> QED  BY <1>1, <2>2, <2>3, AgreeDoc
<1> QED  BY <1>2, <1>3 DEF WorkStep

(* Checks and aborted requests change no table.                            *)
LEMMA TablesKept ==
  ASSUME NEW r \in Requests, Check(r) \/ Abort(r) PROVE UNCHANGED <<tables, history>>
<1>1. CASE Check(r)
  BY <1>1 DEF Check, Checked, CheckCreateBase, CheckReplaceBase, CheckPatchBase, CheckDeleteBase, CheckImport,
     CheckPatchDocument, CheckReplaceDocument, CheckDeleteDocument, CheckCreateFolder, CheckPatchFolder,
     CheckDeleteFolder
<1> QED  BY <1>1 DEF Abort

LEMMA AgreeStep == Typed /\ PolicyAgrees /\ [BrowseNext]_browseVars => PolicyAgrees'
<1> SUFFICES ASSUME Typed, PolicyAgrees, [BrowseNext]_browseVars PROVE PolicyAgrees'
  OBVIOUS
<1>0. base' = base /\ doc' = doc /\ policy' = policy /\ stale' = stale => PolicyAgrees'
  BY AgreeRow, AgreeAll
<1>1. ASSUME NEW r \in Requests, Write(r) PROVE PolicyAgrees'
  <2>1. CASE WriteBase(r)
    BY <2>1, CreateBaseAgrees, PatchBaseAgrees, DeleteBaseAgrees, ReplaceBaseAgrees DEF WriteBase
  <2>2. CASE WriteDocument(r)
    BY <2>2, ImportAgrees, PatchDocumentAgrees, DeleteDocumentAgrees, ReplaceDocumentAgrees DEF WriteDocument
  <2>3. CASE WriteFolder(r)
    BY <1>0, <2>3 DEF WriteFolder, CreateFolder, PatchFolder, DeleteFolder, history
  <2> QED  BY <1>1, <2>1, <2>2, <2>3 DEF Write
<1>2. ASSUME NEW r \in Requests, Check(r) \/ Abort(r) PROVE PolicyAgrees'
  BY <1>0, <1>2, TablesKept DEF tables, history
<1>3. CASE UNCHANGED vars
  BY <1>0, <1>3 DEF vars, tables, history
<1> QED  BY <1>1, <1>2, <1>3, Steps, WorkAgrees

-----------------------------------------------------------------------------
(* The tree of folders.  A folder once created is never taken out of its   *)
(* table, and one that is still being created is known to nobody else.     *)

Grown(f) == f = Root \/ folder[f].status # "none"

SoundRequest(q) ==
  /\ q.kind = "create_folder" => folder[q.on].status = "none" /\ Grown(q.want)
  /\ q.kind \in {"patch_folder", "delete_folder"} => folder[q.on].status # "none"
  /\ q.kind = "patch_folder" => q.want.parent = Keep \/ Grown(q.want.parent)

Tree ==
  /\ \A r, s \in Requests :
       req[r].kind = "create_folder" /\ req[s].kind = "create_folder" /\ req[r].on = req[s].on => r = s
  /\ \A r \in Requests : SoundRequest(req[r])
  /\ \A f \in Folders : folder[f].status # "none" => Grown(folder[f].parent)

LEMMA TreeKept ==
  ASSUME Tree, folder' = folder, req' = req PROVE Tree'
BY DEF Tree, SoundRequest, Grown

LEMMA TreeFinish ==
  ASSUME Typed, Tree, NEW r \in Requests, Finish(r), folder' = folder PROVE Tree'
<1>1. \A u \in Requests : req'[u] = IF u = r THEN Done ELSE req[u]
  BY DEF Finish, Typed, Requested
<1>2. Done.kind = "done"
  BY DEF Done
<1>3. \A u \in Requests : SoundRequest(req[u])
  BY DEF Tree
<1>4. \A u \in Requests : SoundRequest(req[u])'
  BY <1>1, <1>2, <1>3 DEF SoundRequest, Grown
<1> QED  BY <1>1, <1>2, <1>4 DEF Tree, SoundRequest, Grown

LEMMA TreeChecked ==
  ASSUME Typed, Tree, NEW r \in Requests, NEW kind, NEW x, NEW want, NEW seen, Checked(r, kind, x, want, seen),
         SoundRequest([kind |-> kind, on |-> x, want |-> want, seen |-> seen]),
         kind = "create_folder" => Unused(x)
  PROVE  Tree'
<1> DEFINE q == [kind |-> kind, on |-> x, want |-> want, seen |-> seen]
<1>1. req' = [req EXCEPT ![r] = q] /\ folder' = folder /\ q.kind = kind /\ q.on = x /\ SoundRequest(q)
  BY DEF Checked, tables
<1> HIDE DEF q
<1>2. \A u \in Requests : req'[u] = IF u = r THEN q ELSE req[u]
  BY <1>1 DEF Typed, Requested
<1>3. \A u \in Requests : SoundRequest(req'[u])
  BY <1>1, <1>2 DEF Tree
<1>4. \A u \in Requests : SoundRequest(req[u])'
  BY <1>1, <1>3 DEF SoundRequest, Grown
<1>5. kind = "create_folder" => \A u \in Requests : req[u].kind = "create_folder" => req[u].on # x
  BY DEF Unused, New, Done
<1>6. \A u, s \in Requests :
        req'[u].kind = "create_folder" /\ req'[s].kind = "create_folder" /\ req'[u].on = req'[s].on => u = s
  BY <1>1, <1>2, <1>5 DEF Tree
<1> QED  BY <1>1, <1>4, <1>6 DEF Tree, SoundRequest, Grown

LEMMA TreeCheck == ASSUME Typed, Tree, NEW r \in Requests, Check(r) PROVE Tree'
<1>1. ASSUME NEW kind, NEW x, NEW want, NEW seen, Checked(r, kind, x, want, seen),
             kind \notin {"create_folder", "patch_folder", "delete_folder"}
      PROVE  Tree'
  BY <1>1, TreeChecked DEF SoundRequest
<1>2. ASSUME NEW b \in Bases,
             \/ \E rights \in BaseRights : CheckCreateBase(r, b, rights) \/ CheckReplaceBase(r, b, rights)
             \/ \E edit \in BaseEdits : CheckPatchBase(r, b, edit)
             \/ CheckDeleteBase(r, b)
      PROVE  Tree'
  <2>1. ASSUME NEW rights \in BaseRights, CheckCreateBase(r, b, rights) PROVE Tree'
    <3>1. \E row : Checked(r, "create_base", b, row, base[b])
      BY <2>1 DEF CheckCreateBase
    <3> QED  BY <1>1, <3>1
  <2>2. ASSUME NEW rights \in BaseRights, CheckReplaceBase(r, b, rights) PROVE Tree'
    <3>1. \E row : Checked(r, "replace_base", b, row, base[b])
      BY <2>2 DEF CheckReplaceBase
    <3> QED  BY <1>1, <3>1
  <2>3. ASSUME NEW edit \in BaseEdits, CheckPatchBase(r, b, edit) PROVE Tree'
    <3>1. Checked(r, "patch_base", b, edit, base[b])
      BY <2>3 DEF CheckPatchBase
    <3> QED  BY <1>1, <3>1
  <2>4. CASE CheckDeleteBase(r, b)
    <3>1. Checked(r, "delete_base", b, base[b], base[b])
      BY <2>4 DEF CheckDeleteBase
    <3> QED  BY <1>1, <3>1
  <2> QED  BY <1>2, <2>1, <2>2, <2>3, <2>4
<1>3. ASSUME NEW d \in Docs,
             \/ \E want \in Imports : CheckImport(r, d, want)
             \/ \E edit \in DocumentEdits : CheckPatchDocument(r, d, edit) \/ CheckReplaceDocument(r, d, edit)
             \/ CheckDeleteDocument(r, d)
      PROVE  Tree'
  <2>1. ASSUME NEW want \in Imports, CheckImport(r, d, want) PROVE Tree'
    <3>1. \E row : Checked(r, "import", d, row, doc[d])
      BY <2>1 DEF CheckImport
    <3> QED  BY <1>1, <3>1
  <2>2. ASSUME NEW edit \in DocumentEdits, CheckPatchDocument(r, d, edit) PROVE Tree'
    <3>1. Checked(r, "patch_document", d, edit, doc[d])
      BY <2>2 DEF CheckPatchDocument
    <3> QED  BY <1>1, <3>1
  <2>3. ASSUME NEW edit \in DocumentEdits, CheckReplaceDocument(r, d, edit) PROVE Tree'
    <3>1. \E row : Checked(r, "replace_document", d, row, doc[d])
      BY <2>3 DEF CheckReplaceDocument
    <3> QED  BY <1>1, <3>1
  <2>4. CASE CheckDeleteDocument(r, d)
    <3>1. Checked(r, "delete_document", d, doc[d], doc[d])
      BY <2>4 DEF CheckDeleteDocument
    <3> QED  BY <1>1, <3>1
  <2> QED  BY <1>3, <2>1, <2>2, <2>3, <2>4
<1>4. ASSUME NEW f \in Folders, NEW parent \in {Root} \cup Folders, CheckCreateFolder(r, f, parent) PROVE Tree'
  <2>1. SoundRequest([kind |-> "create_folder", on |-> f, want |-> parent, seen |-> PathOf(parent)])
    BY <1>4 DEF CheckCreateFolder, SoundRequest, Grown, Open
  <2> QED  BY <1>4, <2>1, TreeChecked DEF CheckCreateFolder
<1>5. ASSUME NEW f \in Folders, NEW edit \in FolderEdits, CheckPatchFolder(r, f, edit) PROVE Tree'
  <2> DEFINE seen == IF edit.parent = Keep THEN <<>> ELSE PathOf(edit.parent)
  <2>1. Checked(r, "patch_folder", f, edit, seen)
    BY <1>5 DEF CheckPatchFolder
  <2> HIDE DEF seen
  <2>2. SoundRequest([kind |-> "patch_folder", on |-> f, want |-> edit, seen |-> seen])
    BY <1>5 DEF CheckPatchFolder, SoundRequest, Grown, Open, Standing
  <2> QED  BY <2>1, <2>2, TreeChecked
<1>6. ASSUME NEW f \in Folders, CheckDeleteFolder(r, f) PROVE Tree'
  <2>1. SoundRequest([kind |-> "delete_folder", on |-> f, want |-> f, seen |-> f])
    BY <1>6 DEF CheckDeleteFolder, SoundRequest, Standing
  <2> QED  BY <1>6, <2>1, TreeChecked DEF CheckDeleteFolder
<1> QED  BY <1>2, <1>3, <1>4, <1>5, <1>6 DEF Check

(* The row that is written for one folder.                                 *)
NewFolder(r) == [status |-> "active", parent |-> req[r].want, path |-> Append(req[r].seen, req[r].on)]

PatchedFolder(r) ==
  LET f == req[r].on  edit == req[r].want IN
  [status |-> Given(folder[f].status, edit.status), parent |-> Given(folder[f].parent, edit.parent),
   path |-> IF edit.parent # Keep THEN Append(req[r].seen, f) ELSE folder[f].path]

LEMMA FolderWrites ==
  ASSUME Typed, Tree, NEW r \in Requests, WriteFolder(r)
  PROVE  /\ req[r].on \in Folders
         /\ \E row : /\ folder' = [folder EXCEPT ![req[r].on] = row]
                     /\ row.status # "none" /\ Grown(row.parent)
         /\ \A s \in Requests \ {r} : req[s].kind = "create_folder" => req[s].on # req[r].on
<1> DEFINE f == req[r].on
<1>0. SoundRequest(req[r]) /\ \A s \in Requests : SoundRequest(req[s])
  BY DEF Tree
<1>1. CASE req[r].kind = "create_folder" /\ CreateFolder(r)
  <2>1. f \in Folders /\ Grown(req[r].want)
    BY <1>0, <1>1 DEF Typed, Requested, RequestOK, SoundRequest
  <2>2. folder' = [folder EXCEPT ![f] = NewFolder(r)]
    BY <1>1 DEF CreateFolder, NewFolder
  <2>3. NewFolder(r).status # "none" /\ NewFolder(r).parent = req[r].want
    BY DEF NewFolder
  <2> QED  BY <1>1, <2>1, <2>2, <2>3 DEF Tree
<1>2. CASE req[r].kind = "patch_folder" /\ PatchFolder(r)
  <2>1. f \in Folders /\ req[r].want \in FolderEdits /\ Standing(f)
    BY <1>2 DEF Typed, Requested, RequestOK, PatchFolder
  <2>2. folder' = [folder EXCEPT ![f] = PatchedFolder(r)]
    BY <1>2 DEF PatchFolder, PatchedFolder
  <2>3. /\ PatchedFolder(r).status = Given(folder[f].status, req[r].want.status)
        /\ PatchedFolder(r).parent = Given(folder[f].parent, req[r].want.parent)
    BY DEF PatchedFolder
  <2>4. PatchedFolder(r).status # "none" /\ Grown(PatchedFolder(r).parent)
    BY <1>0, <1>2, <2>1, <2>3, Edits DEF Given, Standing, SoundRequest, Tree
  <2> QED  BY <1>0, <2>1, <2>2, <2>4 DEF SoundRequest, Standing
<1>3. CASE req[r].kind = "delete_folder" /\ DeleteFolder(r)
  <2> DEFINE row == [folder[f] EXCEPT !.status = "deleted"]
  <2>1. f \in Folders /\ folder[f] \in FolderRow /\ folder[f].status # "none"
    BY <1>0, <1>3 DEF Typed, TypeOK, Requested, RequestOK, SoundRequest
  <2>2. row.status # "none" /\ row.parent = folder[f].parent
    BY <2>1 DEF FolderRow
  <2>3. folder' = [folder EXCEPT ![f] = row]
    BY <1>3 DEF DeleteFolder
  <2> HIDE DEF row
  <2>4. Grown(row.parent)
    BY <2>1, <2>2 DEF Tree
  <2> QED  BY <1>0, <2>1, <2>2, <2>3, <2>4 DEF SoundRequest
<1> QED  BY <1>1, <1>2, <1>3 DEF WriteFolder

LEMMA TreeWrite == ASSUME Typed, Tree, NEW r \in Requests, Write(r) PROVE Tree'
<1>1. CASE WriteFolder(r)
  <2> DEFINE f == req[r].on
  <2>1. PICK row : folder' = [folder EXCEPT ![f] = row] /\ row.status # "none" /\ Grown(row.parent)
    BY <1>1, FolderWrites
  <2>2. f \in Folders /\ \A s \in Requests \ {r} : req[s].kind = "create_folder" => req[s].on # f
    BY <1>1, FolderWrites
  <2>3. \A g \in Folders : folder'[g] = IF g = f THEN row ELSE folder[g]
    BY <2>1, <2>2 DEF Typed, TypeOK
  <2>4. \A u \in Requests : req'[u] = IF u = r THEN Done ELSE req[u]
    BY DEF Write, Finish, Typed, Requested
  <2>5. \A p \in {Root} \cup Folders : Grown(p) => Grown(p)'
    BY <2>1, <2>3 DEF Grown
  <2>6. \A s \in Requests \ {r} : SoundRequest(req[s])'
    <3> SUFFICES ASSUME NEW s \in Requests \ {r} PROVE SoundRequest(req[s])'
      OBVIOUS
    <3>1. RequestOK(req[s]) /\ SoundRequest(req[s]) /\ req'[s] = req[s]
      BY <2>4 DEF Typed, Requested, Tree
    <3>2. CASE req[s].kind = "create_folder"
      BY <2>2, <2>3, <2>5, <3>1, <3>2 DEF RequestOK, SoundRequest
    <3>3. CASE req[s].kind = "patch_folder"
      <4>1. /\ req[s].on \in Folders /\ folder[req[s].on].status # "none"
            /\ req[s].want.parent = Keep \/ Grown(req[s].want.parent)
            /\ req[s].want.parent \in {Keep, Root} \cup Folders
        BY <3>1, <3>3, Edits DEF RequestOK, SoundRequest
      <4> QED  BY <2>1, <2>3, <2>5, <3>1, <3>3, <4>1 DEF SoundRequest
    <3>4. CASE req[s].kind = "delete_folder"
      BY <2>1, <2>3, <3>1, <3>4 DEF RequestOK, SoundRequest
    <3> QED  BY <3>1, <3>2, <3>3, <3>4 DEF SoundRequest
  <2>7. SoundRequest(req[r])'
    BY <2>4 DEF SoundRequest, Done
  <2>8. \A g \in Folders : folder'[g].status # "none" => Grown(folder[g].parent)'
    <3> SUFFICES ASSUME NEW g \in Folders, folder'[g].status # "none" PROVE Grown(folder[g].parent)'
      OBVIOUS
    <3>1. folder'[g] \in FolderRow
      BY <1>1, FolderType DEF TypeOK
    <3>2. Grown(folder'[g].parent)
      BY <2>1, <2>3 DEF Tree
    <3> QED  BY <2>5, <3>1, <3>2 DEF FolderRow, Grown
  <2>9. \A u, s \in Requests :
          req'[u].kind = "create_folder" /\ req'[s].kind = "create_folder" /\ req'[u].on = req'[s].on => u = s
    BY <2>4 DEF Tree, Done
  <2> QED  BY <2>6, <2>7, <2>8, <2>9 DEF Tree
<1>2. CASE ~WriteFolder(r)
  <2>1. folder' = folder
    BY <1>2 DEF Write, WriteBase, WriteDocument, CreateBase, PatchBase, DeleteBase, ReplaceBase, Import, PatchDocument,
       DeleteDocument, ReplaceDocument
  <2> QED  BY <2>1, TreeFinish DEF Write
<1> QED  BY <1>1, <1>2

LEMMA TreeStep == Typed /\ Tree /\ [BrowseNext]_browseVars => Tree'
<1> SUFFICES ASSUME Typed, Tree, [BrowseNext]_browseVars PROVE Tree'
  OBVIOUS
<1>1. ASSUME NEW r \in Requests, Abort(r) PROVE Tree'
  BY <1>1, AbortStep, TreeFinish DEF tables
<1>2. ASSUME NEW d \in Docs, WorkStep(d) PROVE Tree'
  BY <1>2, TreeKept DEF WorkStep
<1>3. CASE UNCHANGED vars
  BY <1>3, TreeKept DEF vars, tables
<1> QED  BY <1>1, <1>2, <1>3, Steps, TreeCheck, TreeWrite

(* Paths: the folder that is written gets the path of its parent, as long  *)
(* as the request had read the one that the parent has now, and nothing    *)
(* that is below it has to follow.                                         *)
LEMMA PathsKept ==
  ASSUME PathsAreAncestors, folder' = folder, shifted' = shifted PROVE PathsAreAncestors'
BY DEF PathsAreAncestors, PathOf

Follows(f, row) == row.parent # f /\ row.path = Append(PathOf(row.parent), f)
Stays(f, row) == row.parent = folder[f].parent /\ row.path = folder[f].path /\ folder[f].status # "none"
Childless(f) == \A g \in Folders : folder[g].status # "none" => folder[g].parent # f

LEMMA PathWritten ==
  ASSUME Typed, PathsAreAncestors, NEW f \in Folders, NEW row, row.parent \in {Root} \cup Folders,
         folder' = [folder EXCEPT ![f] = row], ~shifted,
         (Follows(f, row) /\ Childless(f)) \/ Stays(f, row)
  PROVE  PathsAreAncestors'
<1> DEFINE NewPath(p) == IF p = Root THEN <<>> ELSE folder'[p].path
<1>1. \A g \in Folders : folder'[g] = IF g = f THEN row ELSE folder[g]
  BY DEF Typed, TypeOK
<1>2. \A p \in {Root} \cup Folders : p # f => NewPath(p) = PathOf(p)
  BY <1>1 DEF PathOf
<1>3. row.path = folder[f].path => NewPath(f) = PathOf(f)
  BY <1>1, Names DEF PathOf
<1>4. \A g \in Folders : folder[g].parent \in {Root} \cup Folders
  BY DEF Typed, TypeOK, FolderRow
<1>5. \A g \in Folders : folder[g].status # "none" => folder[g].path = Append(PathOf(folder[g].parent), g)
  BY DEF PathsAreAncestors
<1>6. ASSUME NEW g \in Folders \ {f}, folder[g].status # "none"
      PROVE  folder[g].path = Append(NewPath(folder[g].parent), g)
  <2>1. CASE folder[g].parent = f
    BY <1>3, <1>5, <1>6, <2>1 DEF Childless, Stays
  <2>2. CASE folder[g].parent # f
    BY <1>2, <1>4, <1>5, <1>6, <2>2
  <2> QED  BY <2>1, <2>2
<1>7. row.path = Append(NewPath(row.parent), f)
  <2>1. CASE Follows(f, row)
    BY <1>2, <2>1 DEF Follows
  <2>2. CASE Stays(f, row)
    BY <1>2, <1>3, <1>5, <2>2 DEF Stays
  <2> QED  BY <2>1, <2>2
<1> HIDE DEF NewPath
<1>8. \A g \in Folders : folder'[g].status # "none" => folder'[g].path = Append(NewPath(folder'[g].parent), g)
  BY <1>1, <1>6, <1>7
<1> QED  BY <1>8 DEF PathsAreAncestors, PathOf, NewPath

LEMMA CreateFolderPath ==
  ASSUME Typed, Tree, PathsAreAncestors, NEW r \in Requests, req[r].kind = "create_folder", CreateFolder(r)
  PROVE  PathsAreAncestors'
<1> DEFINE f == req[r].on
           row == NewFolder(r)
<1>1. /\ f \in Folders /\ req[r].want \in {Root} \cup Folders /\ req[r].want # f
      /\ folder[f].status = "none"
  BY DEF Typed, Requested, RequestOK, Tree, SoundRequest
<1>2. /\ folder' = [folder EXCEPT ![f] = row]
      /\ ~shifted' => ~shifted /\ PathOf(req[r].want) = req[r].seen
  BY DEF CreateFolder, NewFolder
<1>3. row.parent = req[r].want /\ row.path = Append(req[r].seen, f)
  BY DEF NewFolder
<1>4. Childless(f)
  BY <1>1, Names DEF Tree, Grown, Childless
<1> HIDE DEF f, row
<1>5. CASE shifted'
  BY <1>5 DEF PathsAreAncestors
<1>6. CASE ~shifted'
  <2>1. ~shifted /\ Follows(f, row) /\ row.parent \in {Root} \cup Folders
    BY <1>1, <1>2, <1>3, <1>6 DEF Follows
  <2> QED  BY <1>1, <1>2, <1>4, <2>1, PathWritten
<1> QED  BY <1>5, <1>6

LEMMA PatchFolderPath ==
  ASSUME Typed, Tree, PathsAreAncestors, NEW r \in Requests, req[r].kind = "patch_folder", PatchFolder(r)
  PROVE  PathsAreAncestors'
<1> DEFINE f == req[r].on
           edit == req[r].want
           row == PatchedFolder(r)
           old == folder[f]
<1>1. /\ f \in Folders /\ edit \in FolderEdits /\ (edit.parent # Keep => edit.parent # f)
      /\ old.status # "none" /\ old.parent \in {Root} \cup Folders
  BY DEF Typed, TypeOK, FolderRow, Requested, RequestOK, PatchFolder, Standing
<1>2. /\ folder' = [folder EXCEPT ![f] = row]
      /\ ~shifted' => ~shifted
      /\ ~shifted' /\ edit.parent # Keep =>
           /\ PathOf(edit.parent) = req[r].seen
           /\ \A g \in Folders : folder[g].status # "none" => folder[g].parent # f
  BY DEF PatchFolder, PatchedFolder
<1>3. /\ row.parent = Given(old.parent, edit.parent)
      /\ row.path = IF edit.parent # Keep THEN Append(req[r].seen, f) ELSE old.path
  BY DEF PatchedFolder
<1>4. edit.parent # Keep => edit.parent \in {Root} \cup Folders
  BY <1>1, Edits
<1> HIDE DEF f, edit, row
<1>5. CASE shifted'
  BY <1>5 DEF PathsAreAncestors
<1>6. CASE ~shifted' /\ edit.parent # Keep
  <2>1. row.parent = edit.parent /\ Follows(f, row)
    BY <1>1, <1>2, <1>3, <1>6 DEF Given, Follows
  <2>2. /\ ~shifted /\ row.parent \in {Root} \cup Folders
        /\ Childless(f)
    BY <1>1, <1>2, <1>4, <1>6, <2>1 DEF Childless
  <2> HIDE DEF old
  <2> QED  BY <1>1, <1>2, <2>1, <2>2, PathWritten
<1>7. CASE ~shifted' /\ edit.parent = Keep
  <2>1. Stays(f, row) /\ ~shifted /\ row.parent \in {Root} \cup Folders
    BY <1>1, <1>2, <1>3, <1>7 DEF Given, Stays
  <2> QED  BY <1>1, <1>2, <2>1, PathWritten
<1> QED  BY <1>5, <1>6, <1>7

LEMMA DeleteFolderPath ==
  ASSUME Typed, Tree, PathsAreAncestors, NEW r \in Requests, req[r].kind = "delete_folder", DeleteFolder(r)
  PROVE  PathsAreAncestors'
<1> DEFINE f == req[r].on
           row == [folder[f] EXCEPT !.status = "deleted"]
<1>1. f \in Folders /\ folder[f] \in FolderRow /\ folder[f].status # "none"
  BY DEF Typed, TypeOK, Requested, RequestOK, Tree, SoundRequest
<1>2. Stays(f, row) /\ row.parent \in {Root} \cup Folders
  BY <1>1 DEF FolderRow, Stays
<1>3. folder' = [folder EXCEPT ![f] = row] /\ shifted' = shifted
  BY DEF DeleteFolder, history
<1> HIDE DEF f, row
<1>4. CASE shifted
  BY <1>3, <1>4 DEF PathsAreAncestors
<1>5. CASE ~shifted
  BY <1>1, <1>2, <1>3, <1>5, PathWritten
<1> QED  BY <1>4, <1>5

LEMMA PathStep == Typed /\ Tree /\ PathsAreAncestors /\ [BrowseNext]_browseVars => PathsAreAncestors'
<1> SUFFICES ASSUME Typed, Tree, PathsAreAncestors, [BrowseNext]_browseVars PROVE PathsAreAncestors'
  OBVIOUS
<1>1. ASSUME NEW r \in Requests, Write(r) PROVE PathsAreAncestors'
  <2>1. CASE WriteFolder(r)
    BY <2>1, CreateFolderPath, PatchFolderPath, DeleteFolderPath DEF WriteFolder
  <2>2. CASE ~WriteFolder(r)
    <3>1. folder' = folder /\ shifted' = shifted
      BY <1>1, <2>2 DEF Write, WriteBase, WriteDocument, CreateBase, PatchBase, DeleteBase, ReplaceBase, Import,
         PatchDocument, DeleteDocument, ReplaceDocument, history
    <3> QED  BY <3>1, PathsKept
  <2> QED  BY <2>1, <2>2
<1>2. ASSUME NEW r \in Requests, Check(r) \/ Abort(r) PROVE PathsAreAncestors'
  BY <1>2, TablesKept, PathsKept DEF tables, history
<1>3. ASSUME NEW d \in Docs, WorkStep(d) PROVE PathsAreAncestors'
  BY <1>3, PathsKept DEF WorkStep, history
<1>4. CASE UNCHANGED vars
  BY <1>4, PathsKept DEF vars, tables, history
<1> QED  BY <1>1, <1>2, <1>3, <1>4, Steps

-----------------------------------------------------------------------------
(* The start.                                                              *)

LEMMA SettledRow ==
  ASSUME NEW rights \in BaseRights, NEW row \in Settled(rights)
  PROVE  row \in BaseRow /\ FitsDefaults(row) /\ row.version = 1
<1> DEFINE given == [rights EXCEPT !.access = Normalized(@, rights.visibility)]
<1>1. given \in BaseWant
  BY NormalizedType
<1>2. /\ Within(given, given.defaultVisibility, given.defaultOwner)
      /\ row = [status |-> "active", visibility |-> given.visibility, access |-> given.access,
                defaultVisibility |-> given.defaultVisibility, defaultOwner |-> given.defaultOwner, version |-> 1]
  BY DEF Settled
<1> HIDE DEF given
<1> QED  BY <1>1, <1>2 DEF BaseWant, BaseRow, FitsDefaults, Within

LEMMA StartBases ==
  ASSUME InitContainers
  PROVE  /\ base \in [Bases -> BaseRow]
         /\ \A b \in Bases : IF b \in Present THEN FitsDefaults(base[b]) /\ base[b].version = 1 ELSE base[b].status = "none"
<1>1. PICK rows \in [Bases \cap Present -> UNION {Settled(rights) : rights \in BaseRights}] :
        base = [b \in Bases |-> IF b \in Present THEN rows[b] ELSE NoBase]
  BY DEF InitContainers
<1>2. NoBase \in BaseRow /\ NoBase.status = "none"
  BY Names DEF NoBase, BaseRow, BaseVisibility, Visibility
<1>3. \A b \in Bases \cap Present : rows[b] \in BaseRow /\ FitsDefaults(rows[b]) /\ rows[b].version = 1
  BY SettledRow
<1> HIDE DEF NoBase
<1> QED  BY <1>1, <1>2, <1>3

LEMMA StartDocs ==
  ASSUME InitContainers
  PROVE  /\ doc \in [Docs -> DocRow]
         /\ \A d \in Docs : IF d \in Present THEN doc[d].version = 1 ELSE doc[d].status = "none"
<1>1. PICK open \in SUBSET (Docs \cap Present) :
        doc = [d \in Docs |-> IF d \notin Present THEN NoDoc
                              ELSE [NoDoc EXCEPT !.status = "active", !.version = 1,
                                                 !.visibility = IF d \in open THEN "enterprise" ELSE "department"]]
  BY DEF InitContainers
<1>2. NoDoc \in DocRow /\ NoDoc.status = "none"
  BY Names DEF NoDoc, DocRow, Visibility
<1>3. \A d \in Docs :
        LET row == [NoDoc EXCEPT !.status = "active", !.version = 1,
                                 !.visibility = IF d \in open THEN "enterprise" ELSE "department"]
        IN row \in DocRow /\ row.version = 1
  BY Names DEF NoDoc, DocRow, Visibility
<1> QED  BY <1>1, <1>2, <1>3

ParentOf(f) == IF Len(Path[f]) = 1 THEN Root ELSE Path[f][Len(Path[f]) - 1]

LEMMA StartParent ==
  ASSUME NEW f \in Folders \cap Present
  PROVE  /\ ParentOf(f) = Root \/ ParentOf(f) \in Folders \cap Present
         /\ Path[f] = Append(IF ParentOf(f) = Root THEN <<>> ELSE Path[ParentOf(f)], f)
<1>0. /\ Path \in [Folders -> Seq(Folders)] /\ Root \notin Folders
      /\ \A g \in Folders \cap Present :
           Path[g] # <<>> /\ (Path[g] = <<g>> \/ \E p \in Folders \cap Present : Path[g] = Append(Path[p], g))
  BY ContainerAssumption
<1>1. CASE Path[f] = <<f>>
  <2>1. ParentOf(f) = Root
    BY <1>1 DEF ParentOf
  <2> QED  BY <1>1, <2>1
<1>2. ASSUME NEW p \in Folders \cap Present, Path[f] = Append(Path[p], f) PROVE ParentOf(f) = p
  <2>1. Path[p] \in Seq(Folders) /\ Path[p] # <<>>
    BY <1>0
  <2>2. Len(Path[p]) \in Nat \ {0}
    BY <2>1, EmptySeq, LenProperties
  <2>3. Len(Path[f]) = Len(Path[p]) + 1 /\ Path[f][Len(Path[p])] = Path[p][Len(Path[p])]
    BY <1>2, <2>1, <2>2, AppendProperties
  <2>4. Path[p][Len(Path[p])] = p
    <3>1. CASE Path[p] = <<p>>
      BY <3>1
    <3>2. ASSUME NEW q \in Folders \cap Present, Path[p] = Append(Path[q], p) PROVE Path[p][Len(Path[p])] = p
      BY <1>0, <3>2, AppendProperties
    <3> QED  BY <1>0, <3>1, <3>2
  <2> QED  BY <2>2, <2>3, <2>4 DEF ParentOf
<1>3. ASSUME NEW p \in Folders \cap Present, Path[f] = Append(Path[p], f)
      PROVE  /\ ParentOf(f) = Root \/ ParentOf(f) \in Folders \cap Present
             /\ Path[f] = Append(IF ParentOf(f) = Root THEN <<>> ELSE Path[ParentOf(f)], f)
  BY <1>0, <1>2, <1>3
<1> QED  BY <1>0, <1>1, <1>3

LEMMA StartFolders ==
  ASSUME InitContainers
  PROVE  /\ folder \in [Folders -> FolderRow]
         /\ \A f \in Folders : folder[f].status # "none" => Grown(folder[f].parent)
         /\ PathsAreAncestors
<1>1. folder = [f \in Folders |-> IF f \notin Present THEN NoFolder
                                  ELSE [status |-> "active", path |-> Path[f], parent |-> ParentOf(f)]]
  BY Zenon DEF InitContainers, ParentOf
<1>2. NoFolder \in FolderRow /\ NoFolder.status = "none"
  BY EmptySeq DEF NoFolder, FolderRow
<1>3. \A f \in Folders \cap Present :
        /\ folder[f].status = "active" /\ folder[f].path = Path[f] /\ folder[f].parent = ParentOf(f)
        /\ folder[f] \in FolderRow
  BY <1>1, StartParent, ContainerAssumption DEF FolderRow
<1>4. \A f \in Folders \ Present : folder[f] \in FolderRow /\ folder[f].status = "none"
  BY <1>1, <1>2
<1>5. folder \in [Folders -> FolderRow]
  BY <1>1, <1>3, <1>4
<1>6. \A f \in Folders : folder[f].status # "none" => Grown(folder[f].parent)
  BY <1>3, <1>4, StartParent DEF Grown
<1>7. ASSUME NEW f \in Folders, folder[f].status # "none"
      PROVE  folder[f].path = Append(PathOf(folder[f].parent), f)
  <2>1. f \in Folders \cap Present /\ folder[f].parent = ParentOf(f) /\ folder[f].path = Path[f]
    BY <1>3, <1>4, <1>7
  <2>2. CASE ParentOf(f) = Root
    BY <2>1, <2>2, StartParent DEF PathOf
  <2>3. CASE ParentOf(f) \in Folders \cap Present
    <3>1. ParentOf(f) # Root /\ folder[ParentOf(f)].path = Path[ParentOf(f)]
      BY <1>3, <2>3, Names
    <3> QED BY <2>1, <3>1, StartParent DEF PathOf
  <2> QED BY <2>1, <2>2, <2>3, StartParent
<1>8. PathsAreAncestors
  BY <1>7 DEF PathsAreAncestors
<1> QED  BY <1>5, <1>6, <1>8

LEMMA StartPolicies ==
  ASSUME InitContainers
  PROVE  policy \in [Governed -> PolicyRow] /\ PolicyAgrees
<1>1. policy = [x \in Governed |->
        IF x \notin Present THEN NoPolicy
        ELSE IF x \in Bases
             THEN [last |-> 1, active |-> TRUE, visibility |-> PolicyVisibility(base[x].visibility), owner |-> Owner]
             ELSE [last |-> 1, active |-> TRUE, visibility |-> doc[x].visibility, owner |-> doc[x].owner]]
  BY DEF InitContainers
<1>2. NoPolicy \in PolicyRow
  BY Names DEF NoPolicy, PolicyRow, Visibility
<1>3. \A b \in Bases \cap Present :
        /\ policy[b] = [last |-> 1, active |-> TRUE, visibility |-> PolicyVisibility(base[b].visibility), owner |-> Owner]
        /\ policy[b] \in PolicyRow
  BY <1>1, Names, PolicyVisibilityType DEF PolicyRow
<1>4. \A d \in Docs \cap Present :
        /\ policy[d] = [last |-> 1, active |-> TRUE, visibility |-> doc[d].visibility, owner |-> doc[d].owner]
        /\ policy[d] \in PolicyRow
  BY <1>1, Names, StartDocs DEF PolicyRow, DocRow
<1>5. \A x \in Governed \ Present : policy[x] \in PolicyRow
  BY <1>1, <1>2
<1>6. policy \in [Governed -> PolicyRow]
  BY <1>1, <1>3, <1>4, <1>5 DEF Governed
<1>7. ASSUME NEW b \in Bases PROVE BaseSays(base[b], policy[b])
  <2>1. CASE b \in Present
    <3> DEFINE row == [last |-> 1, active |-> TRUE, visibility |-> PolicyVisibility(base[b].visibility), owner |-> Owner]
    <3>1. row.active /\ row.last = 1 /\ row.visibility = PolicyVisibility(base[b].visibility)
      OBVIOUS
    <3>2. policy[b] = row
      BY <1>3, <2>1
    <3> HIDE DEF row
    <3> QED  BY <2>1, <3>1, <3>2, StartBases DEF BaseSays
  <2>2. CASE b \notin Present
    BY <2>2, StartBases DEF BaseSays
  <2> QED  BY <2>1, <2>2
<1>8. ASSUME NEW d \in Docs PROVE DocSays(doc[d], policy[d])
  <2>1. CASE d \in Present
    <3> DEFINE row == [last |-> 1, active |-> TRUE, visibility |-> doc[d].visibility, owner |-> doc[d].owner]
    <3>1. row.active /\ row.last = 1 /\ row.visibility = doc[d].visibility /\ row.owner = doc[d].owner
      OBVIOUS
    <3>2. policy[d] = row
      BY <1>4, <2>1
    <3> HIDE DEF row
    <3> QED  BY <2>1, <3>1, <3>2, StartDocs DEF DocSays
  <2>2. CASE d \notin Present
    BY <2>2, StartDocs DEF DocSays
  <2> QED  BY <2>1, <2>2
<1> QED  BY <1>6, <1>7, <1>8, AgreeRow

LEMMA Start == BrowseInit => Typed /\ DefaultsFit /\ PolicyAgrees /\ Tree /\ PathsAreAncestors
<1> SUFFICES ASSUME BrowseInit PROVE Typed /\ DefaultsFit /\ PolicyAgrees /\ Tree /\ PathsAreAncestors
  OBVIOUS
<1>1. InitContainers
  BY DEF BrowseInit, Init
<1>2. block = {} /\ refresh = {} /\ req = [r \in Requests |-> New] /\ stale = {} /\ shifted = FALSE
  BY <1>1 DEF InitContainers
<1>3. TypeOK
  BY <1>1, <1>2, StartBases, StartDocs, StartFolders, StartPolicies DEF TypeOK
<1>4. Requested
  BY <1>2, RestingOK DEF Requested
<1>5. DefaultsFit
  BY <1>1, StartBases, FitRow DEF Listed
<1>6. Tree
  BY <1>1, <1>2, StartFolders DEF Tree, SoundRequest, New
<1> QED  BY <1>1, <1>3, <1>4, <1>5, <1>6, StartFolders, StartPolicies DEF Typed

-----------------------------------------------------------------------------

(* Tables keep their types whatever requests overlap.                      *)
THEOREM ContainersTypeCorrect == BrowseSpec => []TypeOK
<1>1. Typed => TypeOK
  BY DEF Typed
<1> QED  BY <1>1, Start, TypeStep, PTL DEF BrowseSpec

(* A document imported with the defaults of its knowledge base can be read *)
(* by somebody who may query the base, for any number of overlapping       *)
(* changes of rules and defaults, except where a patch wrote back what it  *)
(* had read too early (permission_guard.py, knowledge_base_writer.py).     *)
THEOREM DefaultsStayFit == BrowseSpec => []DefaultsFit
BY Start, TypeStep, FitStep, PTL DEF BrowseSpec

(* Rows and active policies of knowledge bases and documents agree, except *)
(* where a patch wrote back what it had read too early (the writers of     *)
(* knowledge bases and documents).                                         *)
THEOREM PoliciesAgree == BrowseSpec => []PolicyAgrees
BY Start, TypeStep, AgreeStep, PTL DEF BrowseSpec

(* As long as no move left a path behind, paths are the paths in the tree  *)
(* (folders_service.py): what the code takes to be the descendants of a    *)
(* folder are its descendants.                                             *)
THEOREM PathsTell == BrowseSpec => []PathsAreAncestors
BY Start, TypeStep, TreeStep, PathStep, PTL DEF BrowseSpec

-----------------------------------------------------------------------------
(* What users are shown: the proofs look at the administration's steps     *)
(* only as far as that they leave the reads alone.                         *)

(* Index versions are numbered in the order of their publication; those    *)
(* that are cleaned up have been replaced.                                 *)
IndexOK ==
  /\ index \in [Docs -> [active : Nat, cleaned : Nat, indexing : BOOLEAN]]
  /\ \A d \in Docs : index[d].cleaned < index[d].active \/ (index[d].active = 0 /\ index[d].cleaned = 0)

QueryRow ==
  [pc : {"idle", "known", "scoped", "indexed", "retrieved", "gated", "done"}, departments : SUBSET Departments,
   scope : SUBSET Bases, indexes : [Docs -> Nat], candidates : SUBSET Docs, allowed : SUBSET Docs, cited : SUBSET Docs,
   readable : SUBSET Docs, stood : BOOLEAN]

BrowseRow ==
  [pc : {"idle", "known", "located", "allowed", "indexed", "done"}, departments : SUBSET Departments,
   base : SUBSET Bases, indexes : [Docs -> Nat], shown : SUBSET (Bases \cup Folders \cup Docs),
   readable : SUBSET (Bases \cup Folders \cup Docs), reindexed : SUBSET Docs, stood : BOOLEAN]

(* Before the gate nothing is cited; what it lets pass may be read, if what*)
(* the question had read stood.                                            *)
QueryOK ==
  /\ query \in QueryRow /\ memberOf \in SUBSET Departments
  /\ query.pc = "gated" => (query.stood => query.allowed \subseteq query.readable)
  /\ query.pc = "done" => (query.stood => query.cited \subseteq query.readable)
  /\ query.pc # "done" => query.cited = {}

BrowseOK ==
  /\ browse \in BrowseRow
  /\ browse.pc = "indexed" => \A d \in Docs : browse.indexes[d] > 0 => Home[d] \in browse.base
  /\ browse.pc # "done" => browse.shown = {} /\ browse.readable = {}
  /\ FoundIsReadable

IInv == IndexOK /\ QueryOK /\ BrowseOK

-----------------------------------------------------------------------------
(* Index versions.                                                         *)

LEMMA NoIndexesType == NoIndexes \in [Docs -> Nat]
BY DEF NoIndexes

LEMMA ActiveIndexesType == ASSUME IndexOK, NEW bases PROVE ActiveIndexes(bases) \in [Docs -> Nat]
BY DEF IndexOK, ActiveIndexes

LEMMA IndexStays == ASSUME IndexOK, index' = index PROVE IndexOK'
BY DEF IndexOK

LEMMA PublishIndexOK == ASSUME IndexOK, NEW d \in Docs, PublishDocument(d) PROVE IndexOK'
<1>1. index' = [index EXCEPT ![d] = [index[d] EXCEPT !.active = @ + 1, !.indexing = FALSE]]
  BY DEF PublishDocument
<1>2. index[d].active + 1 \in Nat /\ index[d].cleaned < index[d].active + 1
  BY DEF IndexOK
<1> QED  BY <1>1, <1>2 DEF IndexOK

LEMMA ReindexOK == ASSUME IndexOK, Reindex PROVE IndexOK'
<1>1. ASSUME NEW d \in Docs, RebuildDocument(d) PROVE IndexOK'
  BY <1>1 DEF RebuildDocument, IndexOK
<1>2. ASSUME NEW d \in Docs, CleanupDocument(d) PROVE IndexOK'
  <2>1. index[d].active - 1 \in Nat
    BY <1>2 DEF CleanupDocument, IndexOK
  <2> QED  BY <1>2, <2>1 DEF CleanupDocument, IndexOK
<1> QED  BY <1>1, <1>2 DEF Reindex

-----------------------------------------------------------------------------
(* Rights grow with the departments of the user.                           *)

LEMMA VisibleGrows ==
  ASSUME NEW row, NEW D, NEW E, D \subseteq E, Visible(row, D)
  PROVE  Visible(row, E)
BY DEF Visible

LEMMA QueryableGrows ==
  ASSUME NEW b, NEW D, NEW E, D \subseteq E, Queryable(b, D)
  PROVE  Queryable(b, E)
BY DEF Queryable

(* The gate decides as Readable does, where what it was told still holds.  *)
LEMMA GateIsRight ==
  ASSUME QueryOK, Gate
  PROVE  query'.stood => query'.allowed \subseteq query'.readable
<1> DEFINE allowed == {d \in query.candidates : /\ Home[d] \in query.scope /\ ~AccessBlocked(d) /\ Serves(d)
                                                /\ doc[d].status = "active" /\ Visible(doc[d], query.departments)}
           readable == {d \in query.candidates : Readable(d)}
           stood == query.departments \subseteq memberOf /\ \A b \in query.scope : Queryable(b, query.departments)
<1>1. query'.allowed = allowed /\ query'.readable = readable /\ query'.stood = stood
  BY DEF Gate, Passes, Idle
<1>2. ASSUME stood, NEW d \in allowed PROVE d \in readable
  <2>1. Visible(doc[d], memberOf)
    BY <1>2, VisibleGrows
  <2>2. Queryable(Home[d], memberOf)
    BY <1>2, QueryableGrows
  <2> QED  BY <1>2, <2>1, <2>2 DEF Readable
<1> HIDE DEF allowed, readable, stood
<1> QED  BY <1>1, <1>2

LEMMA AskInv == ASSUME IndexOK, QueryOK, Ask PROVE QueryOK'
<1>0. memberOf' = memberOf
  BY DEF Ask
<1>1. CASE ReadContext
  BY <1>0, <1>1 DEF QueryOK, QueryRow, ReadContext
<1>2. CASE ReadScope
  <2>1. PICK scope \in SUBSET Bases :
          query' = IF scope = {} THEN [Idle EXCEPT !.pc = "done"]
                   ELSE [query EXCEPT !.pc = "scoped", !.scope = scope]
    BY <1>2 DEF ReadScope
  <2>2. CASE scope = {}
    BY <1>0, <2>1, <2>2, NoIndexesType DEF QueryOK, QueryRow, Idle
  <2>3. CASE scope # {}
    BY <1>0, <1>2, <2>1, <2>3 DEF QueryOK, QueryRow, ReadScope
  <2> QED  BY <2>2, <2>3
<1>3. CASE Retrieve
  <2>1. PICK found \in SUBSET Docs : query' = [query EXCEPT !.pc = "retrieved", !.candidates = found]
    BY <1>3 DEF Retrieve, KeywordSearch, VectorSearch
  <2> QED  BY <1>0, <1>3, <2>1 DEF QueryOK, QueryRow, Retrieve
<1>4. CASE Gate
  <2>1. query'.stood => query'.allowed \subseteq query'.readable
    BY <1>4, GateIsRight
  <2>2. query' \in QueryRow /\ query'.pc = "gated" /\ query'.cited = {}
    BY <1>4, NoIndexesType DEF Gate, Passes, Idle, QueryOK, QueryRow
  <2> QED  BY <1>0, <2>1, <2>2 DEF QueryOK
<1>5. CASE BuildContext
  <2>1. PICK chosen \in SUBSET query.allowed :
          query' = [Idle EXCEPT !.pc = "done", !.cited = chosen, !.readable = query.readable \cap chosen,
                                !.stood = query.stood]
    BY <1>5 DEF BuildContext
  <2>2. query' \in QueryRow /\ query'.pc = "done"
    BY <2>1, NoIndexesType DEF Idle, QueryOK, QueryRow
  <2>3. query'.cited = chosen /\ query'.readable = query.readable \cap chosen /\ query'.stood = query.stood
    BY <2>1 DEF Idle
  <2> QED  BY <1>0, <1>5, <2>2, <2>3 DEF QueryOK, BuildContext
<1>6. CASE ReadIndexVersions
  <2> DEFINE indexes == ActiveIndexes(query.scope)
  <2>1. indexes \in [Docs -> Nat]
    BY ActiveIndexesType
  <2>2. query' = IF indexes = NoIndexes THEN [Idle EXCEPT !.pc = "done"]
                 ELSE [query EXCEPT !.pc = "indexed", !.indexes = indexes]
    BY <1>6 DEF ReadIndexVersions
  <2> HIDE DEF indexes
  <2>3. CASE indexes = NoIndexes
    BY <1>0, <2>2, <2>3, NoIndexesType DEF QueryOK, QueryRow, Idle
  <2>4. CASE indexes # NoIndexes
    BY <1>0, <1>6, <2>1, <2>2, <2>4 DEF QueryOK, QueryRow, ReadIndexVersions
  <2> QED  BY <2>3, <2>4
<1> QED  BY <1>1, <1>2, <1>3, <1>4, <1>5, <1>6 DEF Ask

-----------------------------------------------------------------------------
(* Looking around.                                                         *)

LEMMA HomeType == \A x \in Folders \cup Docs : Home[x] \in Bases
BY ContainerAssumption

(* The end of a read: it is right if, when what it had read still holds, it*)
(* shows nothing that may not be read, and all but what is indexed anew.   *)
LEMMA ShowsRight ==
  ASSUME NEW found \in SUBSET (Bases \cup Folders \cup Docs),
         NEW readable \in SUBSET (Bases \cup Folders \cup Docs), NEW reindexed \in SUBSET Docs,
         Shows(found, readable, reindexed),
         browse.departments = memberOf /\ (\A b \in browse.base : Queryable(b, memberOf)) =>
           found \subseteq readable /\ readable \ reindexed \subseteq found
  PROVE  BrowseOK'
<1>1. /\ browse'.pc = "done" /\ browse'.shown = found /\ browse'.readable = readable /\ browse'.reindexed = reindexed
      /\ browse'.stood = (browse.departments = memberOf /\ \A b \in browse.base : Queryable(b, memberOf))
      /\ browse' \in BrowseRow
  BY NoIndexesType DEF Shows, Resting, BrowseRow
<1> QED  BY <1>1 DEF BrowseOK, BrowseRow, FoundIsReadable

LEMMA NotFoundRight == NotFound => BrowseOK'
BY ShowsRight DEF NotFound

(* The filter on the rows decides as Readable does, where what the read    *)
(* knows of the user and the base still holds.                             *)
LEMMA SelectRight == ASSUME IndexOK, BrowseOK, NEW asked \in SUBSET Docs, Select(asked) PROVE BrowseOK'
<1> DEFINE found == {d \in asked : Matches(d)}
           readable == {d \in asked : browse.indexes[d] > 0 /\ Readable(d)}
           reindexed == {d \in asked : index[d].indexing \/ index[d].active # browse.indexes[d]}
<1>1. ASSUME browse.departments = memberOf, \A b \in browse.base : Queryable(b, memberOf)
      PROVE  found \subseteq readable /\ readable \ reindexed \subseteq found
  <2>0. \A d \in Docs : browse.indexes[d] > index[d].cleaned => browse.indexes[d] > 0
    BY DEF IndexOK, BrowseOK, BrowseRow
  <2>1. \A d \in Docs : browse.indexes[d] > 0 => Queryable(Home[d], memberOf)
    BY <1>1 DEF BrowseOK, Select, At
  <2>2. \A d \in asked : Matches(d) => browse.indexes[d] > 0 /\ Readable(d)
    BY <1>1, <2>0, <2>1 DEF Matches, Readable
  <2>3. \A d \in Docs : browse.indexes[d] > 0 /\ index[d].active = browse.indexes[d] =>
          browse.indexes[d] > index[d].cleaned
    BY DEF IndexOK
  <2>4. \A d \in asked : browse.indexes[d] > 0 /\ Readable(d) /\ d \notin reindexed => Matches(d)
    BY <1>1, <2>3 DEF Matches, Readable
  <2> QED  BY <2>2, <2>4
<1>2. Shows(found, readable, reindexed) /\ {found, readable, reindexed} \subseteq SUBSET Docs
  BY DEF Select
<1> HIDE DEF found, readable, reindexed
<1> QED  BY <1>1, <1>2, ShowsRight

(* A read that goes on has shown nothing yet.                              *)
LEMMA ReadOn ==
  ASSUME BrowseOK, browse.pc # "done", browse' \in BrowseRow, browse'.pc # "done",
         browse'.shown = browse.shown, browse'.readable = browse.readable,
         browse'.pc = "indexed" => \A d \in Docs : browse'.indexes[d] > 0 => Home[d] \in browse'.base
  PROVE  BrowseOK'
BY DEF BrowseOK, BrowseRow, FoundIsReadable

LEMMA BrowseInv == ASSUME IndexOK, QueryOK, BrowseOK, Browse PROVE BrowseOK'
<1>0. browse \in BrowseRow
  BY DEF BrowseOK, BrowseRow
<1>1. CASE PermissionContext
  <2>1. browse' \in BrowseRow /\ browse'.pc = "known" /\ browse'.shown = {} /\ browse'.readable = {}
    BY <1>1, NoIndexesType DEF PermissionContext, Resting, BrowseRow, QueryOK
  <2> QED  BY <1>1, <2>1, ReadOn DEF PermissionContext, At, BrowseOK
<1>2. CASE ListKnowledgeBases
  <2> DEFINE found == {b \in Bases : Queryable(b, browse.departments)}
  <2>1. Shows(found, found, {}) /\ found \in SUBSET (Bases \cup Folders \cup Docs)
    BY <1>2 DEF ListKnowledgeBases
  <2> HIDE DEF found
  <2> QED  BY <2>1, ShowsRight
<1>3. ASSUME NEW b \in Bases, GetKnowledgeBase(b) PROVE BrowseOK'
  <2>1. CASE Queryable(b, browse.departments)
    <3>1. Shows({b}, {b}, {}) /\ {b} \in SUBSET (Bases \cup Folders \cup Docs)
      BY <1>3, <2>1 DEF GetKnowledgeBase
    <3> QED  BY <3>1, ShowsRight
  <2>2. CASE ~Queryable(b, browse.departments)
    BY <1>3, <2>2, NotFoundRight DEF GetKnowledgeBase
  <2> QED  BY <2>1, <2>2
<1>4. ASSUME NEW b \in Bases, AskForBase(b) PROVE BrowseOK'
  <2>1. /\ browse' \in BrowseRow /\ browse'.pc = "located" /\ browse.pc = "known"
        /\ browse'.shown = browse.shown /\ browse'.readable = browse.readable
    BY <1>0, <1>4 DEF AskForBase, BrowseRow, At
  <2> QED  BY <2>1, ReadOn
<1>5. ASSUME NEW d \in Docs, LoadDocumentBase(d) PROVE BrowseOK'
  <2>0. {Home[d]} \in SUBSET Bases
    BY HomeType
  <2>1. CASE Kept(d)
    <3>1. /\ browse' \in BrowseRow /\ browse'.pc = "located" /\ browse.pc = "known"
          /\ browse'.shown = browse.shown /\ browse'.readable = browse.readable
      BY <1>0, <1>5, <2>0, <2>1 DEF LoadDocumentBase, BrowseRow, At
    <3> QED  BY <3>1, ReadOn
  <2>2. CASE ~Kept(d)
    BY <1>5, <2>2, NotFoundRight DEF LoadDocumentBase
  <2> QED  BY <2>1, <2>2
<1>6. CASE EnsureQueryable
  <2>1. CASE \A b \in browse.base : Queryable(b, browse.departments)
    <3>1. /\ browse' \in BrowseRow /\ browse'.pc = "allowed" /\ browse.pc = "located"
          /\ browse'.shown = browse.shown /\ browse'.readable = browse.readable
      BY <1>0, <1>6, <2>1 DEF EnsureQueryable, BrowseRow, At
    <3> QED  BY <3>1, ReadOn
  <2>2. CASE ~(\A b \in browse.base : Queryable(b, browse.departments))
    BY <1>6, <2>2, NotFoundRight DEF EnsureQueryable
  <2> QED  BY <2>1, <2>2
<1>7. CASE ListFolders
  BY <1>7, ShowsRight DEF ListFolders
<1>8. CASE LoadActiveIndexVersions
  <2> DEFINE indexes == ActiveIndexes(browse.base)
  <2>0. indexes \in [Docs -> Nat] /\ \A d \in Docs : indexes[d] > 0 => Home[d] \in browse.base
    BY ActiveIndexesType DEF ActiveIndexes
  <2>1. CASE indexes = NoIndexes
    BY <1>8, <2>1, NotFoundRight DEF LoadActiveIndexVersions
  <2>2. CASE indexes # NoIndexes
    <3>0. browse.pc = "allowed" /\ browse' = [browse EXCEPT !.pc = "indexed", !.indexes = indexes]
      BY <1>8, <2>2 DEF LoadActiveIndexVersions, At
    <3> HIDE DEF indexes
    <3>1. /\ browse' \in BrowseRow /\ browse'.pc = "indexed" /\ browse.pc = "allowed"
          /\ browse'.indexes = indexes /\ browse'.base = browse.base
          /\ browse'.shown = browse.shown /\ browse'.readable = browse.readable
      BY <1>0, <2>0, <3>0 DEF BrowseRow
    <3> QED  BY <2>0, <3>1, ReadOn
  <2> QED  BY <2>1, <2>2
<1>9. CASE ListDocuments
  BY <1>9, SelectRight DEF ListDocuments
<1>10. ASSUME NEW d \in Docs,
              GetDocument(d) \/ ListDocumentVersions(d) \/ ListDocumentChunks(d) \/ GetDocumentSource(d)
       PROVE  BrowseOK'
  <2>1. {d} \in SUBSET Docs
    OBVIOUS
  <2> QED  BY <1>10, <2>1, SelectRight DEF GetDocument, ListDocumentVersions, ListDocumentChunks, GetDocumentSource
<1> QED  BY <1>1, <1>2, <1>3, <1>4, <1>5, <1>6, <1>7, <1>8, <1>9, <1>10 DEF Browse, ReadBase, ReadDocument, ReadSource

-----------------------------------------------------------------------------
(* All steps.                                                              *)

LEMMA QueryStays == ASSUME QueryOK, query' = query, memberOf' \in SUBSET Departments PROVE QueryOK'
BY DEF QueryOK, QueryRow

LEMMA BrowseStays == ASSUME BrowseOK, browse' = browse PROVE BrowseOK'
BY DEF BrowseOK, FoundIsReadable

LEMMA InitInv == BrowseInit => IInv
<1> SUFFICES ASSUME BrowseInit PROVE IInv
  OBVIOUS
<1>1. QueryOK
  <2>1. memberOf \in SUBSET Departments
    BY DEF BrowseInit, Init
  <2>2. query = Idle
    BY DEF BrowseInit, Init
  <2> QED  BY <2>1, <2>2, NoIndexesType DEF QueryOK, QueryRow, Idle
<1>2. BrowseOK
  <2>1. browse = Resting
    BY DEF BrowseInit
  <2>2. /\ browse.pc = "idle" /\ browse.shown = {} /\ browse.readable = {} /\ browse \in BrowseRow
    BY <2>1, NoIndexesType DEF Resting, BrowseRow
  <2> QED  BY <2>2 DEF BrowseOK, FoundIsReadable
<1>3. IndexOK
  BY DEF BrowseInit, Init, IndexOK
<1> QED  BY <1>1, <1>2, <1>3 DEF IInv

LEMMA StepInv == IInv /\ [BrowseNext]_browseVars => IInv'
<1> SUFFICES ASSUME IndexOK, QueryOK, BrowseOK, [BrowseNext]_browseVars PROVE IInv'
  BY DEF IInv
<1>1. CASE Browse
  <2>1. query' = query /\ memberOf' = memberOf /\ index' = index
    BY <1>1 DEF Browse, allVars, queryVars
  <2> QED  BY <1>1, <2>1, BrowseInv, QueryStays, IndexStays DEF IInv, QueryOK
<1>2. CASE Ask /\ UNCHANGED browse
  <2>1. index' = index
    BY <1>2 DEF Ask
  <2> QED  BY <1>2, <2>1, AskInv, BrowseStays, IndexStays DEF IInv
<1>3. CASE Administer /\ UNCHANGED browse
  BY <1>3, QueryStays, BrowseStays, IndexStays DEF IInv, Administer, queryVars, QueryOK
<1>4. CASE Work /\ UNCHANGED browse
  <2>1. query' = query /\ memberOf' = memberOf
    BY <1>4 DEF Work, PublishDocument, RefreshDocument
  <2>2. ASSUME NEW d \in Docs, RefreshDocument(d) PROVE IndexOK'
    BY <2>2, IndexStays DEF RefreshDocument
  <2> QED  BY <1>4, <2>1, <2>2, PublishIndexOK, QueryStays, BrowseStays DEF IInv, Work, QueryOK
<1>5. CASE Reassign /\ UNCHANGED browse
  BY <1>5, QueryStays, BrowseStays, IndexStays DEF IInv, Reassign
<1>6. CASE Reindex /\ UNCHANGED browse
  <2>1. query' = query /\ memberOf' = memberOf
    BY <1>6 DEF Reindex, RebuildDocument, CleanupDocument
  <2> QED  BY <1>6, <2>1, ReindexOK, QueryStays, BrowseStays DEF IInv, QueryOK
<1>7. CASE UNCHANGED browseVars
  BY <1>7, QueryStays, BrowseStays, IndexStays DEF IInv, browseVars, allVars, queryVars, QueryOK
<1> QED  BY <1>1, <1>2, <1>3, <1>4, <1>5, <1>6, <1>7 DEF BrowseNext, Others, Meanwhile

LEMMA CitedRight == IInv => CitedWasReadable
BY DEF IInv, QueryOK, QueryRow, CitedWasReadable

LEMMA FoundRight == IInv => FoundIsReadable
BY DEF IInv, BrowseOK

(* Whatever changes of rules, rows, entries, indexes and departments       *)
(* overlap a question: if its departments and scope still held when the    *)
(* gate looked, the answer cites only what the user could read then.       *)
THEOREM OnlyReadableCited == BrowseSpec => []CitedWasReadable
BY InitInv, StepInv, CitedRight, PTL DEF BrowseSpec

(* Whatever overlaps a read of the knowledge bases: if the departments and *)
(* rules it had read still held at its last statement, it shows only what  *)
(* the user could read then, and all of it but the documents that are      *)
(* indexed anew or were since (filter_builder.py, document_reader.py).     *)
THEOREM ReadableIsFound == BrowseSpec => []FoundIsReadable
BY InitInv, StepInv, FoundRight, PTL DEF BrowseSpec
=============================================================================
