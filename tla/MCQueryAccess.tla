---------------------------- MODULE MCQueryAccess ----------------------------
(* Instances of KnowledgeBrowsing, with QueryAccess and Containers, for model checking. *)
EXTENDS KnowledgeBrowsing, TLC

CONSTANTS k0, k1, f1, f2, f3, x0, x1, d0, d1

MCHome == [x \in {f1, f2, f3, x0, x1} |-> k0]
MCMaxIndexes == x0 :> 2 @@ x1 :> 1
MCPath == f1 :> <<f1>> @@ f2 :> <<f2>> @@ f3 :> <<f1, f3>>

NoEdit == [status |-> Keep, visibility |-> Keep, defaultVisibility |-> Keep, defaultOwner |-> Keep]
MCBaseEdits ==
  {[NoEdit EXCEPT !.status = "disabled"], [NoEdit EXCEPT !.visibility = "enterprise"],
   [NoEdit EXCEPT !.visibility = "private"], [NoEdit EXCEPT !.defaultOwner = d1]}
MCBaseRights ==
  {[visibility |-> "enterprise", access |-> {}, defaultVisibility |-> "department", defaultOwner |-> d0],
   [visibility |-> "department_acl", access |-> {d1}, defaultVisibility |-> "department", defaultOwner |-> d1]}

NoDocEdit == [status |-> Keep, folder |-> Keep, visibility |-> Keep, owner |-> Keep]
MCDocumentEdits ==
  {[NoDocEdit EXCEPT !.status = "archived"], [NoDocEdit EXCEPT !.folder = f1],
   [NoDocEdit EXCEPT !.visibility = "enterprise"], [NoDocEdit EXCEPT !.visibility = "department", !.owner = d1]}
MCImports == {[folder |-> f1, visibility |-> Keep, owner |-> d1]}
MCFolderEdits == {[status |-> "disabled", parent |-> Keep]} \cup [status : {Keep}, parent : {Root, f1, f2, f3}]

\* What a read has shown does not change any more, and it changes nothing; and
\* the reader moves from one department to another.  Documents are read
\* without their folders, so these rest meanwhile, and an index version is
\* replaced of x0 only.
FoldersRest ==
  /\ folder[f3] = NoFolder /\ \A f \in {f1, f2} : folder[f].status = "active" /\ folder[f].path = MCPath[f]
  /\ \A r \in Requests : req[r].kind \notin {"create_folder", "patch_folder", "delete_folder"}

Unfinished ==
  /\ browse.pc # "done" /\ query.pc # "done" /\ Cardinality(memberOf) = 1
  /\ query.pc # "idle" \/ browse.pc = "indexed" => FoldersRest
  /\ ~index[x1].indexing

Symmetry == Permutations(Requests)
=============================================================================
