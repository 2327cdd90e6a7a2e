--------------------------- MODULE KnowledgeBrowsing ---------------------------
(***************************************************************************)
(* The user looks around: the knowledge bases, the folders and documents   *)
(* of one, a document with its versions and chunks, the source of a        *)
(* citation.  Every read is a READ COMMITTED transaction of several        *)
(* statements, as a question is (QueryAccess), but its filter reads the    *)
(* rows of the documents, not what the entries of the indexes say of them. *)
(*                                                                         *)
(* Rules of access allow a department to discover a base and to query it   *)
(* together, as the administration client writes them.                     *)
(***************************************************************************)
EXTENDS QueryAccess

VARIABLE
  browse   \* the read: what its statements have returned

browseVars == <<allVars, browse>>

\* reindexed: the documents whose index changed while they were read.
Resting == [pc |-> "idle", departments |-> {}, base |-> {}, indexes |-> NoIndexes, shown |-> {},
            readable |-> {}, reindexed |-> {}, stood |-> TRUE]

At(pc) == browse.pc = pc

\* The read is over: this is shown, this may be read, and of this the index
\* is not the one that was read.
Shows(found, readable, reindexed) ==
  browse' = [Resting EXCEPT !.pc = "done", !.shown = found, !.readable = readable, !.reindexed = reindexed,
       !.stood = browse.departments = memberOf /\ \A b \in browse.base : Queryable(b, memberOf)]

NotFound == Shows({}, {}, {})

---------------------------------------------------------------------------

\* Faulty: blocks are not looked at.
Matches_Variant(d) ==
  /\ browse.indexes[d] > index[d].cleaned /\ ~index[d].indexing
  /\ doc[d].status = "active" /\ Visible(doc[d], browse.departments)

\* The filter on documents, their chunks and the references of these in the
\* index versions that were read; a version may have been replaced by then,
\* but its references not yet cleaned up.
Matches(d) ==
  /\ browse.indexes[d] > index[d].cleaned /\ ~index[d].indexing
  /\ doc[d].status = "active" /\ Visible(doc[d], browse.departments) /\ ~AccessBlocked(d)

\* The read begins; from its token on it is one transaction.
PermissionContext ==
  /\ At("idle")
  /\ browse' = [Resting EXCEPT !.pc = "known", !.departments = memberOf]

\* One statement reads the bases and their rules.
ListKnowledgeBases ==
  LET found == {b \in Bases : Queryable(b, browse.departments)} IN At("known") /\ Shows(found, found, {})

GetKnowledgeBase(b) ==
  /\ At("known")
  /\ IF Queryable(b, browse.departments) THEN Shows({b}, {b}, {}) ELSE NotFound

\* A base is asked for, or a document, whose base is read first.  What is
\* read of the base in the end is left open until then.
AskForBase(b) == At("known") /\ browse' = [browse EXCEPT !.pc = "located", !.base = {b}]

LoadDocumentBase(d) ==
  /\ At("known")
  /\ IF Kept(d) THEN browse' = [browse EXCEPT !.pc = "located", !.base = {Home[d]}] ELSE NotFound

EnsureQueryable ==
  /\ At("located")
  /\ IF \A b \in browse.base : Queryable(b, browse.departments)
     THEN browse' = [browse EXCEPT !.pc = "allowed"] ELSE NotFound

\* All active folders of the base, whoever may read what is in them.
ListFolders ==
  LET found == {f \in Folders : folder[f].status = "active" /\ Home[f] \in browse.base} IN
  At("allowed") /\ Shows(found, found, {})

\* The index versions of the base that are active at this moment.
LoadActiveIndexVersions ==
  LET indexes == ActiveIndexes(browse.base) IN
  /\ At("allowed")
  /\ IF indexes = NoIndexes THEN NotFound ELSE browse' = [browse EXCEPT !.pc = "indexed", !.indexes = indexes]

\* Of the documents asked for those that match, and those that should.
Select(asked) ==
  /\ At("indexed")
  /\ Shows({d \in asked : Matches(d)}, {d \in asked : browse.indexes[d] > 0 /\ Readable(d)},
           {d \in asked : index[d].indexing \/ index[d].active # browse.indexes[d]})

ListDocuments == Select(Docs)
GetDocument(d) == Select({d})

\* Not filtered: a document that is found is found with all its versions.
ListDocumentVersions(d) == Select({d})

\* Chunks have the rights of their document.
ListDocumentChunks(d) == Select({d})

\* The row of one chunk; then its text, or where there is none its preview.
GetDocumentSource(d) == Select({d})

ReadBase == ListKnowledgeBases \/ ListFolders \/ ListDocuments \/ (\E b \in Bases : GetKnowledgeBase(b) \/ AskForBase(b))
ReadDocument ==
  \E d \in Docs : LoadDocumentBase(d) \/ GetDocument(d) \/ ListDocumentVersions(d) \/ ListDocumentChunks(d)
ReadSource == \E d \in Docs : GetDocumentSource(d)

---------------------------------------------------------------------------
(* One user, who asks or looks around: readers do not notice each other.   *)

Browse ==
  /\ query.pc = "idle"
  /\ PermissionContext \/ ReadBase \/ EnsureQueryable \/ LoadActiveIndexVersions \/ ReadDocument \/ ReadSource
  /\ UNCHANGED allVars

Others == (At("idle") /\ Ask) \/ Administer \/ Work

\* As long as they make a difference to what is being read.
Meanwhile ==
  \/ ~({query.pc, browse.pc} \subseteq {"idle", "done"}) /\ Reassign
  \/ {query.pc, browse.pc} \cap {"indexed", "retrieved"} # {} /\ Reindex

BrowseInit == Init /\ browse = Resting
BrowseNext == Browse \/ ((Others \/ Meanwhile) /\ UNCHANGED browse)
BrowseSpec == BrowseInit /\ [][BrowseNext]_browseVars

---------------------------------------------------------------------------

\* What a user finds by looking around he may read at that moment, and no less
\* of what was published before, unless his departments or the rules of the
\* base changed while he was looking: of the filters, on rows here and on the
\* indexes and at the gate for an answer (CitedWasReadable), neither shows
\* more than the other.  Only a document that is being indexed anew, or was
\* since its index version was read, may be missing.
FoundIsReadable ==
  browse.stood => browse.shown \subseteq browse.readable /\ browse.readable \ browse.reindexed \subseteq browse.shown
=============================================================================
