----------------------------- MODULE QueryAccess -----------------------------
(***************************************************************************)
(* One question, read statement by statement while the administration of   *)
(* Containers goes on: who asks and with which departments, the knowledge  *)
(* bases in scope, their active index versions, the candidates of the      *)
(* search, the candidate gate, the chunks that go into the answer.         *)
(* Statements are READ COMMITTED: each reads the rows as they are then.    *)
(* Chunks of one document share its rights and its index versions, so that *)
(* documents stand for them.                                               *)
(***************************************************************************)
EXTENDS Containers

CONSTANT
  MaxIndexes  \* of each document: bound of its index versions

ASSUME IndexAssumption == MaxIndexes \in [Docs -> Nat]

VARIABLES
  memberOf,   \* the active departments of the user (see Directory)
  entry,      \* the rights in the keyword entries and Qdrant points of a document
  index,      \* of each document: the number of its active index version, 0 for none; up
              \* to which number they are cleaned up; whether its index_status is 'indexing'
  query       \* the question

queryVars == <<memberOf, entry, index, query>>
allVars   == <<vars, queryVars>>

NoEntry == [visibility |-> "none", owner |-> Owner]
NoIndexes == [d \in Docs |-> 0]
Idle == [pc |-> "idle", departments |-> {}, scope |-> {}, indexes |-> NoIndexes, candidates |-> {},
         allowed |-> {}, cited |-> {}, readable |-> {}, stood |-> TRUE]

---------------------------------------------------------------------------
(* Rights.                                                                 *)

Visible(row, departments) ==
  row.visibility = "enterprise" \/ (row.visibility = "department" /\ row.owner \in departments)

Queryable(b, departments) ==
  base[b].status = "active" /\ (base[b].visibility = "enterprise" \/ base[b].access \cap departments # {})

\* access_blocks on the document, its folder or its knowledge base.
AccessBlocked(d) == \E x \in block : x.on \in {d, doc[d].folder, Home[d]}

\* Not of the code: who may read a document, all of it at this moment.
Readable(d) ==
  /\ doc[d].status = "active" /\ Visible(doc[d], memberOf)
  /\ Queryable(Home[d], memberOf) /\ ~AccessBlocked(d)

\* The index version that was read is still the active one, and the document
\* is not being indexed anew.
Serves(d) == 0 < index[d].active /\ query.indexes[d] = index[d].active /\ ~index[d].indexing

---------------------------------------------------------------------------

\* What the gate passes on, and what it should.
Passes(allowed) ==
  query' = [Idle EXCEPT !.pc = "gated", !.allowed = allowed, !.readable = {d \in query.candidates : Readable(d)},
       !.stood = query.departments \subseteq memberOf /\ \A b \in query.scope : Queryable(b, query.departments)]

\* Faulty variant of Gate below: it does not look at the status of the document.
Gate_Variant ==
  /\ query.pc = "retrieved"
  /\ Passes({d \in query.candidates : /\ Home[d] \in query.scope /\ ~AccessBlocked(d) /\ Serves(d)
                                       /\ Visible(doc[d], query.departments)})

ReadContext ==
  /\ query.pc = "idle"
  /\ query' = [query EXCEPT !.pc = "known", !.departments = memberOf]

\* All bases the user may query, or the ones asked for if they are among them.
ReadScope ==
  /\ query.pc = "known"
  /\ \E scope \in SUBSET {b \in Bases : Queryable(b, query.departments)} :
       query' = IF scope = {} THEN [Idle EXCEPT !.pc = "done"]
                ELSE [query EXCEPT !.pc = "scoped", !.scope = scope]

\* The index versions that are active now, whatever became of their documents.
ActiveIndexes(bases) == [d \in Docs |-> IF Home[d] \in bases THEN index[d].active ELSE 0]

ReadIndexVersions ==
  /\ query.pc = "scoped"
  /\ LET indexes == ActiveIndexes(query.scope) IN
       query' = IF indexes = NoIndexes THEN [Idle EXCEPT !.pc = "done"]
                ELSE [query EXCEPT !.pc = "indexed", !.indexes = indexes]

\* The filters on keyword entries and Qdrant points; both lag behind the rows.
\* Points of a replaced version, which the gate refuses, say what the entries do.
EntryMatches(d) == Home[d] \in query.scope /\ Visible(entry[d], query.departments)

\* Any of those that match, as they rank; none where the vector store fails.
\* Entries are joined with the rows of their documents, points are not: those
\* of a version that was read match until they are cleaned up.
KeywordSearch == SUBSET {d \in Docs : EntryMatches(d) /\ Serves(d) /\ doc[d].status = "active" /\ ~AccessBlocked(d)}
VectorSearch  == SUBSET {d \in Docs : EntryMatches(d) /\ query.indexes[d] > index[d].cleaned}

Retrieve ==
  /\ query.pc = "indexed"
  /\ \E entries \in KeywordSearch, points \in VectorSearch :
       query' = [query EXCEPT !.pc = "retrieved", !.candidates = entries \cup points]

\* The rows as they are now, and the departments, the scope and the index
\* versions read before.
Gate ==
  /\ query.pc = "retrieved"
  /\ Passes({d \in query.candidates : /\ Home[d] \in query.scope /\ ~AccessBlocked(d) /\ Serves(d)
                                       /\ doc[d].status = "active" /\ Visible(doc[d], query.departments)})

\* The chunks that fit are loaded with their texts, whatever became of them.
BuildContext ==
  /\ query.pc = "gated"
  /\ \E chosen \in SUBSET query.allowed :
       query' = [Idle EXCEPT !.pc = "done", !.cited = chosen, !.readable = query.readable \cap chosen, !.stood = query.stood]

Ask ==
  /\ ReadContext \/ ReadScope \/ ReadIndexVersions \/ Retrieve \/ Gate \/ BuildContext
  /\ UNCHANGED <<vars, memberOf, entry, index>>

---------------------------------------------------------------------------
(* What goes on meanwhile.                                                 *)

\* The departments of the user change (Directory).
Reassign ==
  /\ \E departments \in SUBSET Departments : memberOf' = departments
  /\ UNCHANGED <<vars, entry, index, query>>

\* The publish of an imported or rebuilt document, the cleanup of the versions
\* it replaced, and the refresh of a document whose rights have changed, in
\* outline; step by step, with deletions in between, they are in
\* IndexLifecycle.
Rights(d) == [visibility |-> doc[d].visibility, owner |-> doc[d].owner]

PublishDocument(d) ==
  /\ Kept(d) /\ (index[d].active = 0 \/ index[d].indexing) /\ index[d].active < MaxIndexes[d]
  /\ doc' = [doc EXCEPT ![d].status = "active"]
  /\ index' = [index EXCEPT ![d].active = @ + 1, ![d].indexing = FALSE]
  /\ entry' = [entry EXCEPT ![d] = Rights(d)]
  /\ UNCHANGED <<base, folder, policy, block, refresh, req, history, memberOf, query>>

\* A rebuild is asked for; its job publishes, or never does.
RebuildDocument(d) ==
  /\ doc[d].status = "active" /\ index[d].active > 0
  /\ index' = [index EXCEPT ![d].indexing = TRUE]
  /\ UNCHANGED <<vars, memberOf, entry, query>>

CleanupDocument(d) ==
  /\ index[d].cleaned + 1 < index[d].active
  /\ index' = [index EXCEPT ![d].cleaned = index[d].active - 1]
  /\ UNCHANGED <<vars, memberOf, entry, query>>

RefreshDocument(d) ==
  /\ d \in refresh /\ doc[d].status = "active"
  /\ refresh' = refresh \ {d}
  /\ entry' = [entry EXCEPT ![d] = Rights(d)]
  /\ block' = block \ {[on |-> d, reason |-> "permission_tightened"]}
  /\ UNCHANGED <<base, folder, doc, policy, req, history, memberOf, index, query>>

Work == \E d \in Docs : PublishDocument(d) \/ RefreshDocument(d)
Reindex == \E d \in Docs : RebuildDocument(d) \/ CleanupDocument(d)
Administer == AdminNext /\ UNCHANGED queryVars

Init ==
  /\ InitContainers
  /\ \E d \in Departments : memberOf = {d}
  /\ entry = [d \in Docs |-> IF d \in Present THEN [visibility |-> doc[d].visibility, owner |-> doc[d].owner]
                             ELSE NoEntry]
  /\ index = [d \in Docs |-> [active |-> IF d \in Present THEN 1 ELSE 0, cleaned |-> 0, indexing |-> FALSE]]
  /\ query = Idle

\* Before and after the question another department makes no difference, nor
\* does another index before one was read or after the gate.
Next ==
  \/ Administer \/ Ask \/ Work
  \/ query.pc \notin {"idle", "done"} /\ Reassign
  \/ query.pc \in {"indexed", "retrieved"} /\ Reindex
Spec == Init /\ [][Next]_allVars

---------------------------------------------------------------------------

\* Every document in an answer could be read by the user when the gate looked,
\* as long as the departments and the scope it had read still held by then:
\* what entries and points still say, and what changed since the search, is
\* not cited.
CitedWasReadable == query.stood => query.cited \subseteq query.readable
=============================================================================
