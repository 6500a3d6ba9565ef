------------------------------ MODULE IdeaStore ------------------------------
(***************************************************************************)
(* The ideas database of one base (`<base>/.reqlan/ideas-index.sqlite`),   *)
(* as the writers of crates/reqlan-index see it: three tables and one meta *)
(* value, and the write each store call makes.  Every operator below is    *)
(* the effect of ONE autocommit statement or ONE transaction; a caller     *)
(* that issues several of them takes several steps, and may be interrupted *)
(* between two.                                                            *)
(*                                                                         *)
(*   docs     documents.mtime_ms by file: NoRow when the file has no row,  *)
(*            NoMtime when the column is NULL                              *)
(*   ideas    the ideas table, by (file_uri, name): idea ids are made of   *)
(*            those two                                                    *)
(*   links    the `comment_link` rows of the edges table: an idea and the  *)
(*            code file whose comment names it.  The other edge kinds      *)
(*            belong to the idea's own file, are rewritten with it, and    *)
(*            decide nothing here                                          *)
(*   version  meta.extract_version                                         *)
(***************************************************************************)
EXTENDS Integers, FiniteSets

CONSTANTS
    RqFiles,    \* the `.rq` paths of the base
    CodeFiles,  \* the paths of code files whose comments may name ideas
    Names,      \* idea names
    AnyFile     \* the path part of a comment reference that has none

ASSUME FilesAssumption == /\ RqFiles \cap CodeFiles = {}
                          /\ AnyFile \notin RqFiles

VARIABLES docs, ideas, links, version

storeVars == <<docs, ideas, links, version>>

Files == RqFiles \cup CodeFiles
Ideas == RqFiles \X Names
Links == RqFiles \X Names \X CodeFiles

\* A comment reference: a path or none, and an idea name.
Refs == (RqFiles \cup {AnyFile}) \X Names

NoRow   == -1
NoMtime == 0

StoreType == /\ docs \in [Files -> Int]
             /\ ideas \subseteq Ideas
             /\ links \subseteq Links
             /\ version \in Nat

\* A database that was just created and migrated.
StoreInit == /\ docs = [f \in Files |-> NoRow]
             /\ ideas = {}
             /\ links = {}
             /\ version = 0

-----------------------------------------------------------------------------
(* Reads *)

NamesIn(f, catalog) == {n \in Names : <<f, n>> \in catalog}

\* The ideas of `catalog` that the references resolve to: a reference with a
\* path names one idea, a reference without one names every idea so called.
Resolve(refs, catalog) ==
    {i \in catalog : \E r \in refs : r[1] \in {AnyFile, i[1]} /\ r[2] = i[2]}

\* Mutant of LinkRows: two columns of the row swapped.
LinkRowsSwapped(c, targets) == {<<i[2], i[1], c>> : i \in targets}

LinkRows(c, targets) == {<<i[1], i[2], c>> : i \in targets}

LinksOf(c) == {l \in links : l[3] = c}

CodeDocuments == {c \in CodeFiles : docs[c] # NoRow}

\* The foreign key of edges.source_id.  INSERT OR IGNORE does not ignore a
\* foreign key violation: it fails the statement.
ForeignKeysHold(targets) == targets \subseteq ideas

-----------------------------------------------------------------------------
(* Writes *)

\* Mutant of PersistIdeas: the ideas the file no longer declares stay.
PersistIdeasKeepsRemoved(f, names, mtime) ==
    /\ docs' = [docs EXCEPT ![f] = mtime]
    /\ ideas' = ideas \cup ({f} \X names)
    /\ UNCHANGED <<links, version>>

\* Replace a `.rq` document: kept ideas are updated in place, so their comment
\* links stay; a removed idea takes its links with it (ON DELETE CASCADE).
PersistIdeas(f, names, mtime) ==
    /\ docs' = [docs EXCEPT ![f] = mtime]
    /\ ideas' = {i \in ideas : i[1] # f} \cup ({f} \X names)
    /\ links' = {l \in links : l[1] = f => l[2] \in names}
    /\ UNCHANGED version

\* Mutant of PersistLinks: the links of an earlier text are not deleted.
PersistLinksKeepsOld(c, targets, mtime) ==
    /\ ForeignKeysHold(targets)
    /\ docs' = [docs EXCEPT ![c] = mtime]
    /\ links' = links \cup LinkRows(c, targets)
    /\ UNCHANGED <<ideas, version>>

\* Replace the comment links of a code document, and its row.
PersistLinks(c, targets, mtime) ==
    /\ ForeignKeysHold(targets)
    /\ docs' = [docs EXCEPT ![c] = mtime]
    /\ links' = (links \ LinksOf(c)) \cup LinkRows(c, targets)
    /\ UNCHANGED <<ideas, version>>

\* Mutant of RemoveDocument: the links its comments make stay.
RemoveDocumentKeepsLinks(f) ==
    /\ docs' = [docs EXCEPT ![f] = NoRow]
    /\ ideas' = {i \in ideas : i[1] # f}
    /\ links' = {l \in links : l[1] # f}
    /\ UNCHANGED version

\* Delete a document: the links its comments make, its ideas, their links.
RemoveDocument(f) ==
    /\ docs' = [docs EXCEPT ![f] = NoRow]
    /\ ideas' = {i \in ideas : i[1] # f}
    /\ links' = {l \in links : l[1] # f /\ l[3] # f}
    /\ UNCHANGED version

\* The three statements of `clear_all`.  They are one execute_batch call but
\* no transaction wraps them.
ClearEdges == /\ links' = {}
              /\ UNCHANGED <<docs, ideas, version>>

ClearIdeas == /\ ideas' = {}
              /\ links' = {}       \* ON DELETE CASCADE
              /\ UNCHANGED <<docs, version>>

ClearDocuments == /\ docs' = [f \in Files |-> NoRow]
                  /\ UNCHANGED <<ideas, links, version>>

SetExtractVersion(v) == /\ version' = v
                        /\ UNCHANGED <<docs, ideas, links>>
=============================================================================
