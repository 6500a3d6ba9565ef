----------------------------- MODULE IndexRuntime -----------------------------
(***************************************************************************)
(* The native index of one base inside the editor: the runtime that        *)
(* crates/reqlan-analytical/src/workspace_index.rs keeps behind a mutex and *)
(* packages/analytical calls through napi.  Every call is synchronous, so  *)
(* it is one step for the JavaScript that makes it.                        *)
(*                                                                         *)
(*   fsm      the lifecycle state of the runtime; "uninitialized" also     *)
(*            when there is none                                           *)
(*   gen      how many runtimes were closed: a task that captured a runtime *)
(*            holds the number it had, and finds it closed if they differ  *)
(*   catalog  sync_catalog: the ideas one pass resolves links against      *)
(*   disk     the files of the base                                        *)
(*                                                                         *)
(* A call keeps the editor from running, not the user from saving: it reads *)
(* a text first and takes the mtime after, and an edit may fall in between. *)
(***************************************************************************)
EXTENDS IdeaStore

CONSTANTS
    RqBodies,   \* the sets of names an edit may give a `.rq` file
    CodeBodies, \* the sets of references an edit may give a code file
    Deletable,  \* the files that edits may delete
    MaxMtime    \* bound: edits of one file

ASSUME RuntimeAssumption == /\ RqBodies \subseteq SUBSET Names
                            /\ CodeBodies \subseteq SUBSET Refs
                            /\ Deletable \subseteq Files
                            /\ MaxMtime \in Nat

VARIABLES disk, fsm, gen, catalog

runtimeVars == <<fsm, gen, catalog>>

States == {"uninitialized", "opening", "idle", "syncing", "ready", "error", "closing"}

\* IndexState::next.
Transitions == {
    <<"uninitialized", "activate",   "opening">>,
    <<"opening",       "opened",     "idle">>,
    <<"opening",       "fail",       "error">>,
    <<"opening",       "deactivate", "closing">>,
    <<"idle",          "sync",       "syncing">>,
    <<"idle",          "deactivate", "closing">>,
    <<"ready",         "sync",       "syncing">>,
    <<"ready",         "deactivate", "closing">>,
    <<"syncing",       "synced",     "ready">>,
    <<"syncing",       "fail",       "error">>,
    <<"syncing",       "deactivate", "closing">>,
    <<"error",         "activate",   "opening">>,
    <<"error",         "sync",       "syncing">>,
    <<"error",         "deactivate", "closing">>,
    <<"closing",       "closed",     "uninitialized">> }

CanDispatch(event) == \E t \in Transitions : t[1] = fsm /\ t[2] = event

\* Mutant of After: the event is stored in place of the state it leads to.
AfterKeepsEvent(event) == IF CanDispatch(event) THEN event ELSE fsm

\* Where the event leads; nowhere when the state refuses it.
After(event) ==
    IF CanDispatch(event)
    THEN (CHOOSE t \in Transitions : t[1] = fsm /\ t[2] = event)[3]
    ELSE fsm

NoCatalog == [on |-> FALSE, ideas |-> {}]

\* The runtime a task captured is still the one in use.
Live(g) == g = gen /\ fsm # "uninitialized"

Bodies(f) == IF f \in RqFiles THEN RqBodies ELSE CodeBodies

FileStates == [there : BOOLEAN, mtime : Nat \ {0}, body : SUBSET (Names \cup Refs)]

RuntimeType == /\ disk \in [Files -> FileStates]
               /\ fsm \in States
               /\ gen \in Nat
               /\ catalog \in [on : BOOLEAN, ideas : SUBSET Ideas]

-----------------------------------------------------------------------------

(* The user *)

\* What an edit may make of a file: a write, a creation or a deletion.
Edits(f) == {e \in [there : BOOLEAN, mtime : {disk[f].mtime + 1}, body : Bodies(f)] :
                /\ disk[f].mtime < MaxMtime
                /\ disk[f].there \/ e.there
                /\ e.there \/ f \in Deletable}

\* A native call reads the files `read`, and some of them are edited between the
\* read of their text and the stat after it.
ReadThenEdited(read) ==
    \E edited \in SUBSET read : \E edit \in [edited -> UNION {Edits(g) : g \in edited}] :
       /\ \A g \in edited : edit[g] \in Edits(g)
       /\ disk' = [g \in Files |-> IF g \in edited THEN edit[g] ELSE disk[g]]

\* file_mtime_ms, once the text was read; none if the file has gone since.
MtimeTaken(f) == IF disk'[f].there THEN disk'[f].mtime ELSE NoMtime

-----------------------------------------------------------------------------

\* The ideas that links resolve against: the pass's, or the table's.
Known == IF catalog.on THEN catalog.ideas ELSE ideas

\* Mutant of CatalogWith: the catalog of the pass is never patched.
CatalogUnpatched(f, names) == catalog

\* The catalog of the pass once file f declares `names`.
CatalogWith(f, names) ==
    IF catalog.on
    THEN [catalog EXCEPT !.ideas = {i \in @ : i[1] # f} \cup ({f} \X names)]
    ELSE catalog

\* A file that is gone takes its rows with it.
IndexMissing(f) ==
    /\ ~ disk[f].there
    /\ RemoveDocument(f)
    /\ catalog' = CatalogWith(f, {})
    /\ UNCHANGED disk

\* A file that goes between the check and the read fails the call.
IndexVanishing(f) ==
    /\ disk[f].there
    /\ ReadThenEdited({f}) /\ ~ disk'[f].there
    /\ UNCHANGED <<storeVars, catalog>>

\* A link to an idea that is in the catalog but no longer in the table fails.
IndexCode(c) ==
    /\ c \in CodeFiles /\ disk[c].there
    /\ ReadThenEdited({c})
    /\ LET targets == Resolve(disk[c].body, Known)
       IN  IF ForeignKeysHold(targets)
           THEN PersistLinks(c, targets, MtimeTaken(c))
           ELSE UNCHANGED storeVars
    /\ UNCHANGED catalog

\* refresh_indexed_code_documents, against `known` with the table holding
\* `now`: the code documents it gets to.  The first link to an idea that is not
\* in the table ends it.
Refreshed(known, now) ==
    LET fails(c) == disk[c].there /\ ~ (Resolve(disk[c].body, known) \subseteq now)
        failing  == {c \in CodeDocuments : fails(c)}
    IN  IF failing = {} THEN {CodeDocuments} ELSE SUBSET (CodeDocuments \ failing)

IndexRq(f) ==
    /\ f \in RqFiles /\ disk[f].there
    /\ LET names == disk[f].body
           known == {i \in Known : i[1] # f} \cup ({f} \X names)
           now   == {i \in ideas : i[1] # f} \cup ({f} \X names)
           kept  == {l \in links : l[1] = f => l[2] \in names}
       IN  \E read \in (IF NamesIn(f, ideas) # names THEN Refreshed(known, now) ELSE {{}}) :
              /\ ReadThenEdited({f} \cup {c \in read : disk[c].there})
              /\ docs' = [g \in Files |->
                            CASE g = f       -> MtimeTaken(f)
                              [] g \in read  -> IF disk[g].there THEN MtimeTaken(g) ELSE NoRow
                              [] OTHER       -> docs[g]]
              /\ ideas' = now
              /\ links' = {l \in kept : l[3] \notin read} \cup
                          UNION {LinkRows(c, Resolve(disk[c].body, known)) :
                                    c \in {c \in read : disk[c].there}}
    /\ catalog' = CatalogWith(f, disk[f].body)
    /\ UNCHANGED version

\* index_file.
IndexFile(f) == IndexMissing(f) \/ IndexVanishing(f) \/ IndexCode(f) \/ IndexRq(f)

\* Mutant of ClearAll: the documents rows stay.
ClearAllKeepsDocuments == /\ ideas' = {}
                          /\ links' = {}
                          /\ UNCHANGED <<docs, version>>

\* clear_ideas: no one else runs between its three statements.
ClearAll == /\ docs' = [f \in Files |-> NoRow]
            /\ ideas' = {}
            /\ links' = {}
            /\ UNCHANGED version
=============================================================================
