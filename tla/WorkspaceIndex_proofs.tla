------------------------- MODULE WorkspaceIndex_proofs -------------------------
(***************************************************************************)
(* Proofs about WorkspaceIndex: its types, that one task at a time owns    *)
(* the lifecycle, that the catalog of a pass is there while the pass is,   *)
(* that a row that calls itself current is true, that no row is left that  *)
(* nothing leads back to, that links are those the comments make, that no  *)
(* change is forgotten, and that no task waits for what will not come.     *)
(***************************************************************************)
EXTENDS WorkspaceIndexProps, TLAPS

\* What an edit writes is what files may hold.
DiskBodies == \A f \in Files : disk[f].body \in Bodies(f)

\* A task that captured a runtime captured this one or an earlier one.
GensPast == work.gen <= gen /\ sync.gen <= gen

\* Whoever works in the queue works on its head.
AtHead == work.pc # "none" => ~ broken /\ queue # <<>> /\ Head(queue).kind = "index"

\* While a rebuild clears the tables no pass runs, and nobody is about to open the
\* index or to start one.
RebuildAlone ==
    rebuild.pc \in {"woken", "cleared"} => ~ InFlight /\ ensure # "opened" /\ opened = "none"

\* The lifecycle is given away once.  A rebuild that fails while the head of the
\* queue works shows "error", and then nobody is there to take it.
Owned ==
    /\ fsm = "syncing" => PassLive \/ WorkLive
    /\ PassLive => fsm = "syncing" /\ ~ WorkLive
    /\ WorkLive => fsm \in {"syncing", "error"}
    /\ WorkLive /\ fsm = "error" =>
          /\ ensure # "opened" /\ opened = "none"
          /\ rebuild.pc \notin {"woken", "cleared"}

\* While an open is under way nobody else moves the lifecycle, except that the
\* index may be released.
OpeningShown == opened # "none" => fsm \in {"opening", "uninitialized"}

\* What a released index left behind belongs to an earlier runtime.
LeftBehind == fsm = "uninitialized" => /\ sync.pc = "files" => sync.gen # gen
                                       /\ work.pc = "syncing" => work.gen # gen

\* What the tasks agree on about the lifecycle.
LifeInv == RebuildAlone /\ Owned /\ OpeningShown /\ LeftBehind /\ CatalogOfPass

TaskInv == TypeOK /\ DiskBodies /\ GensPast /\ AtHead /\ LifeInv

(***************************************************************************)
(* The lifecycle table                                                     *)
(***************************************************************************)
\* A state and an event lead to one state.
LEMMA Deterministic ==
    \A s, t \in Transitions : s[1] = t[1] /\ s[2] = t[2] => s = t
BY DEF Transitions

\* Where an event of the table leads.
LEMMA AfterIs ==
    ASSUME NEW t \in Transitions, t[1] = fsm
    PROVE  CanDispatch(t[2]) /\ After(t[2]) = t[3]
<1>1. CanDispatch(t[2])
  BY DEF CanDispatch
<1>2. \A u \in Transitions : u[1] = fsm /\ u[2] = t[2] => u = t
  BY Deterministic
<1>. QED BY <1>1, <1>2 DEF After

\* An event that the state refuses leads nowhere; any other leads to a state.
LEMMA AfterType ==
    ASSUME fsm \in States, NEW event
    PROVE  After(event) \in States /\ (~ CanDispatch(event) => After(event) = fsm)
<1>1. CASE ~ CanDispatch(event)
  BY <1>1 DEF After
<1>2. CASE CanDispatch(event)
  <2>1. PICK t \in Transitions : t[1] = fsm /\ t[2] = event
    BY <1>2 DEF CanDispatch
  <2>2. After(event) = t[3]
    BY <2>1, AfterIs
  <2>3. t[3] \in States
    BY DEF Transitions, States
  <2>. QED BY <2>2, <2>3, <1>2
<1>. QED BY <1>1, <1>2

\* A pass or a file that begins.
LEMMA SyncEvent ==
    ASSUME fsm \in States
    PROVE  /\ CanDispatch("sync") <=> fsm \in {"idle", "ready", "error"}
           /\ CanDispatch("sync") => After("sync") = "syncing"
<1>1. CanDispatch("sync") <=> fsm \in {"idle", "ready", "error"}
  BY DEF CanDispatch, Transitions, States
<1>2. ASSUME fsm \in {"idle", "ready", "error"}
      PROVE  After("sync") = "syncing"
  <2>. DEFINE t == <<fsm, "sync", "syncing">>
  <2>1. t \in Transitions
    BY <1>2 DEF Transitions
  <2>2. t[1] = fsm /\ t[2] = "sync" /\ t[3] = "syncing"
    OBVIOUS
  <2>. HIDE DEF t
  <2>. QED BY <2>1, <2>2, AfterIs
<1>. QED BY <1>1, <1>2

\* A pass or a file that is done with.
LEMMA SyncedEvent ==
    ASSUME fsm \in States
    PROVE  After("synced") = IF fsm = "syncing" THEN "ready" ELSE fsm
<1>1. CanDispatch("synced") <=> fsm = "syncing"
  BY DEF CanDispatch, Transitions, States
<1>2. ASSUME fsm = "syncing"
      PROVE  After("synced") = "ready"
  <2>. DEFINE t == <<fsm, "synced", "ready">>
  <2>1. t \in Transitions
    BY <1>2 DEF Transitions
  <2>2. t[1] = fsm /\ t[2] = "synced" /\ t[3] = "ready"
    OBVIOUS
  <2>. HIDE DEF t
  <2>. QED BY <2>1, <2>2, AfterIs
<1>. QED BY <1>1, <1>2, AfterType

\* An open() that begins.
LEMMA ActivateEvent ==
    ASSUME fsm \in States
    PROVE  /\ CanDispatch("activate") <=> fsm \in {"uninitialized", "error"}
           /\ CanDispatch("activate") => After("activate") = "opening"
<1>1. CanDispatch("activate") <=> fsm \in {"uninitialized", "error"}
  BY DEF CanDispatch, Transitions, States
<1>2. ASSUME fsm \in {"uninitialized", "error"}
      PROVE  After("activate") = "opening"
  <2>. DEFINE t == <<fsm, "activate", "opening">>
  <2>1. t \in Transitions
    BY <1>2 DEF Transitions
  <2>2. t[1] = fsm /\ t[2] = "activate" /\ t[3] = "opening"
    OBVIOUS
  <2>. HIDE DEF t
  <2>. QED BY <2>1, <2>2, AfterIs
<1>. QED BY <1>1, <1>2

\* An open() that succeeded.
LEMMA OpenedEvent ==
    ASSUME fsm \in States
    PROVE  After("opened") = IF fsm = "opening" THEN "idle" ELSE fsm
<1>1. CanDispatch("opened") <=> fsm = "opening"
  BY DEF CanDispatch, Transitions, States
<1>2. ASSUME fsm = "opening"
      PROVE  After("opened") = "idle"
  <2>. DEFINE t == <<fsm, "opened", "idle">>
  <2>1. t \in Transitions
    BY <1>2 DEF Transitions
  <2>2. t[1] = fsm /\ t[2] = "opened" /\ t[3] = "idle"
    OBVIOUS
  <2>. HIDE DEF t
  <2>. QED BY <2>1, <2>2, AfterIs
<1>. QED BY <1>1, <1>2, AfterType

\* A failed open() or rebuild.
LEMMA FailEvent ==
    ASSUME fsm \in States
    PROVE  After("fail") = IF fsm \in {"opening", "syncing"} THEN "error" ELSE fsm
<1>1. CanDispatch("fail") <=> fsm \in {"opening", "syncing"}
  BY DEF CanDispatch, Transitions, States
<1>2. ASSUME fsm \in {"opening", "syncing"}
      PROVE  After("fail") = "error"
  <2>. DEFINE t == <<fsm, "fail", "error">>
  <2>1. t \in Transitions
    BY <1>2 DEF Transitions
  <2>2. t[1] = fsm /\ t[2] = "fail" /\ t[3] = "error"
    OBVIOUS
  <2>. HIDE DEF t
  <2>. QED BY <2>1, <2>2, AfterIs
<1>. QED BY <1>1, <1>2, AfterType

(***************************************************************************)
(* The rows                                                                *)
(***************************************************************************)
DiskType == disk \in [Files -> FileStates]
CatalogType == catalog \in [on : BOOLEAN, ideas : SUBSET Ideas]

\* A file holds names or references.
LEMMA BodiesHold ==
    ASSUME DiskBodies
    PROVE  /\ \A f \in RqFiles : disk[f].body \subseteq Names
           /\ \A c \in CodeFiles : disk[c].body \subseteq Refs
BY FilesAssumption, RuntimeAssumption DEF DiskBodies, Bodies, Files

\* What the references resolve to is in the catalog, and its rows are links.
LEMMA ResolveIn ==
    ASSUME NEW refs, NEW known, NEW c \in CodeFiles, known \subseteq Ideas
    PROVE  Resolve(refs, known) \subseteq known /\ LinkRows(c, Resolve(refs, known)) \subseteq Links
<1>1. Resolve(refs, known) \subseteq known
  BY DEF Resolve
<1>2. \A i \in Resolve(refs, known) : i[1] \in RqFiles /\ i[2] \in Names
  BY <1>1 DEF Ideas
<1>. QED BY <1>1, <1>2 DEF LinkRows, Links

\* The catalog of a pass, patched for a file of names.
LEMMA CatalogPatched ==
    ASSUME CatalogType, NEW f \in Files, NEW names, f \in RqFiles \/ names = {},
           names \subseteq Names
    PROVE  /\ CatalogWith(f, names) \in [on : BOOLEAN, ideas : SUBSET Ideas]
           /\ CatalogWith(f, names).on = catalog.on
<1>1. {f} \X names \subseteq Ideas
  BY DEF Ideas
<1>. QED BY <1>1 DEF CatalogType, CatalogWith

\* What the indexing of a `.rq` file reads, writes and knows.
LEMMA RqReads ==
    ASSUME StoreType, DiskType, CatalogType, DiskBodies, NEW f \in RqFiles, disk[f].there
    PROVE  LET names == disk[f].body
               known == {i \in Known : i[1] # f} \cup ({f} \X names)
               now   == {i \in ideas : i[1] # f} \cup ({f} \X names)
           IN  /\ known \subseteq Ideas /\ now \subseteq Ideas
               /\ \A read \in (IF NamesIn(f, ideas) # names THEN Refreshed(known, now) ELSE {{}}) :
                     /\ read \subseteq CodeFiles
                     /\ \A c \in read : disk[c].there => Resolve(disk[c].body, known) \subseteq now
<1>. DEFINE names == disk[f].body
            known == {i \in Known : i[1] # f} \cup ({f} \X names)
            now   == {i \in ideas : i[1] # f} \cup ({f} \X names)
            fails(c) == disk[c].there /\ ~ (Resolve(disk[c].body, known) \subseteq now)
<1>1. {f} \X names \subseteq Ideas
  BY BodiesHold DEF Ideas
<1>2. Known \subseteq Ideas /\ ideas \subseteq Ideas
  BY DEF Known, CatalogType, StoreType
<1>3. known \subseteq Ideas /\ now \subseteq Ideas
  BY <1>1, <1>2
<1>4. ASSUME NEW read \in Refreshed(known, now)
      PROVE  read \subseteq CodeFiles /\ \A c \in read : ~ fails(c)
  <2>1. CodeDocuments \subseteq CodeFiles
    BY DEF CodeDocuments
  <2>2. read \subseteq CodeDocuments \ {c \in CodeDocuments : fails(c)}
    BY <1>4 DEF Refreshed
  <2>. QED BY <2>1, <2>2
<1>. QED BY <1>3, <1>4

\* The tables before and after, without the version.
RowsTyped == StoreType /\ DiskType /\ CatalogType /\ DiskBodies

\* The files after a native call: as they were, or edited while they were read.
LEMMA EditedDisk ==
    ASSUME DiskType, DiskBodies, NEW read \in SUBSET Files, ReadThenEdited(read)
    PROVE  /\ DiskType' /\ DiskBodies'
           /\ \A g \in Files : /\ disk'[g] = disk[g] \/ (g \in read /\ disk'[g] \in Edits(g))
                               /\ MtimeTaken(g) \in Nat
<1>1. PICK edited \in SUBSET read : \E edit \in [edited -> UNION {Edits(g) : g \in edited}] :
         /\ \A g \in edited : edit[g] \in Edits(g)
         /\ disk' = [g \in Files |-> IF g \in edited THEN edit[g] ELSE disk[g]]
  BY DEF ReadThenEdited
<1>2. PICK edit \in [edited -> UNION {Edits(g) : g \in edited}] :
         /\ \A g \in edited : edit[g] \in Edits(g)
         /\ disk' = [g \in Files |-> IF g \in edited THEN edit[g] ELSE disk[g]]
  BY <1>1
<1>3. \A g \in Files : disk'[g] = disk[g] \/ (g \in read /\ disk'[g] \in Edits(g))
  BY <1>2
<1>4. \A g \in Files : /\ disk[g] \in FileStates
                       /\ Edits(g) \subseteq FileStates
                       /\ \A e \in Edits(g) : e.body \in Bodies(g)
  BY RuntimeAssumption DEF DiskType, Edits, FileStates, Bodies
<1>5. \A g \in Files : disk'[g] \in FileStates
  BY <1>3, <1>4
<1>6. DiskType'
  BY <1>2, <1>5 DEF DiskType
<1>7. DiskBodies'
  BY <1>3, <1>4 DEF DiskBodies, Bodies
<1>8. \A g \in Files : MtimeTaken(g) \in Nat
  BY <1>5 DEF MtimeTaken, NoMtime, FileStates
<1>. QED BY <1>3, <1>6, <1>7, <1>8

\* Files that stay as they are.
LEMMA SameDisk ==
    ASSUME DiskType, DiskBodies, UNCHANGED disk
    PROVE  DiskType' /\ DiskBodies'
BY DEF DiskType, DiskBodies, Bodies

\* A document that is deleted leaves no row behind.
LEMMA RemovedRows ==
    ASSUME RowsTyped, NEW f \in Files, RemoveDocument(f)
    PROVE  StoreType' /\ (Rooted => Rooted')
<1>1. /\ docs' = [docs EXCEPT ![f] = NoRow]
      /\ ideas' = {i \in ideas : i[1] # f}
      /\ links' = {l \in links : l[1] # f /\ l[3] # f}
      /\ version' = version
  BY DEF RemoveDocument
<1>2. StoreType'
  BY <1>1 DEF RowsTyped, StoreType, NoRow
<1>3. \A g \in Files : docs'[g] = IF g = f THEN NoRow ELSE docs[g]
  BY <1>1 DEF RowsTyped, StoreType
<1>4. ASSUME Rooted
      PROVE  Rooted'
  <2>1. \A i \in ideas : i[1] \in Files
    BY DEF RowsTyped, StoreType, Ideas, Files
  <2>2. \A l \in links : l[1] \in Files /\ l[3] \in Files
    BY DEF RowsTyped, StoreType, Links, Files
  <2>3. \A l \in links : <<l[1], l[2]>>[1] = l[1]
    OBVIOUS
  <2>. QED BY <1>1, <1>3, <1>4, <2>1, <2>2, <2>3 DEF Rooted
<1>. QED BY <1>2, <1>4

\* Nor do the tables that a rebuild clears.
LEMMA ClearedRows ==
    ASSUME RowsTyped, ClearAll
    PROVE  StoreType' /\ Rooted'
<1>1. docs' = [f \in Files |-> NoRow] /\ ideas' = {} /\ links' = {} /\ version' = version
  BY DEF ClearAll
<1>2. StoreType'
  BY <1>1 DEF RowsTyped, StoreType, NoRow
<1>3. Rooted'
  BY <1>1 DEF Rooted
<1>. QED BY <1>2, <1>3

\* The links of a code file lead to ideas of the table.
LEMMA LinkedRows ==
    ASSUME RowsTyped, NEW c \in CodeFiles, NEW targets, targets \subseteq Ideas,
           NEW mtime \in Nat, PersistLinks(c, targets, mtime)
    PROVE  StoreType' /\ (Rooted => Rooted')
<1>1. /\ docs' = [docs EXCEPT ![c] = mtime]
      /\ ideas' = ideas /\ version' = version
      /\ links' = (links \ LinksOf(c)) \cup LinkRows(c, targets)
      /\ targets \subseteq ideas
  BY DEF PersistLinks, ForeignKeysHold
<1>2. c \in Files /\ c \notin RqFiles
  BY FilesAssumption DEF Files
<1>3. \A g \in Files : docs'[g] = IF g = c THEN mtime ELSE docs[g]
  BY <1>1 DEF RowsTyped, StoreType
<1>4. \A i \in targets : i[1] \in RqFiles /\ i[2] \in Names /\ i = <<i[1], i[2]>>
  BY DEF Ideas
<1>5. LinkRows(c, targets) \subseteq Links
  BY <1>4 DEF LinkRows, Links
<1>6. StoreType'
  <2>1. docs' \in [Files -> Int]
    BY <1>1, <1>2 DEF RowsTyped, StoreType
  <2>. QED BY <2>1, <1>1, <1>5 DEF RowsTyped, StoreType
<1>7. ASSUME Rooted
      PROVE  Rooted'
  <2>1. \A i \in ideas' : docs'[i[1]] # NoRow
    <3>. SUFFICES ASSUME NEW i \in ideas
         PROVE  docs'[i[1]] # NoRow
      BY <1>1
    <3>1. i[1] \in RqFiles /\ docs[i[1]] # NoRow
      BY <1>7 DEF Rooted, RowsTyped, StoreType, Ideas
    <3>. QED BY <3>1, <1>2, <1>3 DEF Files
  <2>2. ASSUME NEW l \in links'
        PROVE  docs'[l[3]] # NoRow /\ <<l[1], l[2]>> \in ideas'
    <3>1. CASE l \in links
      <4>1. l[3] \in Files /\ docs[l[3]] # NoRow /\ <<l[1], l[2]>> \in ideas
        BY <3>1, <1>7 DEF Rooted, RowsTyped, StoreType, Links, Files
      <4>. QED BY <4>1, <1>1, <1>2, <1>3 DEF NoRow
    <3>2. CASE l \in LinkRows(c, targets)
      <4>1. l[3] = c /\ <<l[1], l[2]>> \in targets
        BY <3>2, <1>4 DEF LinkRows
      <4>. QED BY <4>1, <1>1, <1>2, <1>3 DEF NoRow
    <3>. QED BY <3>1, <3>2, <1>1
  <2>. QED BY <2>1, <2>2 DEF Rooted
<1>. QED BY <1>6, <1>7

\* A `.rq` file that is indexed has its ideas; the code files that are read again have
\* links to ideas of the table, the others keep those whose ideas stay.
LEMMA IndexedRows ==
    ASSUME RowsTyped, NEW f \in RqFiles, IndexRq(f)
    PROVE  /\ StoreType' /\ CatalogType' /\ catalog'.on = catalog.on
           /\ DiskType' /\ DiskBodies' /\ (Rooted => Rooted')
<1>. DEFINE names == disk[f].body
            known == {i \in Known : i[1] # f} \cup ({f} \X names)
            now   == {i \in ideas : i[1] # f} \cup ({f} \X names)
            kept  == {l \in links : l[1] = f => l[2] \in names}
<1>1. disk[f].there
  BY DEF IndexRq
<1>2. PICK read \in (IF NamesIn(f, ideas) # names THEN Refreshed(known, now) ELSE {{}}) :
          /\ ReadThenEdited({f} \cup {c \in read : disk[c].there})
          /\ docs' = [g \in Files |->
                        CASE g = f       -> MtimeTaken(f)
                          [] g \in read  -> IF disk[g].there THEN MtimeTaken(g) ELSE NoRow
                          [] OTHER       -> docs[g]]
          /\ links' = {l \in kept : l[3] \notin read} \cup
                      UNION {LinkRows(c, Resolve(disk[c].body, known)) :
                                c \in {c \in read : disk[c].there}}
  BY DEF IndexRq
<1>3. ideas' = now /\ catalog' = CatalogWith(f, names) /\ version' = version
  BY DEF IndexRq
<1>4. /\ known \subseteq Ideas /\ now \subseteq Ideas /\ read \subseteq CodeFiles
      /\ \A c \in read : disk[c].there => Resolve(disk[c].body, known) \subseteq now
  BY <1>1, <1>2, RqReads DEF RowsTyped
<1>5. f \in Files /\ f \notin read
  BY <1>4, FilesAssumption DEF Files
<1>6. DiskType' /\ DiskBodies' /\ \A g \in Files : MtimeTaken(g) \in Nat
  <2>1. {f} \cup {c \in read : disk[c].there} \in SUBSET Files
    BY <1>4, <1>5 DEF Files
  <2>. QED BY <2>1, <1>2, EditedDisk DEF RowsTyped
<1>7. \A g \in Files : docs'[g] = IF g = f THEN MtimeTaken(f)
                                  ELSE IF g \in read
                                       THEN IF disk[g].there THEN MtimeTaken(g) ELSE NoRow
                                       ELSE docs[g]
  BY <1>2, <1>5
<1>8. names \subseteq Names
  BY BodiesHold DEF RowsTyped
<1>9. CatalogType' /\ catalog'.on = catalog.on
  BY <1>3, <1>5, <1>8, CatalogPatched DEF RowsTyped, CatalogType
<1>10. \A c \in read : disk[c].there => LinkRows(c, Resolve(disk[c].body, known)) \subseteq Links
  BY <1>4, ResolveIn
<1>. HIDE DEF known, now
<1>11. StoreType'
  <2>1. docs' \in [Files -> Int]
    <3>1. \A g \in Files : docs'[g] \in Int
      BY <1>6, <1>7 DEF RowsTyped, StoreType, NoRow
    <3>. QED BY <3>1, <1>2
  <2>2. links' \subseteq Links
    BY <1>2, <1>10 DEF RowsTyped, StoreType
  <2>. QED BY <2>1, <2>2, <1>3, <1>4 DEF RowsTyped, StoreType
<1>12. ASSUME Rooted
       PROVE  Rooted'
  <2>1. \A i \in ideas' : docs'[i[1]] # NoRow
    <3>. SUFFICES ASSUME NEW i \in ideas'
         PROVE  docs'[i[1]] # NoRow
      OBVIOUS
    <3>1. i[1] \in RqFiles /\ i[1] \in Files /\ i[1] \notin read
      BY <1>3, <1>4, FilesAssumption DEF Ideas, Files
    <3>2. CASE i[1] = f
      BY <3>1, <3>2, <1>6, <1>7 DEF NoRow
    <3>3. CASE i[1] # f
      <4>1. i \in ideas
        BY <3>3, <1>3 DEF now
      <4>. QED BY <4>1, <3>1, <3>3, <1>7, <1>12 DEF Rooted
    <3>. QED BY <3>2, <3>3
  <2>2. ASSUME NEW l \in links'
        PROVE  docs'[l[3]] # NoRow /\ <<l[1], l[2]>> \in ideas'
    <3>1. CASE l \in kept /\ l[3] \notin read
      <4>1. /\ l[3] \in CodeFiles /\ l[3] \in Files /\ l[3] # f
            /\ docs[l[3]] # NoRow /\ <<l[1], l[2]>> \in ideas
        BY <3>1, <1>12, FilesAssumption DEF Rooted, RowsTyped, StoreType, Links, Files
      <4>2. <<l[1], l[2]>> \in now
        BY <4>1, <3>1 DEF now
      <4>. QED BY <4>1, <4>2, <3>1, <1>3, <1>7
    <3>2. CASE \E c \in read : disk[c].there /\ l \in LinkRows(c, Resolve(disk[c].body, known))
      <4>1. PICK c \in read : disk[c].there /\ l \in LinkRows(c, Resolve(disk[c].body, known))
        BY <3>2
      <4>2. PICK i \in Resolve(disk[c].body, known) : l = <<i[1], i[2], c>>
        BY <4>1 DEF LinkRows
      <4>3. i \in now /\ i = <<i[1], i[2]>>
        BY <4>1, <4>2, <1>4 DEF Ideas
      <4>4. c \in Files /\ c # f
        BY <4>1, <1>4, <1>5 DEF Files
      <4>. QED BY <4>1, <4>2, <4>3, <4>4, <1>3, <1>6, <1>7 DEF NoRow
    <3>. QED BY <3>1, <3>2, <1>2
  <2>. QED BY <2>1, <2>2 DEF Rooted
<1>. QED BY <1>6, <1>9, <1>11, <1>12

\* One native call on one file.
LEMMA FileRows ==
    ASSUME RowsTyped, NEW f \in Files, IndexFile(f)
    PROVE  /\ StoreType' /\ CatalogType' /\ catalog'.on = catalog.on
           /\ DiskType' /\ DiskBodies' /\ (Rooted => Rooted')
<1>0. ASSUME ReadThenEdited({f})
      PROVE  DiskType' /\ DiskBodies' /\ MtimeTaken(f) \in Nat
  <2>1. {f} \in SUBSET Files
    OBVIOUS
  <2>. QED BY <2>1, <1>0, EditedDisk DEF RowsTyped
<1>1. CASE IndexMissing(f)
  <2>1. RemoveDocument(f) /\ catalog' = CatalogWith(f, {}) /\ UNCHANGED disk
    BY <1>1 DEF IndexMissing
  <2>2. CatalogType' /\ catalog'.on = catalog.on
    BY <2>1, CatalogPatched DEF RowsTyped, CatalogType
  <2>. QED BY <2>1, <2>2, RemovedRows, SameDisk DEF RowsTyped
<1>2. ASSUME UNCHANGED storeVars
      PROVE  StoreType' /\ (Rooted => Rooted')
  BY <1>2 DEF storeVars, RowsTyped, StoreType, Rooted
<1>3. CASE IndexVanishing(f)
  BY <1>0, <1>2, <1>3 DEF IndexVanishing, RowsTyped, CatalogType
<1>4. CASE IndexCode(f)
  <2>. DEFINE targets == Resolve(disk[f].body, Known)
  <2>1. f \in CodeFiles /\ catalog' = catalog /\ CatalogType' /\ ReadThenEdited({f})
    BY <1>4 DEF IndexCode, RowsTyped, CatalogType
  <2>2. targets \subseteq Ideas
    <3>1. Known \subseteq Ideas
      BY DEF Known, RowsTyped, CatalogType, StoreType
    <3>. QED BY <3>1, <2>1, ResolveIn
  <2>3. CASE PersistLinks(f, targets, MtimeTaken(f))
    <3>. HIDE DEF targets
    <3>. QED BY <1>0, <2>1, <2>2, <2>3, LinkedRows
  <2>. QED BY <2>1, <2>3, <1>0, <1>2, <1>4 DEF IndexCode
<1>5. CASE IndexRq(f)
  <2>1. f \in RqFiles
    BY <1>5 DEF IndexRq
  <2>. QED BY <2>1, <1>5, IndexedRows
<1>. QED BY <1>1, <1>3, <1>4, <1>5 DEF IndexFile

\* The types, without those of the tasks.
LEMMA TypedRows ==
    ASSUME TypeOK, DiskBodies
    PROVE  RowsTyped /\ fsm \in States /\ gen \in Nat
BY DEF TypeOK, RuntimeType, RowsTyped, DiskType, CatalogType

\* A step that does not touch the tables.
LEMMA SameRows ==
    ASSUME TypeOK, UNCHANGED storeVars
    PROVE  StoreType' /\ (Rooted => Rooted')
BY DEF TypeOK, StoreType, storeVars, Rooted

\* An edit.
LEMMA EditRows ==
    ASSUME TypeOK, DiskBodies, NEW f \in Files, Edit(f)
    PROVE  StoreType' /\ DiskType' /\ DiskBodies' /\ (Rooted => Rooted')
<1>1. PICK e \in Edits(f) : disk' = [disk EXCEPT ![f] = e]
  BY DEF Edit
<1>2. e \in FileStates /\ e.body \in Bodies(f)
  BY RuntimeAssumption DEF TypeOK, RuntimeType, Edits, FileStates, Bodies
<1>3. DiskType'
  BY <1>1, <1>2 DEF TypeOK, RuntimeType, DiskType
<1>4. \A g \in Files : disk'[g] = IF g = f THEN e ELSE disk[g]
  BY <1>1 DEF TypeOK, RuntimeType
<1>5. DiskBodies'
  BY <1>2, <1>4 DEF DiskBodies, Bodies
<1>6. UNCHANGED storeVars
  BY DEF Edit
<1>. QED BY <1>3, <1>5, <1>6, SameRows

\* The head of the queue is a change of a file.
LEMMA HeadIsChange ==
    ASSUME queue \in Seq(Changes), queue # <<>>
    PROVE  Head(queue).file \in Files /\ Tail(queue) \in Seq(Changes)
<1>1. Head(queue) \in Changes /\ Tail(queue) \in Seq(Changes)
  OBVIOUS
<1>. QED BY <1>1 DEF Changes

\* Every step, seen from the tables and the files.
LEMMA RowsStep ==
    ASSUME TypeOK, DiskBodies, AtHead, [Next]_vars
    PROVE  StoreType' /\ DiskType' /\ DiskBodies' /\ (Rooted => Rooted')
<1>. USE DEF runtimeVars
<1>0. RowsTyped
  BY TypedRows
<1>1. ASSUME UNCHANGED disk, StoreType', Rooted => Rooted'
      PROVE  StoreType' /\ DiskType' /\ DiskBodies' /\ (Rooted => Rooted')
  BY <1>0, <1>1, SameDisk DEF RowsTyped
<1>2. ASSUME NEW f \in Files, Edit(f)
      PROVE  StoreType' /\ DiskType' /\ DiskBodies' /\ (Rooted => Rooted')
  BY <1>2, EditRows
<1>3. ASSUME NEW f \in Files, SyncFile(f)
      PROVE  StoreType' /\ DiskType' /\ DiskBodies' /\ (Rooted => Rooted')
  <2>1. UNCHANGED <<storeVars, disk>> \/ IndexFile(f)
    BY <1>3 DEF SyncFile
  <2>. QED BY <2>1, <1>0, <1>1, FileRows, SameRows
<1>4. CASE EndIndex
  <2>1. UNCHANGED <<storeVars, disk>> \/ IndexFile(Head(queue).file)
    BY <1>4 DEF EndIndex
  <2>2. work.pc = "syncing"
    BY <1>4 DEF EndIndex
  <2>3. Head(queue).file \in Files
    BY <2>2, HeadIsChange DEF AtHead, TypeOK
  <2>. QED BY <2>1, <2>3, <1>0, <1>1, FileRows, SameRows
<1>5. CASE Delete
  <2>1. UNCHANGED disk /\ (UNCHANGED storeVars \/ RemoveDocument(Head(queue).file))
    BY <1>5 DEF Delete
  <2>2. Head(queue).file \in Files
    BY <1>5, HeadIsChange DEF Delete, Turn, TypeOK
  <2>. QED BY <2>1, <2>2, <1>0, <1>1, RemovedRows, SameRows
<1>6. CASE RebuildClear
  <2>1. UNCHANGED disk /\ (UNCHANGED storeVars \/ ClearAll)
    BY <1>6 DEF RebuildClear
  <2>. QED BY <2>1, <1>0, <1>1, ClearedRows, SameRows
<1>7. CASE \/ OpenEnds \/ Report \/ \E f \in Files : Enqueue(f)
  BY <1>7, <1>1, SameRows DEF OpenEnds, Report, Enqueue
<1>8. CASE Skipped \/ WaitForSync \/ DropIndex \/ BeginIndex
  BY <1>8, <1>1, SameRows DEF Skipped, WaitForSync, DropIndex, BeginIndex
<1>9. CASE SyncEnds \/ PollEnds \/ Cancel
  BY <1>9, <1>1, SameRows DEF SyncEnds, PollEnds, Cancel
<1>10. CASE EnsureStart \/ EnsureSync
  BY <1>10, <1>1, SameRows DEF EnsureStart, EnsureSync
<1>11. CASE RebuildStart \/ RebuildFails \/ RebuildSync
  BY <1>11, <1>1, SameRows DEF RebuildStart, RebuildFails, RebuildSync
<1>12. CASE IdleStart \/ IdleDiff \/ IdleRelease
  BY <1>12, <1>1, SameRows DEF IdleStart, IdleDiff, IdleRelease
<1>13. CASE UNCHANGED vars
  BY <1>13, <1>1, SameRows DEF vars
<1>. QED BY <1>2, <1>3, <1>4, <1>5, <1>6, <1>7, <1>8, <1>9, <1>10, <1>11, <1>12, <1>13 DEF Next

(***************************************************************************)
(* The types of the tasks                                                  *)
(***************************************************************************)
WorkStates == [pc : {"none", "waiting", "woken", "syncing"}, gen : Nat]
SyncStates == [pc : {"none", "files", "poll"}, gen : Nat, todo : SUBSET Files,
               stored : [Files -> Int], cancel : BOOLEAN]
EnsureStates == {"none", "opening", "opened", "waiting", "done", "failed"}
RebuildStates == [pc : {"none", "waiting", "woken", "cleared", "syncing", "done", "failed"},
                  list : SUBSET Files]
IdleStates == [pc : {"none", "diff", "waiting", "woken"}, found : SUBSET Files,
               stored : [Files -> Int]]

QueueType == /\ reports \subseteq Files
             /\ handler \in [Files -> {"none", "opening", "opened"}]
             /\ broken \in BOOLEAN /\ queue \in Seq(Changes) /\ work \in WorkStates

LifeType == /\ fsm \in States /\ gen \in Nat /\ CatalogType
            /\ sqlite \in BOOLEAN /\ opened \in {"none", "ok", "failed"}

PassType == /\ sync \in SyncStates /\ ensure \in EnsureStates /\ rebuild \in RebuildStates
            /\ idle \in IdleStates

\* The type invariant, by what changes together.
LEMMA TypeParts == TypeOK <=> StoreType /\ DiskType /\ QueueType /\ LifeType /\ PassType
BY DEF TypeOK, RuntimeType, DiskType, QueueType, LifeType, PassType, CatalogType, WorkStates,
       SyncStates, EnsureStates, RebuildStates, IdleStates

\* What a call of syncWorkspace comes to: it joins a pass, polls, fails or starts one.
SyncJoins  == UNCHANGED <<sync, fsm, catalog>>
SyncPolls  == /\ ~ InFlight /\ sync'.pc = "poll" /\ UNCHANGED <<fsm, catalog>>
SyncFails  == /\ ~ InFlight /\ fsm \in {"idle", "ready", "error"} /\ fsm' = "error"
              /\ UNCHANGED <<sync, catalog>>
SyncStarts == /\ ~ InFlight /\ fsm \in {"idle", "ready", "error"} /\ fsm' = "syncing"
              /\ sync'.pc = "files" /\ sync'.gen = gen
              /\ catalog' = [on |-> TRUE, ideas |-> ideas]

\* One of the four, and the types stay.
LEMMA SyncCalled ==
    ASSUME TypeOK, NEW list \in SUBSET Files, SyncCall(list)
    PROVE  /\ sync' \in SyncStates /\ fsm' \in States /\ CatalogType'
           /\ sync'.gen <= gen \/ sync' = sync
           /\ SyncJoins \/ SyncPolls \/ SyncFails \/ SyncStarts
<1>. DEFINE begun == [pc |-> "files", gen |-> gen, todo |-> list, stored |-> docs, cancel |-> FALSE]
            polls == [NoSync EXCEPT !.pc = "poll", !.gen = gen]
<1>0. StoreType /\ LifeType /\ PassType
  BY TypeParts
<1>1. begun \in SyncStates /\ begun.pc = "files" /\ begun.gen = gen
  BY <1>0 DEF SyncStates, StoreType, LifeType
<1>2. polls \in SyncStates /\ polls.pc = "poll" /\ polls.gen = gen
  <2>1. NoSync \in SyncStates
    BY DEF SyncStates, NoSync, NoRow
  <2>. QED BY <1>0, <2>1 DEF SyncStates, LifeType
<1>3. CASE UNCHANGED <<sync, fsm, catalog>>
  BY <1>0, <1>3 DEF SyncJoins, LifeType, PassType, CatalogType
<1>4. CASE sync' = polls /\ UNCHANGED <<fsm, catalog>> /\ ~ InFlight
  <2>. HIDE DEF polls
  <2>. QED BY <1>0, <1>2, <1>4 DEF SyncPolls, LifeType, CatalogType
<1>5. CASE /\ ~ InFlight /\ CanDispatch("sync") /\ sync' = begun /\ fsm' = After("sync")
           /\ catalog' = [on |-> TRUE, ideas |-> ideas]
  <2>. HIDE DEF begun
  <2>1. fsm \in {"idle", "ready", "error"} /\ fsm' = "syncing"
    BY <1>0, <1>5, SyncEvent DEF LifeType
  <2>2. CatalogType'
    BY <1>0, <1>5 DEF StoreType, CatalogType
  <2>. QED BY <1>0, <1>1, <1>5, <2>1, <2>2 DEF SyncStarts, States, LifeType
<1>6. CASE ~ InFlight /\ CanDispatch("sync") /\ fsm' = "error" /\ UNCHANGED <<sync, catalog>>
  BY <1>0, <1>6, SyncEvent DEF SyncFails, LifeType, PassType, CatalogType, States
<1>. QED BY <1>3, <1>4, <1>5, <1>6 DEF SyncCall

\* Who waited for a promise that is settled.
LEMMA Woken ==
    ASSUME PassType, QueueType, NEW ok, Wake(ok)
    PROVE  /\ work' \in WorkStates /\ ensure' \in EnsureStates
           /\ rebuild' \in RebuildStates /\ idle' \in IdleStates
           /\ work'.gen = work.gen /\ work'.pc \in {work.pc, "woken"}
           /\ work'.pc = "none" <=> work.pc = "none"
           /\ work'.pc = "syncing" <=> work.pc = "syncing"
           /\ ensure' = "opened" <=> ensure = "opened"
BY DEF PassType, QueueType, Wake, WorkStates, EnsureStates, RebuildStates, IdleStates

\* The two ways in which open() comes out at once, or begins.
LEMMA OpenCalled ==
    ASSUME LifeType, OpenStarts
    PROVE  /\ LifeType' /\ fsm \in {"uninitialized", "error"} /\ fsm' = "opening"
           /\ opened' # "none" /\ UNCHANGED <<gen, catalog>>
BY ActivateEvent DEF LifeType, OpenStarts, CatalogType, States

\* A step leaves every task in one of its states.
LEMMA TasksStep ==
    ASSUME TypeOK, DiskBodies, AtHead, [Next]_vars
    PROVE  QueueType' /\ LifeType' /\ PassType'
<1>. USE DEF runtimeVars
<1>0. QueueType /\ LifeType /\ PassType /\ RowsTyped /\ StoreType
  BY TypeParts, TypedRows
<1>1. ASSUME UNCHANGED <<reports, handler, queue, broken, work>>
      PROVE  QueueType'
  BY <1>0, <1>1 DEF QueueType
<1>2. ASSUME UNCHANGED <<fsm, gen, catalog, sqlite, opened>>
      PROVE  LifeType'
  BY <1>0, <1>2 DEF LifeType, CatalogType
<1>3. ASSUME UNCHANGED <<sync, ensure, rebuild, idle>>
      PROVE  PassType'
  BY <1>0, <1>3 DEF PassType
<1>4. ASSUME fsm' \in States, UNCHANGED <<gen, catalog, sqlite, opened>>
      PROVE  LifeType'
  BY <1>0, <1>4 DEF LifeType, CatalogType
<1>5. ASSUME NEW rejects \in BOOLEAN, queue # <<>>, Dequeue(rejects), reports' \subseteq Files,
             UNCHANGED handler
      PROVE  QueueType'
  <2>1. Tail(queue) \in Seq(Changes)
    BY <1>0, <1>5, HeadIsChange DEF QueueType
  <2>. QED BY <2>1, <1>0, <1>5 DEF QueueType, Dequeue, WorkStates
<1>6. CASE OpenEnds
  <2>1. fsm' \in States
    BY <1>0, <1>6, AfterType DEF OpenEnds, LifeType
  <2>. QED BY <2>1, <1>0, <1>6 DEF OpenEnds, LifeType, CatalogType, QueueType, PassType, EnsureStates
<1>7. ASSUME NEW f \in Files, Edit(f)
      PROVE  QueueType' /\ LifeType' /\ PassType'
  BY <1>0, <1>2, <1>3, <1>7 DEF Edit, QueueType
<1>8. ASSUME NEW f \in Files, Enqueue(f)
      PROVE  QueueType' /\ LifeType' /\ PassType'
  <2>1. [kind |-> IF disk[f].there THEN "index" ELSE "delete", file |-> f] \in Changes
    BY DEF Changes
  <2>. QED BY <2>1, <1>0, <1>2, <1>3, <1>8 DEF Enqueue, QueueType
<1>9. ASSUME NEW f \in Files, SyncFile(f)
      PROVE  QueueType' /\ LifeType' /\ PassType'
  <2>1. CatalogType'
    <3>1. UNCHANGED catalog \/ IndexFile(f)
      BY <1>9 DEF SyncFile
    <3>. QED BY <3>1, <1>0, FileRows DEF RowsTyped, CatalogType
  <2>2. sync' \in SyncStates
    BY <1>0, <1>9 DEF SyncFile, PassType, SyncStates
  <2>3. QueueType'
    BY <1>0, <1>9 DEF SyncFile, EditsReported, QueueType
  <2>. QED BY <2>1, <2>2, <2>3, <1>0, <1>9 DEF SyncFile, LifeType, PassType
<1>10. CASE Report
  <2>1. LifeType'
    BY <1>0, <1>2, <1>10, OpenCalled DEF Report
  <2>. QED BY <2>1, <1>0, <1>3, <1>10 DEF Report, QueueType
<1>11. CASE Skipped
  BY <1>0, <1>2, <1>3, <1>5, <1>11 DEF Skipped, QueueType
<1>12. CASE WaitForSync
  BY <1>0, <1>2, <1>3, <1>12 DEF WaitForSync, QueueType, WorkStates
<1>13. CASE DropIndex
  BY <1>0, <1>2, <1>3, <1>5, <1>13 DEF DropIndex, Turn, QueueType
<1>14. CASE BeginIndex
  <2>1. fsm' \in States
    BY <1>0, <1>14, AfterType DEF BeginIndex, LifeType
  <2>2. QueueType'
    BY <1>0, <1>14 DEF BeginIndex, QueueType, LifeType, WorkStates
  <2>. QED BY <2>1, <2>2, <1>3, <1>4, <1>14 DEF BeginIndex
<1>15. CASE EndIndex
  <2>1. fsm' \in States
    BY <1>0, <1>15, AfterType DEF EndIndex, LifeType
  <2>2. queue # <<>> /\ Head(queue).file \in Files
    BY <1>0, <1>15, HeadIsChange DEF EndIndex, AtHead, QueueType
  <2>3. CatalogType'
    <3>1. UNCHANGED catalog \/ IndexFile(Head(queue).file)
      BY <1>15 DEF EndIndex
    <3>. QED BY <3>1, <2>2, <1>0, FileRows DEF RowsTyped, CatalogType
  <2>4. LifeType' /\ PassType'
    BY <2>1, <2>3, <1>0, <1>3, <1>15 DEF EndIndex, LifeType
  <2>5. reports' \subseteq Files
    BY <1>0, <1>15 DEF EndIndex, EditsReported, QueueType
  <2>. QED BY <2>2, <2>4, <2>5, <1>5, <1>15 DEF EndIndex
<1>16. CASE Delete
  BY <1>0, <1>2, <1>3, <1>5, <1>16 DEF Delete, Turn, QueueType
<1>17. CASE SyncEnds
  <2>1. fsm' \in States
    BY <1>0, <1>17, AfterType DEF SyncEnds, LifeType
  <2>2. CatalogType'
    <3>1. catalog' \in {catalog, NoCatalog}
      BY <1>17 DEF SyncEnds
    <3>2. NoCatalog \in [on : BOOLEAN, ideas : SUBSET Ideas]
      BY DEF NoCatalog
    <3>. QED BY <3>1, <3>2, <1>0 DEF LifeType, CatalogType
  <2>3. NoSync \in SyncStates
    BY DEF SyncStates, NoSync, NoRow
  <2>4. PassType' /\ QueueType'
    BY <2>3, <1>0, <1>17, Woken DEF SyncEnds, PassType, QueueType
  <2>. QED BY <2>1, <2>2, <2>4, <1>0, <1>17 DEF SyncEnds, LifeType
<1>18. CASE PollEnds
  <2>1. NoSync \in SyncStates
    BY DEF SyncStates, NoSync, NoRow
  <2>2. PassType' /\ QueueType'
    BY <2>1, <1>0, <1>18, Woken DEF PollEnds, PassType, QueueType
  <2>. QED BY <2>2, <1>2, <1>18 DEF PollEnds
<1>19. CASE Cancel
  BY <1>0, <1>1, <1>2, <1>19 DEF Cancel, PassType, SyncStates
<1>20. Present \in SUBSET Files
  BY DEF Present
<1>21. CASE EnsureStart
  <2>1. QueueType'
    BY <1>1, <1>21 DEF EnsureStart
  <2>2. CASE UNCHANGED <<sync, runtimeVars, sqlite, opened>> /\ ensure' \in {"done", "waiting", "failed"}
    BY <2>1, <2>2, <1>0, <1>2, <1>21 DEF EnsureStart, PassType, EnsureStates
  <2>3. CASE SyncCall(Present) /\ ensure' = Awaiting("waiting") /\ UNCHANGED <<gen, sqlite, opened>>
    <3>1. sync' \in SyncStates /\ fsm' \in States /\ CatalogType'
      BY <2>3, <1>20, SyncCalled
    <3>2. ensure' \in EnsureStates
      BY <2>3 DEF EnsureStates, Awaiting
    <3>. QED BY <2>1, <2>3, <3>1, <3>2, <1>0, <1>21 DEF EnsureStart, PassType, LifeType
  <2>4. CASE OpenStarts /\ ensure' = "opening" /\ UNCHANGED sync
    BY <2>1, <2>4, <1>0, <1>21, OpenCalled DEF EnsureStart, PassType, EnsureStates
  <2>. QED BY <2>2, <2>3, <2>4, <1>21 DEF EnsureStart
<1>22. CASE EnsureSync
  <2>1. QueueType'
    BY <1>1, <1>22 DEF EnsureSync
  <2>2. CASE ensure' = "done" /\ UNCHANGED <<sync, fsm, catalog>>
    BY <2>1, <2>2, <1>0, <1>2, <1>22 DEF EnsureSync, PassType, EnsureStates
  <2>3. CASE SyncCall(Present) /\ ensure' = Awaiting("waiting")
    <3>1. sync' \in SyncStates /\ fsm' \in States /\ CatalogType'
      BY <2>3, <1>20, SyncCalled
    <3>2. ensure' \in EnsureStates
      BY <2>3 DEF EnsureStates, Awaiting
    <3>. QED BY <2>1, <3>1, <3>2, <1>0, <1>22 DEF EnsureSync, PassType, LifeType
  <2>. QED BY <2>2, <2>3, <1>22 DEF EnsureSync
<1>23. CASE RebuildStart
  BY <1>0, <1>1, <1>2, <1>20, <1>23 DEF RebuildStart, PassType, RebuildStates, SyncStates
<1>24. CASE RebuildClear
  BY <1>0, <1>1, <1>2, <1>24 DEF RebuildClear, PassType, RebuildStates
<1>25. CASE RebuildFails
  <2>1. fsm' \in States
    BY <1>0, <1>25, AfterType DEF RebuildFails, LifeType
  <2>. QED BY <2>1, <1>0, <1>1, <1>4, <1>25 DEF RebuildFails, PassType, RebuildStates
<1>26. CASE RebuildSync
  <2>1. rebuild.list \in SUBSET Files
    BY <1>0 DEF PassType, RebuildStates
  <2>2. rebuild' \in RebuildStates
    BY <1>0, <1>26 DEF RebuildSync, Awaiting, PassType, RebuildStates
  <2>3. SyncCall(rebuild.list)
    BY <1>26 DEF RebuildSync
  <2>4. sync' \in SyncStates /\ fsm' \in States /\ CatalogType'
    BY <2>1, <2>3, SyncCalled
  <2>. QED BY <2>2, <2>4, <1>0, <1>1, <1>26 DEF RebuildSync, PassType, LifeType
<1>27. CASE IdleStart
  <2>1. idle' \in IdleStates
    BY <1>0, <1>27 DEF IdleStart, IdleStates, StoreType
  <2>. QED BY <2>1, <1>0, <1>1, <1>2, <1>27 DEF IdleStart, PassType
<1>28. CASE IdleDiff
  <2>. DEFINE dirty == {f \in idle.found : disk[f].there /\ idle.stored[f] # disk[f].mtime}
  <2>1. dirty \in SUBSET Files
    BY <1>0 DEF PassType, IdleStates
  <2>2. idle' \in IdleStates
    <3>1. \E next \in {"woken", "waiting"} : idle' = [idle EXCEPT !.pc = next]
      BY <1>28 DEF IdleDiff
    <3>. QED BY <3>1, <1>0 DEF PassType, IdleStates
  <2>3. SyncCall(dirty) \/ UNCHANGED <<sync, fsm, catalog>>
    BY <1>28 DEF IdleDiff
  <2>. HIDE DEF dirty
  <2>4. sync' \in SyncStates /\ fsm' \in States /\ CatalogType'
    <3>1. CASE SyncCall(dirty)
      BY <3>1, <2>1, SyncCalled
    <3>2. CASE UNCHANGED <<sync, fsm, catalog>>
      BY <3>2, <1>0 DEF PassType, LifeType, CatalogType
    <3>. QED BY <3>1, <3>2, <2>3
  <2>. QED BY <2>2, <2>4, <1>0, <1>1, <1>28 DEF IdleDiff, PassType, LifeType
<1>29. CASE IdleRelease
  <2>1. NoIdle \in IdleStates
    BY DEF IdleStates, NoIdle, NoRow
  <2>2. CatalogType'
    BY <1>29 DEF IdleRelease, CatalogType, NoCatalog
  <2>3. QueueType'
    BY <1>1, <1>29 DEF IdleRelease
  <2>4. PassType'
    BY <2>1, <1>0, <1>29 DEF IdleRelease, PassType
  <2>5. LifeType'
    <3>1. sqlite' \in BOOLEAN /\ fsm' \in States /\ opened' \in {"none", "ok", "failed"}
      BY <1>0, <1>29 DEF IdleRelease, LifeType, States
    <3>2. gen' \in Nat
      BY <1>0, <1>29 DEF IdleRelease, LifeType
    <3>. QED BY <2>2, <3>1, <3>2 DEF LifeType
  <2>. QED BY <2>3, <2>4, <2>5
<1>30. CASE UNCHANGED vars
  BY <1>1, <1>2, <1>3, <1>30 DEF vars, taskVars
<1>. QED BY <1>6, <1>7, <1>8, <1>9, <1>10, <1>11, <1>12, <1>13, <1>14, <1>15, <1>16, <1>17, <1>18,
            <1>19, <1>21, <1>22, <1>23, <1>24, <1>25, <1>26, <1>27, <1>28, <1>29, <1>30 DEF Next

\* gen only grows, and a task that begins takes the number of the moment.
LEMMA GensStep ==
    ASSUME TypeOK, GensPast, [Next]_vars
    PROVE  GensPast'
<1>. USE DEF GensPast, runtimeVars
<1>0. QueueType /\ LifeType /\ PassType
  BY TypeParts
<1>1. ASSUME UNCHANGED <<gen, work, sync>>
      PROVE  GensPast'
  BY <1>1
<1>2. ASSUME UNCHANGED <<gen, sync>>, work'.gen \in {0, work.gen, gen}
      PROVE  GensPast'
  BY <1>0, <1>2 DEF LifeType
<1>3. ASSUME UNCHANGED <<gen, work>>, sync'.gen <= gen \/ sync' = sync
      PROVE  GensPast'
  BY <1>3
<1>4. ASSUME NEW list \in SUBSET Files, SyncCall(list), UNCHANGED <<gen, work>>
      PROVE  GensPast'
  BY <1>3, <1>4, SyncCalled
<1>5. CASE OpenEnds \/ Report \/ \E f \in Files : Edit(f) \/ Enqueue(f)
  BY <1>1, <1>5 DEF OpenEnds, Report, OpenStarts, Edit, Enqueue
<1>6. ASSUME NEW f \in Files, SyncFile(f)
      PROVE  GensPast'
  BY <1>0, <1>6 DEF SyncFile, PassType, SyncStates
<1>7. CASE Skipped \/ DropIndex \/ EndIndex \/ Delete
  BY <1>2, <1>7 DEF Skipped, DropIndex, EndIndex, Delete, Dequeue
<1>8. CASE WaitForSync \/ BeginIndex
  BY <1>0, <1>2, <1>8 DEF WaitForSync, BeginIndex, QueueType, WorkStates
<1>9. CASE SyncEnds \/ PollEnds
  <2>1. work'.gen = work.gen
    BY <1>0, <1>9, Woken DEF SyncEnds, PollEnds
  <2>. QED BY <2>1, <1>0, <1>9 DEF SyncEnds, PollEnds, NoSync, LifeType
<1>10. CASE Cancel \/ RebuildStart
  BY <1>0, <1>10 DEF Cancel, RebuildStart, PassType, SyncStates
<1>11. Present \in SUBSET Files /\ rebuild.list \in SUBSET Files
  BY <1>0 DEF Present, PassType, RebuildStates
<1>12. CASE EnsureStart
  <2>1. CASE UNCHANGED <<gen, sync>>
    BY <2>1, <1>1, <1>12 DEF EnsureStart
  <2>2. CASE SyncCall(Present) /\ UNCHANGED gen
    BY <2>2, <1>4, <1>11, <1>12 DEF EnsureStart
  <2>. QED BY <2>1, <2>2, <1>12 DEF EnsureStart, OpenStarts
<1>13. CASE EnsureSync \/ RebuildSync
  <2>1. UNCHANGED <<gen, work>>
    BY <1>13 DEF EnsureSync, RebuildSync
  <2>2. UNCHANGED sync \/ SyncCall(Present) \/ SyncCall(rebuild.list)
    BY <1>13 DEF EnsureSync, RebuildSync
  <2>. QED BY <2>1, <2>2, <1>1, <1>4, <1>11
<1>14. CASE RebuildClear \/ RebuildFails \/ IdleStart
  BY <1>1, <1>14 DEF RebuildClear, RebuildFails, IdleStart
<1>15. CASE IdleDiff
  <2>1. UNCHANGED <<gen, work>> /\ (UNCHANGED sync \/ \E list \in SUBSET Files : SyncCall(list))
    <3>. DEFINE dirty == {f \in idle.found : disk[f].there /\ idle.stored[f] # disk[f].mtime}
    <3>1. dirty \in SUBSET Files
      BY <1>0 DEF PassType, IdleStates
    <3>2. UNCHANGED <<gen, work>> /\ (UNCHANGED sync \/ SyncCall(dirty))
      BY <1>15 DEF IdleDiff
    <3>. QED BY <3>1, <3>2
  <2>. QED BY <2>1, <1>1, <1>4
<1>16. CASE IdleRelease
  BY <1>0, <1>16 DEF IdleRelease, LifeType, QueueType, WorkStates, PassType, SyncStates
<1>17. CASE UNCHANGED vars
  BY <1>1, <1>17 DEF vars, taskVars
<1>. QED BY <1>5, <1>6, <1>7, <1>8, <1>9, <1>10, <1>12, <1>13, <1>14, <1>15, <1>16, <1>17 DEF Next

\* The head stays where it is while somebody works on it.
LEMMA HeadStep ==
    ASSUME TypeOK, AtHead, [Next]_vars
    PROVE  AtHead'
<1>. USE DEF AtHead
<1>0. QueueType /\ PassType /\ LifeType
  BY TypeParts
<1>1. ASSUME UNCHANGED <<queue, broken>>, work'.pc = "none" <=> work.pc = "none"
      PROVE  AtHead'
  BY <1>1
<1>2. ASSUME work'.pc = "none"
      PROVE  AtHead'
  BY <1>2
<1>3. CASE OpenEnds \/ Report \/ Cancel \/ \E f \in Files : Edit(f) \/ SyncFile(f)
  BY <1>1, <1>3 DEF OpenEnds, Report, Cancel, Edit, SyncFile
<1>4. ASSUME NEW f \in Files, Enqueue(f)
      PROVE  AtHead'
  <2>. DEFINE change == [kind |-> IF disk[f].there THEN "index" ELSE "delete", file |-> f]
  <2>1. change \in Changes
    BY DEF Changes
  <2>2. queue' = Append(queue, change) /\ UNCHANGED <<broken, work>>
    BY <1>4 DEF Enqueue
  <2>3. queue # <<>> => queue' # <<>> /\ Head(queue') = Head(queue)
    <3>. HIDE DEF change
    <3>. QED BY <2>1, <2>2, <1>0 DEF QueueType
  <2>. QED BY <2>2, <2>3
<1>5. CASE Skipped \/ DropIndex \/ EndIndex \/ Delete
  BY <1>2, <1>5 DEF Skipped, DropIndex, EndIndex, Delete, Dequeue
<1>6. CASE WaitForSync \/ BeginIndex
  BY <1>6 DEF WaitForSync, BeginIndex, Turn
<1>7. CASE SyncEnds \/ PollEnds
  BY <1>0, <1>1, <1>7, Woken DEF SyncEnds, PollEnds
<1>8. CASE EnsureStart \/ EnsureSync \/ IdleStart \/ IdleDiff \/ IdleRelease
  BY <1>1, <1>8 DEF EnsureStart, EnsureSync, IdleStart, IdleDiff, IdleRelease
<1>9. CASE RebuildStart \/ RebuildClear \/ RebuildFails \/ RebuildSync
  BY <1>1, <1>9 DEF RebuildStart, RebuildClear, RebuildFails, RebuildSync
<1>10. CASE UNCHANGED vars
  BY <1>1, <1>10 DEF vars, taskVars
<1>. QED BY <1>3, <1>4, <1>5, <1>6, <1>7, <1>8, <1>9, <1>10 DEF Next

\* When nobody can go on, nobody opens the index, clears it or works in the queue.
LEMMA NothingRuns ==
    ASSUME AtHead, ~ Runnable
    PROVE  /\ opened = "none" /\ ensure # "opened"
           /\ rebuild.pc \notin {"woken", "cleared"} /\ work.pc \notin {"woken", "syncing"}
BY DEF AtHead, Runnable

\* A call of syncWorkspace, by a task that may make one: the lifecycle is given
\* away at most once.
LEMMA LifeOfCall ==
    ASSUME TypeOK, GensPast, LifeInv, NEW list \in SUBSET Files, SyncCall(list),
           UNCHANGED <<gen, work, opened>>,
           WorkLive => fsm # "error", ensure' # "opened",
           rebuild'.pc \notin {"woken", "cleared"}
    PROVE  LifeInv'
<1>. USE DEF LifeInv, RebuildAlone, Owned, OpeningShown, LeftBehind, CatalogOfPass,
             PassLive, WorkLive, Live, InFlight
<1>0. LifeType
  BY TypeParts
<1>1. CASE SyncJoins
  BY <1>1 DEF SyncJoins
<1>2. CASE SyncPolls
  BY <1>2 DEF SyncPolls
<1>3. CASE SyncFails
  BY <1>3 DEF SyncFails
<1>4. CASE SyncStarts
  BY <1>4 DEF SyncStarts
<1>. QED BY <1>1, <1>2, <1>3, <1>4, SyncCalled

\* A step of a task keeps the lifecycle, the passes and the queue in agreement.
LEMMA LifeStep ==
    ASSUME TypeOK, DiskBodies, GensPast, AtHead, LifeInv, [Next]_vars
    PROVE  LifeInv'
<1>. USE DEF runtimeVars
<1>0. QueueType /\ LifeType /\ PassType /\ RowsTyped
  BY TypeParts, TypedRows
<1>1. ASSUME UNCHANGED <<fsm, gen, catalog, opened>>, sync'.pc = sync.pc, sync'.gen = sync.gen,
             work'.pc = "syncing" <=> work.pc = "syncing",
             work.pc = "syncing" => work'.gen = work.gen,
             ensure' = "opened" => ensure = "opened",
             rebuild'.pc \in {"woken", "cleared"} => rebuild.pc \in {"woken", "cleared"}
      PROVE  LifeInv'
  BY <1>1 DEF LifeInv, RebuildAlone, Owned, OpeningShown, LeftBehind, CatalogOfPass,
              PassLive, WorkLive, Live, InFlight
<1>2. ASSUME OpenStarts, ~ Runnable, UNCHANGED <<sync, work, rebuild>>, ensure' # "opened"
      PROVE  LifeInv'
  <2>1. fsm \in {"uninitialized", "error"} /\ fsm' = "opening" /\ UNCHANGED <<gen, catalog>>
    BY <1>0, <1>2, OpenCalled
  <2>. QED BY <2>1, <1>2, NothingRuns
           DEF LifeInv, RebuildAlone, Owned, OpeningShown, LeftBehind, CatalogOfPass,
               PassLive, WorkLive, Live, InFlight
<1>3. CASE OpenEnds
  <2>1. fsm \in {"opening", "uninitialized"} /\ opened # "none"
    BY <1>3 DEF OpenEnds, LifeInv, OpeningShown
  <2>2. /\ fsm = "uninitialized" => fsm' = "uninitialized"
        /\ fsm = "opening" => fsm' \in {"idle", "error"}
    BY <2>1, <1>0, <1>3, OpenedEvent, FailEvent DEF OpenEnds, LifeType
  <2>3. /\ opened' = "none"
        /\ UNCHANGED <<gen, catalog, sync, work, rebuild>>
    BY <1>3 DEF OpenEnds
  <2>. QED BY <2>1, <2>2, <2>3
           DEF LifeInv, RebuildAlone, Owned, OpeningShown, LeftBehind, CatalogOfPass,
               PassLive, WorkLive, Live, InFlight
<1>4. ASSUME NEW f \in Files, Edit(f) \/ Enqueue(f)
      PROVE  LifeInv'
  BY <1>1, <1>4 DEF Edit, Enqueue
<1>5. ASSUME NEW f \in Files, SyncFile(f)
      PROVE  LifeInv'
  <2>1. catalog'.on = catalog.on
    <3>1. UNCHANGED catalog \/ IndexFile(f)
      BY <1>5 DEF SyncFile
    <3>. QED BY <3>1, <1>0, FileRows
  <2>2. /\ UNCHANGED <<fsm, gen, opened, work, ensure, rebuild>>
        /\ sync'.pc = sync.pc /\ sync'.gen = sync.gen
    BY <1>0, <1>5 DEF SyncFile, PassType, SyncStates
  <2>. QED BY <2>1, <2>2 DEF LifeInv, RebuildAlone, Owned, OpeningShown, LeftBehind,
                             CatalogOfPass, PassLive, WorkLive, Live, InFlight
<1>6. CASE Report
  <2>1. CASE UNCHANGED <<fsm, gen, catalog, opened>>
    BY <2>1, <1>1, <1>6 DEF Report
  <2>2. CASE OpenStarts
    BY <2>2, <1>2, <1>6, NothingRuns DEF Report
  <2>. QED BY <2>1, <2>2, <1>6 DEF Report
<1>7. CASE Skipped \/ DropIndex \/ Delete
  <2>1. work.pc # "syncing"
    BY <1>7 DEF Skipped, DropIndex, Delete, Turn, MayGoOn, AtHead
  <2>. QED BY <2>1, <1>1, <1>7 DEF Skipped, DropIndex, Delete, Dequeue
<1>8. CASE WaitForSync
  <2>1. work.pc = "none" /\ work'.pc = "waiting"
    BY <1>0, <1>8 DEF WaitForSync, QueueType, WorkStates
  <2>. QED BY <2>1, <1>1, <1>8 DEF WaitForSync
<1>9. CASE BeginIndex
  <2>1. fsm \in {"idle", "ready", "error"} /\ fsm' = "syncing"
    BY <1>0, <1>9, SyncEvent DEF BeginIndex, LifeType
  <2>2. UNCHANGED <<gen, catalog, opened, sync, ensure, rebuild>>
    BY <1>9 DEF BeginIndex
  <2>3. work'.pc = "syncing" /\ work'.gen = gen
    BY <1>9 DEF BeginIndex
  <2>. QED BY <2>1, <2>2, <2>3
           DEF LifeInv, RebuildAlone, Owned, OpeningShown, LeftBehind, CatalogOfPass,
               PassLive, WorkLive, Live, InFlight
<1>10. CASE EndIndex
  <2>1. queue # <<>> /\ Head(queue).file \in Files
    BY <1>0, <1>10, HeadIsChange DEF EndIndex, AtHead, QueueType
  <2>2. catalog'.on = catalog.on
    <3>1. UNCHANGED catalog \/ IndexFile(Head(queue).file)
      BY <1>10 DEF EndIndex
    <3>. QED BY <3>1, <2>1, <1>0, FileRows
  <2>3. /\ WorkLive => fsm' = IF fsm = "syncing" THEN "ready" ELSE fsm
        /\ ~ WorkLive => fsm' = fsm
    BY <1>0, <1>10, SyncedEvent DEF EndIndex, WorkLive, LifeType
  <2>4. work'.pc = "none" /\ UNCHANGED <<gen, opened, sync, ensure, rebuild>>
    BY <1>10 DEF EndIndex, Dequeue
  <2>. QED BY <2>2, <2>3, <2>4
           DEF LifeInv, RebuildAlone, Owned, OpeningShown, LeftBehind, CatalogOfPass,
               PassLive, WorkLive, Live, InFlight
<1>11. CASE SyncEnds
  <2>1. /\ PassLive => fsm' = (IF fsm = "syncing" THEN "ready" ELSE fsm) /\ ~ catalog'.on
        /\ ~ PassLive => UNCHANGED <<fsm, catalog>>
    BY <1>0, <1>11, SyncedEvent DEF SyncEnds, PassLive, LifeType, NoCatalog
  <2>2. sync'.pc = "none" /\ UNCHANGED <<gen, opened>>
    BY <1>11 DEF SyncEnds, NoSync
  <2>3. work'.pc # "syncing" /\ ensure' # "opened" /\ opened = "none" /\ work.pc # "syncing"
    BY <1>0, <1>11, Woken, NothingRuns DEF SyncEnds
  <2>. QED BY <2>1, <2>2, <2>3
           DEF LifeInv, RebuildAlone, Owned, OpeningShown, LeftBehind, CatalogOfPass,
               PassLive, WorkLive, Live, InFlight
<1>12. CASE PollEnds
  <2>1. sync.pc = "poll" /\ sync'.pc = "none" /\ UNCHANGED <<fsm, gen, catalog, opened>>
    BY <1>12 DEF PollEnds, NoSync
  <2>2. work'.pc # "syncing" /\ ensure' # "opened" /\ opened = "none" /\ work.pc # "syncing"
    BY <1>0, <1>12, Woken, NothingRuns DEF PollEnds
  <2>. QED BY <2>1, <2>2
           DEF LifeInv, RebuildAlone, Owned, OpeningShown, LeftBehind, CatalogOfPass,
               PassLive, WorkLive, Live, InFlight
<1>13. CASE Cancel
  BY <1>0, <1>1, <1>13 DEF Cancel, PassType, SyncStates
<1>14. Present \in SUBSET Files /\ rebuild.list \in SUBSET Files
  BY <1>0 DEF Present, PassType, RebuildStates
<1>15. CASE EnsureStart
  <2>1. CASE UNCHANGED <<sync, fsm, gen, catalog, opened>> /\ ensure' # "opened"
    BY <2>1, <1>1, <1>15 DEF EnsureStart
  <2>2. CASE SyncCall(Present) /\ ensure' # "opened" /\ UNCHANGED <<gen, opened>>
    BY <2>2, <1>14, <1>15, NothingRuns, LifeOfCall DEF EnsureStart, WorkLive
  <2>3. CASE OpenStarts /\ ensure' # "opened" /\ UNCHANGED sync
    BY <2>3, <1>2, <1>15 DEF EnsureStart
  <2>. QED BY <2>1, <2>2, <2>3, <1>15 DEF EnsureStart, Awaiting
<1>16. CASE EnsureSync
  <2>1. ensure' # "opened" /\ UNCHANGED <<gen, opened, work, rebuild>>
    BY <1>16 DEF EnsureSync, Awaiting
  <2>2. CASE UNCHANGED <<sync, fsm, catalog>>
    BY <2>1, <2>2, <1>1
  <2>3. CASE SyncCall(Present)
    <3>1. (WorkLive => fsm # "error") /\ rebuild.pc \notin {"woken", "cleared"}
      BY <1>16 DEF EnsureSync, LifeInv, Owned, RebuildAlone
    <3>. QED BY <2>1, <2>3, <3>1, <1>14, LifeOfCall
  <2>. QED BY <2>2, <2>3, <1>16 DEF EnsureSync
<1>17. CASE RebuildStart
  <2>1. /\ UNCHANGED <<fsm, gen, catalog, opened, work, ensure>>
        /\ sync'.pc = sync.pc /\ sync'.gen = sync.gen
        /\ rebuild'.pc = IF InFlight THEN "waiting" ELSE "woken"
    BY <1>0, <1>17 DEF RebuildStart, PassType, SyncStates
  <2>2. opened = "none" /\ ensure # "opened" /\ work.pc # "syncing"
    BY <1>17, NothingRuns DEF RebuildStart
  <2>. QED BY <2>1, <2>2
           DEF LifeInv, RebuildAlone, Owned, OpeningShown, LeftBehind, CatalogOfPass,
               PassLive, WorkLive, Live, InFlight
<1>18. CASE RebuildClear
  BY <1>1, <1>18 DEF RebuildClear
<1>19. CASE RebuildFails
  <2>1. fsm' = IF fsm \in {"opening", "syncing"} THEN "error" ELSE fsm
    BY <1>0, <1>19, FailEvent DEF RebuildFails, LifeType
  <2>2. /\ UNCHANGED <<gen, catalog, opened, sync, work, ensure>>
        /\ fsm # "uninitialized" /\ rebuild.pc = "woken" /\ rebuild'.pc = "failed"
    BY <1>0, <1>19 DEF RebuildFails, PassType, RebuildStates
  <2>. QED BY <2>1, <2>2
           DEF LifeInv, RebuildAlone, Owned, OpeningShown, LeftBehind, CatalogOfPass,
               PassLive, WorkLive, Live, InFlight
<1>20. CASE RebuildSync
  <2>1. /\ UNCHANGED <<gen, opened, work, ensure>> /\ SyncCall(rebuild.list)
        /\ rebuild.pc = "cleared"
    BY <1>20 DEF RebuildSync
  <2>2. rebuild'.pc \in {"failed", "syncing"}
    BY <1>0, <1>20 DEF RebuildSync, Awaiting, PassType, RebuildStates
  <2>3. opened = "none" /\ ensure # "opened" /\ (WorkLive => fsm # "error")
    BY <2>1 DEF LifeInv, Owned, RebuildAlone
  <2>. QED BY <2>1, <2>2, <2>3, <1>14, LifeOfCall
<1>21. CASE IdleStart
  BY <1>1, <1>21 DEF IdleStart
<1>22. CASE IdleDiff
  <2>. DEFINE dirty == {f \in idle.found : disk[f].there /\ idle.stored[f] # disk[f].mtime}
  <2>1. dirty \in SUBSET Files
    BY <1>0 DEF PassType, IdleStates
  <2>2. UNCHANGED <<gen, opened, work, ensure, rebuild>> /\ ~ Runnable
    BY <1>22 DEF IdleDiff
  <2>3. SyncCall(dirty) \/ UNCHANGED <<sync, fsm, catalog>>
    BY <1>22 DEF IdleDiff
  <2>. HIDE DEF dirty
  <2>. QED BY <2>1, <2>2, <2>3, <1>1, NothingRuns, LifeOfCall DEF WorkLive
<1>23. CASE IdleRelease
  <2>1. /\ fsm' = "uninitialized" /\ gen' = gen + 1 /\ ~ catalog'.on
        /\ UNCHANGED <<opened, work, sync, ensure, rebuild>>
    BY <1>23 DEF IdleRelease, NoCatalog
  <2>2. sync.gen # gen + 1 /\ work.gen # gen + 1
    BY <1>0 DEF GensPast, LifeType, QueueType, WorkStates, PassType, SyncStates
  <2>. QED BY <2>1, <2>2
           DEF LifeInv, RebuildAlone, Owned, OpeningShown, LeftBehind, CatalogOfPass,
               PassLive, WorkLive, Live, InFlight
<1>24. CASE UNCHANGED vars
  BY <1>1, <1>24 DEF vars, taskVars
<1>. QED BY <1>3, <1>4, <1>5, <1>6, <1>7, <1>8, <1>9, <1>10, <1>11, <1>12, <1>13, <1>15, <1>16,
            <1>17, <1>18, <1>19, <1>20, <1>21, <1>22, <1>23, <1>24 DEF Next

(***************************************************************************)
(* The theorems                                                            *)
(***************************************************************************)
\* The host starts with nothing under way.
LEMMA TaskInit == Init => TaskInv
<1>. SUFFICES ASSUME Init
              PROVE  TaskInv
  OBVIOUS
<1>1. StoreType /\ DiskType /\ DiskBodies
  <2>1. StoreType
    BY DEF Init, StoreInit, StoreType, NoRow
  <2>2. DiskBodies
    BY DEF Init, DiskBodies
  <2>3. DiskType
    <3>1. ASSUME NEW f \in Files
          PROVE  disk[f] \in FileStates
      <4>1. PICK g \in Files : disk[f] \in [there : BOOLEAN, mtime : {1}, body : Bodies(g)]
        BY <3>1 DEF Init
      <4>2. Bodies(g) \subseteq SUBSET (Names \cup Refs)
        BY RuntimeAssumption DEF Bodies
      <4>. QED BY <4>1, <4>2 DEF FileStates
    <3>. QED BY <3>1 DEF Init, DiskType
  <2>. QED BY <2>1, <2>2, <2>3
<1>2. QueueType
  <2>1. queue \in Seq(Changes)
    BY DEF Init
  <2>2. work \in WorkStates
    BY DEF Init, WorkStates
  <2>. QED BY <2>1, <2>2 DEF Init, QueueType
<1>3. LifeType
  BY DEF Init, LifeType, States, CatalogType, NoCatalog
<1>4. PassType
  BY DEF Init, PassType, NoSync, NoRebuild, NoIdle, SyncStates, EnsureStates, RebuildStates,
         IdleStates, NoRow
<1>5. GensPast /\ AtHead
  BY DEF Init, GensPast, AtHead, NoSync
<1>6. LifeInv
  BY DEF Init, LifeInv, RebuildAlone, Owned, OpeningShown, LeftBehind, CatalogOfPass,
         PassLive, WorkLive, NoSync, NoRebuild, NoCatalog
<1>. QED BY <1>1, <1>2, <1>3, <1>4, <1>5, <1>6, TypeParts DEF TaskInv

\* Every step keeps what the tasks agree on.
LEMMA TaskStep == TaskInv /\ [Next]_vars => TaskInv'
<1>. SUFFICES ASSUME TaskInv, [Next]_vars
              PROVE  TaskInv'
  OBVIOUS
<1>1. TypeOK /\ DiskBodies /\ GensPast /\ AtHead /\ LifeInv
  BY DEF TaskInv
<1>2. StoreType' /\ DiskType' /\ DiskBodies'
  BY <1>1, RowsStep
<1>3. QueueType' /\ LifeType' /\ PassType'
  BY <1>1, TasksStep
<1>4. TypeOK'
  BY <1>2, <1>3 DEF TypeOK, RuntimeType, DiskType, QueueType, LifeType, PassType, CatalogType,
       WorkStates, SyncStates, EnsureStates, RebuildStates, IdleStates
<1>5. GensPast' /\ AtHead' /\ LifeInv'
  BY <1>1, GensStep, HeadStep, LifeStep
<1>. QED BY <1>2, <1>4, <1>5 DEF TaskInv

\* What the tasks agree on holds for ever.
LEMMA TaskInvariant == Spec => []TaskInv
BY TaskInit, TaskStep, PTL DEF Spec

\* Type correctness of the index of one base, whatever tasks run beside each
\* other and however often the database refuses.
THEOREM TypeCorrect == Spec => []TypeOK
<1>1. TaskInv => TypeOK
  BY DEF TaskInv
<1>. QED BY <1>1, TaskInvariant, PTL

\* One task at a time owns the lifecycle: while it says "syncing" a pass or the
\* head of the queue works on this very runtime, and never both.
THEOREM LifecycleOwned == Spec => []OneOwner
<1>1. TaskInv => OneOwner
  BY DEF TaskInv, LifeInv, Owned, OneOwner
<1>. QED BY <1>1, TaskInvariant, PTL

\* The catalog of a pass is on exactly while the pass is live: also when it is
\* cancelled, and when the index is released under it.
THEOREM CatalogLivesWithPass == Spec => []CatalogOfPass
<1>1. TaskInv => CatalogOfPass
  BY DEF TaskInv, LifeInv
<1>. QED BY <1>1, TaskInvariant, PTL

\* No idea and no link outlives the documents row it came with.
THEOREM RowsRooted == Spec => []Rooted
<1>1. Init => Rooted
  BY DEF Init, StoreInit, Rooted
<1>2. TaskInv /\ Rooted /\ [Next]_vars => Rooted'
  BY RowsStep DEF TaskInv
<1>. QED BY <1>1, <1>2, TaskInvariant, PTL DEF Spec

(***************************************************************************)
(* No change is forgotten                                                  *)
(***************************************************************************)
\* The index is opened once, and works.
Steady == /\ gen = 0 /\ idle.pc = "none" /\ ~ broken /\ opened # "failed"
          /\ fsm \notin {"error", "closing"}
          /\ fsm # "uninitialized" => sqlite

\* When the head of the queue is woken, nobody is about to take its turn.
HandedOn == work.pc = "woken" => ~ InFlight /\ opened = "none" /\ ensure # "opened"

\* No row is written before the index is open.
NoneBefore == fsm \in {"uninitialized", "opening"} => \A f \in Files : docs[f] = NoRow

\* A row that is out of date, or whose ideas are, has a change on its way to it.
StaleIsPending ==
    \A f \in Files : docs[f] # NoRow => (IsCurrent(f) /\ IdeasTrue(f)) \/ Pending(f)

ChangeInv == Steady /\ HandedOn /\ NoneBefore /\ StaleIsPending

\* What the code has to be spared: a database that refuses, and the release of an idle
\* index.
Undisturbed == ~ MayFail /\ Commands \cap {"idle", "late"} = {}

\* The row of file g as a native call found it.
SameRow(g) == docs'[g] = docs[g] /\ NamesIn(g, ideas') = NamesIn(g, ideas)

\* What a native call on a file does to each row: it is left alone or removed, or it is
\* true, unless its file was edited meanwhile.  While no pass runs, the row of the file
\* itself is not left alone.
LEMMA FileSeen ==
    ASSUME RowsTyped, NEW f \in Files, IndexFile(f)
    PROVE  /\ \A g \in Files : \/ disk'[g] # disk[g]
                               \/ docs'[g] = NoRow
                               \/ IsCurrent(g)' /\ IdeasTrue(g)'
                               \/ SameRow(g) /\ (catalog.on \/ g # f)
           /\ \A g \in Files : disk'[g] = disk[g] \/ disk'[g] \in Edits(g)
<1>0. \A refs : Resolve(refs, ideas) \subseteq ideas
  BY DEF Resolve
<1>1. ASSUME ReadThenEdited({f})
      PROVE  \A g \in Files : disk'[g] = disk[g] \/ (g = f /\ disk'[g] \in Edits(g))
  <2>1. {f} \in SUBSET Files
    OBVIOUS
  <2>. QED BY <2>1, <1>1, EditedDisk DEF RowsTyped
<1>2. CASE IndexMissing(f)
  <2>1. UNCHANGED disk /\ docs' = [docs EXCEPT ![f] = NoRow] /\ ideas' = {i \in ideas : i[1] # f}
    BY <1>2 DEF IndexMissing, RemoveDocument
  <2>2. \A g \in Files : g # f => docs'[g] = docs[g] /\ NamesIn(g, ideas') = NamesIn(g, ideas)
    BY <2>1 DEF RowsTyped, StoreType, NamesIn
  <2>. QED BY <2>1, <2>2 DEF RowsTyped, StoreType, SameRow
<1>3. CASE IndexVanishing(f)
  <2>1. /\ disk[f].there /\ ~ disk'[f].there /\ UNCHANGED <<docs, ideas>>
        /\ \A g \in Files : disk'[g] = disk[g] \/ (g = f /\ disk'[g] \in Edits(g))
    BY <1>1, <1>3 DEF IndexVanishing, storeVars
  <2>. QED BY <2>1 DEF SameRow
<1>4. CASE IndexCode(f)
  <2>. DEFINE targets == Resolve(disk[f].body, Known)
  <2>1. /\ f \in CodeFiles /\ f \notin RqFiles /\ disk[f].there
        /\ \A g \in Files : disk'[g] = disk[g] \/ (g = f /\ disk'[g] \in Edits(g))
    BY <1>1, <1>4, FilesAssumption DEF IndexCode
  <2>2. CASE ForeignKeysHold(targets)
    <3>1. PersistLinks(f, targets, MtimeTaken(f))
      BY <1>4, <2>2 DEF IndexCode
    <3>. HIDE DEF targets
    <3>2. docs' = [docs EXCEPT ![f] = MtimeTaken(f)] /\ ideas' = ideas
      BY <3>1 DEF PersistLinks
    <3>3. disk'[f] = disk[f] => IsCurrent(f)' /\ IdeasTrue(f)'
      BY <2>1, <3>2 DEF IsCurrent, IdeasTrue, MtimeTaken, RowsTyped, StoreType
    <3>. QED BY <2>1, <3>2, <3>3 DEF SameRow, RowsTyped, StoreType
  <2>3. CASE ~ ForeignKeysHold(targets)
    <3>1. UNCHANGED <<docs, ideas>>
      BY <1>4, <2>3 DEF IndexCode, storeVars
    <3>2. catalog.on
      BY <1>0, <2>3 DEF ForeignKeysHold, Known
    <3>. QED BY <2>1, <3>1, <3>2 DEF SameRow
  <2>. QED BY <2>2, <2>3
<1>5. CASE IndexRq(f)
  <2>. DEFINE names == disk[f].body
              known == {i \in Known : i[1] # f} \cup ({f} \X names)
              now   == {i \in ideas : i[1] # f} \cup ({f} \X names)
  <2>1. PICK read \in (IF NamesIn(f, ideas) # names THEN Refreshed(known, now) ELSE {{}}) :
            /\ ReadThenEdited({f} \cup {c \in read : disk[c].there})
            /\ docs' = [g \in Files |->
                          CASE g = f       -> MtimeTaken(f)
                            [] g \in read  -> IF disk[g].there THEN MtimeTaken(g) ELSE NoRow
                            [] OTHER       -> docs[g]]
    BY <1>5 DEF IndexRq
  <2>2. f \in RqFiles /\ disk[f].there /\ ideas' = now
    BY <1>5 DEF IndexRq
  <2>3. f \notin read /\ read \subseteq CodeFiles
    BY <2>1, <2>2, RqReads, FilesAssumption DEF RowsTyped
  <2>4. \A g \in Files : docs'[g] = IF g = f THEN MtimeTaken(f)
                                    ELSE IF g \in read
                                         THEN IF disk[g].there THEN MtimeTaken(g) ELSE NoRow
                                         ELSE docs[g]
    BY <2>1, <2>3
  <2>5. \A g \in Files : disk'[g] = disk[g] \/ disk'[g] \in Edits(g)
    <3>1. {f} \cup {c \in read : disk[c].there} \in SUBSET Files
      BY <2>3 DEF Files
    <3>. QED BY <3>1, <2>1, EditedDisk DEF RowsTyped
  <2>6. NamesIn(f, ideas') = names /\ \A g \in Files : g # f => NamesIn(g, ideas') = NamesIn(g, ideas)
    <3>1. names \subseteq Names
      BY <2>2, BodiesHold DEF RowsTyped
    <3>. QED BY <3>1, <2>2 DEF NamesIn
  <2>7. ASSUME NEW g \in Files, disk'[g] = disk[g], disk[g].there, g = f \/ g \in read
        PROVE  IsCurrent(g)' /\ IdeasTrue(g)'
    <3>1. docs'[g] = disk'[g].mtime
      BY <2>3, <2>4, <2>7 DEF MtimeTaken
    <3>2. g \in RqFiles => g = f
      BY <2>3, <2>7, FilesAssumption
    <3>. QED BY <3>1, <3>2, <2>6, <2>7 DEF IsCurrent, IdeasTrue
  <2>. HIDE DEF names, known, now
  <2>. QED BY <2>2, <2>4, <2>5, <2>6, <2>7 DEF SameRow
<1>. QED BY <1>2, <1>3, <1>4, <1>5 DEF IndexFile

\* Who drops the head of the queue although the index is there must have found the
\* lifecycle taken, and it is not.
LEMMA DroppedEarly ==
    ASSUME TaskInv, Steady, HandedOn, DropIndex
    PROVE  fsm \in {"uninitialized", "opening"}
<1>0. fsm \in States /\ work.pc # "syncing"
  BY DEF TaskInv, TypeOK, RuntimeType, DropIndex, MayGoOn
<1>1. fsm \notin {"idle", "ready", "error"}
  BY <1>0, SyncEvent DEF DropIndex
<1>2. fsm # "syncing"
  BY <1>0 DEF DropIndex, MayGoOn, HandedOn, TaskInv, LifeInv, Owned, PassLive, WorkLive, InFlight
<1>. QED BY <1>0, <1>1, <1>2 DEF Steady, States

\* Steadiness, step by step.
LEMMA SteadyStep ==
    ASSUME TaskInv, Steady, Undisturbed, [Next]_vars
    PROVE  Steady'
<1>. USE DEF runtimeVars, Steady, Undisturbed
<1>0. TypeOK /\ QueueType /\ LifeType /\ PassType /\ AtHead
  BY TypeParts DEF TaskInv
<1>1. ASSUME UNCHANGED <<gen, broken, opened, sqlite>>, idle'.pc = "none",
             fsm' \in {fsm, "idle", "ready", "syncing"}, fsm' # "uninitialized" => fsm # "uninitialized"
      PROVE  Steady'
  BY <1>1
<1>2. ASSUME OpenStarts, UNCHANGED <<idle, broken>>
      PROVE  Steady'
  <2>1. fsm' = "opening" /\ UNCHANGED gen
    BY <1>0, <1>2, OpenCalled
  <2>. QED BY <2>1, <1>2 DEF OpenStarts
<1>3. CASE OpenEnds
  <2>1. opened = "ok" /\ fsm \in {"opening", "uninitialized"}
    BY <1>0, <1>3 DEF OpenEnds, TaskInv, LifeInv, OpeningShown, LifeType
  <2>2. fsm' \in {fsm, "idle"} /\ (fsm = "uninitialized" => fsm' = fsm)
    BY <2>1, <1>0, <1>3, OpenedEvent DEF OpenEnds, LifeType
  <2>. QED BY <2>1, <2>2, <1>3 DEF OpenEnds
<1>4. ASSUME NEW f \in Files, Edit(f) \/ Enqueue(f) \/ SyncFile(f)
      PROVE  Steady'
  BY <1>4, <1>1 DEF Edit, Enqueue, SyncFile
<1>5. CASE Report
  BY <1>1, <1>2, <1>5 DEF Report
<1>6. CASE Skipped
  BY <1>6 DEF Skipped
<1>7. CASE WaitForSync \/ DropIndex \/ Delete
  BY <1>7, <1>1 DEF WaitForSync, DropIndex, Delete, Dequeue
<1>8. CASE BeginIndex
  <2>1. fsm' = "syncing" /\ fsm # "uninitialized"
    BY <1>0, <1>8, SyncEvent DEF BeginIndex, LifeType
  <2>. QED BY <2>1, <1>1, <1>8 DEF BeginIndex
<1>9. CASE EndIndex
  <2>1. fsm' \in {fsm, "ready"} /\ (fsm' = fsm \/ fsm = "syncing")
    BY <1>0, <1>9, SyncedEvent DEF EndIndex, LifeType
  <2>. QED BY <2>1, <1>1, <1>9 DEF EndIndex, Dequeue, AtHead
<1>10. CASE SyncEnds
  <2>1. fsm' \in {fsm, "ready"} /\ (fsm' = fsm \/ fsm = "syncing")
    BY <1>0, <1>10, SyncedEvent DEF SyncEnds, LifeType
  <2>. QED BY <2>1, <1>1, <1>10 DEF SyncEnds, Wake
<1>11. CASE PollEnds \/ Cancel
  BY <1>11, <1>1 DEF PollEnds, Cancel, Wake
<1>12. ASSUME NEW list, SyncCall(list)
       PROVE  fsm' \in {fsm, "syncing"} /\ (fsm' = fsm \/ fsm # "uninitialized")
  BY <1>0, <1>12, SyncEvent DEF SyncCall, LifeType
<1>13. CASE EnsureStart
  BY <1>1, <1>2, <1>12, <1>13 DEF EnsureStart
<1>14. CASE EnsureSync
  BY <1>1, <1>12, <1>14 DEF EnsureSync
<1>15. CASE RebuildStart \/ RebuildClear \/ RebuildSync
  BY <1>1, <1>12, <1>15 DEF RebuildStart, RebuildClear, RebuildSync
<1>16. CASE RebuildFails \/ IdleStart \/ IdleDiff \/ IdleRelease
  BY <1>16 DEF RebuildFails, IdleStart, IdleDiff, IdleRelease
<1>17. CASE UNCHANGED vars
  BY <1>1, <1>17 DEF vars, taskVars
<1>. QED BY <1>3, <1>4, <1>5, <1>6, <1>7, <1>8, <1>9, <1>10, <1>11, <1>13, <1>14, <1>15, <1>16,
            <1>17 DEF Next

\* The head of the queue that was woken goes on before anybody else takes the index.
LEMMA HandedOnStep ==
    ASSUME TaskInv, Steady, HandedOn, [Next]_vars
    PROVE  HandedOn'
<1>. USE DEF runtimeVars, HandedOn
<1>0. TypeOK /\ QueueType /\ LifeType /\ PassType /\ AtHead
  BY TypeParts DEF TaskInv
<1>1. ASSUME work'.pc # "woken"
      PROVE  HandedOn'
  BY <1>1
<1>2. ASSUME ~ Runnable, UNCHANGED work
      PROVE  HandedOn'
  BY <1>0, <1>2, NothingRuns
<1>3. ASSUME UNCHANGED work, sync'.pc = sync.pc, opened' = "none" \/ opened' = opened,
             ensure' # "opened" \/ ensure' = ensure
      PROVE  HandedOn'
  BY <1>3 DEF InFlight
<1>4. CASE OpenEnds
  BY <1>4 DEF OpenEnds
<1>5. ASSUME NEW f \in Files, Edit(f) \/ Enqueue(f) \/ SyncFile(f)
      PROVE  HandedOn'
  BY <1>2, <1>3, <1>5 DEF Edit, Enqueue, SyncFile
<1>6. CASE Report \/ EnsureStart \/ RebuildStart \/ IdleStart \/ IdleDiff \/ Cancel
  BY <1>2, <1>6 DEF Report, EnsureStart, RebuildStart, IdleStart, IdleDiff, Cancel
<1>7. CASE Skipped \/ DropIndex \/ EndIndex \/ Delete \/ BeginIndex
  BY <1>1, <1>7 DEF Skipped, DropIndex, EndIndex, Delete, BeginIndex, Dequeue
<1>8. CASE WaitForSync
  BY <1>0, <1>1, <1>8 DEF WaitForSync, QueueType, WorkStates
<1>9. CASE SyncEnds \/ PollEnds
  <2>1. opened' = "none" /\ ensure' # "opened"
    BY <1>0, <1>9, NothingRuns, Woken DEF SyncEnds, PollEnds
  <2>2. sync'.pc = "none"
    BY <1>9 DEF SyncEnds, PollEnds, NoSync
  <2>. QED BY <2>1, <2>2 DEF InFlight
<1>10. CASE EnsureSync
  BY <1>10 DEF EnsureSync
<1>11. CASE RebuildSync
  BY <1>1, <1>11 DEF RebuildSync
<1>12. CASE RebuildClear \/ RebuildFails \/ IdleRelease
  BY <1>3, <1>12 DEF RebuildClear, RebuildFails, IdleRelease
<1>13. CASE UNCHANGED vars
  BY <1>3, <1>13 DEF vars, taskVars
<1>. QED BY <1>4, <1>5, <1>6, <1>7, <1>8, <1>9, <1>10, <1>11, <1>12, <1>13 DEF Next

\* A change in the queue stays pending when another is dequeued.
LEMMA PendingBehind ==
    ASSUME queue \in Seq(Changes), queue # <<>>, queue' = Tail(queue),
           reports \subseteq reports', UNCHANGED handler, NEW f, Pending(f), f # Head(queue).file
    PROVE  Pending(f)'
<1>1. CASE f \in reports \/ handler[f] # "none"
  BY <1>1 DEF Pending
<1>2. CASE \E i \in DOMAIN queue : queue[i].file = f
  <2>1. PICK i \in DOMAIN queue : queue[i].file = f
    BY <1>2
  <2>2. i # 1 /\ i - 1 \in DOMAIN Tail(queue) /\ Tail(queue)[i - 1] = queue[i]
    BY <2>1
  <2>. QED BY <2>1, <2>2 DEF Pending
<1>. QED BY <1>1, <1>2 DEF Pending

\* The tasks at work have an open index, once nobody releases it.
LEMMA OpenAtWork ==
    ASSUME TaskInv, Steady
    PROVE  /\ sync.pc = "files" => fsm = "syncing"
           /\ work.pc = "syncing" => fsm = "syncing" /\ Live(work.gen) /\ ~ catalog.on
<1>1. sync.gen \in Nat /\ work.gen \in Nat /\ gen \in Nat
  BY DEF TaskInv, TypeOK, RuntimeType
<1>2. sync.gen = gen /\ work.gen = gen
  BY <1>1 DEF TaskInv, GensPast, Steady
<1>3. /\ sync.pc = "files" => PassLive
      /\ work.pc = "syncing" => WorkLive
  BY <1>2 DEF TaskInv, LifeInv, LeftBehind, PassLive, WorkLive, Live
<1>. QED BY <1>3 DEF TaskInv, LifeInv, Owned, CatalogOfPass, Steady, WorkLive

\* What the watcher, an open and a handler pass on stays on its way.
LEMMA HandedOver ==
    ASSUME QueueType, OpenEnds \/ Report \/ \E f \in Files : Enqueue(f)
    PROVE  \A f \in Files : Pending(f) => Pending(f)'
<1>1. CASE OpenEnds
  <2>1. /\ \A f \in Files : handler[f] # "none" => handler'[f] # "none"
        /\ UNCHANGED <<queue, reports>>
    BY <1>1 DEF OpenEnds
  <2>. QED BY <2>1 DEF Pending
<1>2. CASE Report
  <2>1. PICK batch \in SUBSET reports :
          /\ reports' = reports \ batch
          /\ \A f \in Files : handler'[f] # handler[f] => handler'[f] # "none"
          /\ \A f \in batch : handler'[f] # "none"
    BY <1>2 DEF Report, QueueType
  <2>2. UNCHANGED queue
    BY <1>2 DEF Report
  <2>. QED BY <2>1, <2>2 DEF Pending
<1>3. ASSUME NEW f \in Files, Enqueue(f)
      PROVE  \A g \in Files : Pending(g) => Pending(g)'
  <2>. DEFINE x == [kind |-> IF disk[f].there THEN "index" ELSE "delete", file |-> f]
  <2>1. /\ handler' = [handler EXCEPT ![f] = "none"]
        /\ queue' = Append(queue, x) /\ UNCHANGED reports
    BY <1>3 DEF Enqueue
  <2>2. x \in Changes /\ x.file = f
    BY DEF Changes
  <2>. HIDE DEF x
  <2>3. /\ Len(queue') \in DOMAIN queue' /\ queue'[Len(queue')] = x
        /\ \A i \in DOMAIN queue : i \in DOMAIN queue' /\ queue'[i] = queue[i]
    BY <2>1, <2>2 DEF QueueType
  <2>4. ASSUME NEW g \in Files, Pending(g)
        PROVE  Pending(g)'
    <3>1. CASE g = f
      BY <3>1, <2>2, <2>3 DEF Pending
    <3>2. CASE g # f
      BY <3>2, <2>1, <2>3, <2>4 DEF Pending, QueueType
    <3>. QED BY <3>1, <3>2
  <2>. QED BY <2>4
<1>. QED BY <1>1, <1>2, <1>3

\* A row that a step leaves alone, of a file whose change it leaves pending.
RowKept(f) == SameRow(f) /\ disk'[f] = disk[f] /\ (Pending(f) => Pending(f)')

\* What a step owes each file.
RowSeen(f) == \/ docs'[f] = NoRow \/ (IsCurrent(f)' /\ IdeasTrue(f)')
              \/ Pending(f)' \/ RowKept(f)

\* If each file gets that, no stale row is forgotten.
LEMMA StaleKept ==
    ASSUME StaleIsPending, \A f \in Files : RowSeen(f)
    PROVE  StaleIsPending'
<1>. SUFFICES ASSUME NEW f \in Files, docs'[f] # NoRow
              PROVE  (IsCurrent(f)' /\ IdeasTrue(f)') \/ Pending(f)'
  BY DEF StaleIsPending, IsCurrent, IdeasTrue, NamesIn, Pending
<1>1. RowSeen(f)
  OBVIOUS
<1>2. RowKept(f) /\ IsCurrent(f) /\ IdeasTrue(f) => IsCurrent(f)' /\ IdeasTrue(f)'
  BY DEF RowKept, SameRow, IsCurrent, IdeasTrue
<1>. QED BY <1>1, <1>2 DEF RowSeen, RowKept, SameRow, StaleIsPending

\* Each step sees to it that a stale row is written again: what it takes from the
\* watcher, a handler or the queue it hands on, or it indexes the file.
LEMMA StaleStep ==
    ASSUME Undisturbed, TaskInv, Steady, HandedOn, NoneBefore, StaleIsPending, [Next]_vars
    PROVE  StaleIsPending'
<1>. USE DEF runtimeVars
<1>0. TypeOK /\ QueueType /\ AtHead /\ RowsTyped
  BY TypeParts, TypedRows DEF TaskInv
<1>1. ASSUME UNCHANGED <<storeVars, disk>>, \A f \in Files : Pending(f) => Pending(f)'
      PROVE  StaleIsPending'
  BY <1>1, StaleKept DEF RowSeen, RowKept, SameRow, storeVars
<1>2. ASSUME UNCHANGED <<storeVars, disk, reports, handler, queue>>
      PROVE  StaleIsPending'
  BY <1>1, <1>2 DEF Pending
<1>3. ASSUME UNCHANGED docs, \A f \in Files : docs[f] = NoRow
      PROVE  StaleIsPending'
  BY <1>3 DEF StaleIsPending
<1>4. ASSUME NEW f \in Files, Edit(f)
      PROVE  StaleIsPending'
  <2>1. /\ UNCHANGED <<docs, ideas, handler, queue>> /\ reports' = reports \cup {f}
        /\ \A g \in Files : g # f => disk'[g] = disk[g]
    BY <1>0, <1>4 DEF Edit, storeVars, TypeOK, RuntimeType
  <2>. QED BY <2>1, StaleKept DEF RowSeen, RowKept, SameRow, Pending
<1>5. CASE OpenEnds \/ Report \/ \E f \in Files : Enqueue(f)
  <2>1. UNCHANGED <<storeVars, disk>>
    BY <1>5 DEF OpenEnds, Report, Enqueue
  <2>. QED BY <2>1, <1>0, <1>1, <1>5, HandedOver
<1>8. CASE Skipped
  BY <1>8 DEF Skipped, Steady
<1>9. CASE DropIndex
  <2>1. fsm \in {"uninitialized", "opening"}
    BY <1>9, DroppedEarly
  <2>. QED BY <2>1, <1>3, <1>9 DEF DropIndex, NoneBefore, storeVars
<1>10. ASSUME NEW f \in Files, f = Head(queue).file, queue # <<>>, Dequeue(FALSE),
              EditsReported, UNCHANGED handler,
              \A g \in Files : \/ disk'[g] # disk[g]
                               \/ docs'[g] = NoRow
                               \/ IsCurrent(g)' /\ IdeasTrue(g)'
                               \/ SameRow(g) /\ g # f
       PROVE  StaleIsPending'
  <2>. SUFFICES ASSUME NEW g \in Files
       PROVE  RowSeen(g)
    BY StaleKept
  <2>1. CASE disk'[g] # disk[g]
    BY <2>1, <1>10 DEF EditsReported, RowSeen, Pending
  <2>2. CASE disk'[g] = disk[g] /\ SameRow(g) /\ g # f
    <3>1. Pending(g) => Pending(g)'
      BY <2>2, <1>0, <1>10, PendingBehind DEF QueueType, Dequeue, EditsReported
    <3>. QED BY <2>2, <3>1 DEF RowSeen, RowKept
  <2>. QED BY <2>1, <2>2, <1>10 DEF RowSeen
<1>11. CASE EndIndex
  <2>1. queue # <<>> /\ Head(queue).file \in Files /\ sqlite /\ Live(work.gen) /\ ~ catalog.on
    BY <1>0, <1>11, OpenAtWork, HeadIsChange DEF EndIndex, AtHead, QueueType, Steady
  <2>2. PICK f \in Files : f = Head(queue).file
    BY <2>1
  <2>3. IndexFile(f) /\ Dequeue(FALSE) /\ EditsReported /\ UNCHANGED handler
    BY <1>11, <2>1, <2>2 DEF EndIndex
  <2>4. \A g \in Files : \/ disk'[g] # disk[g]
                         \/ docs'[g] = NoRow
                         \/ IsCurrent(g)' /\ IdeasTrue(g)'
                         \/ SameRow(g) /\ g # f
    BY <1>0, <2>1, <2>3, FileSeen
  <2>. QED BY <2>1, <2>2, <2>3, <2>4, <1>10
<1>12. CASE Delete
  <2>1. queue # <<>> /\ Head(queue).file \in Files /\ UNCHANGED <<disk, reports, handler>>
    BY <1>0, <1>12, HeadIsChange DEF Delete, Turn, QueueType
  <2>2. PICK f \in Files : f = Head(queue).file
    BY <2>1
  <2>3. Dequeue(FALSE) /\ (RemoveDocument(f) \/ (~ sqlite /\ UNCHANGED storeVars))
    BY <1>12, <2>2 DEF Delete, Undisturbed
  <2>4. CASE RemoveDocument(f)
    <3>1. docs' = [docs EXCEPT ![f] = NoRow] /\ ideas' = {i \in ideas : i[1] # f}
      BY <2>4 DEF RemoveDocument
    <3>2. docs'[f] = NoRow /\ \A g \in Files : g # f => SameRow(g)
      BY <3>1, <1>0 DEF RowsTyped, StoreType, SameRow, NamesIn
    <3>3. EditsReported
      BY <2>1 DEF EditsReported
    <3>. QED BY <2>1, <2>2, <2>3, <3>2, <3>3, <1>10
  <2>5. CASE ~ sqlite /\ UNCHANGED storeVars
    BY <2>5, <1>3 DEF Steady, NoneBefore, storeVars
  <2>. QED BY <2>3, <2>4, <2>5
<1>13. ASSUME NEW f \in Files, SyncFile(f)
       PROVE  StaleIsPending'
  <2>1. EditsReported /\ UNCHANGED <<handler, queue>> /\ (UNCHANGED <<storeVars, disk>> \/ IndexFile(f))
    BY <1>13 DEF SyncFile
  <2>2. \A g \in Files : Pending(g) => Pending(g)'
    BY <2>1 DEF Pending, EditsReported
  <2>3. CASE IndexFile(f)
    <3>1. \A g \in Files : disk'[g] # disk[g] => Pending(g)'
      BY <2>1 DEF EditsReported, Pending
    <3>2. \A g \in Files : \/ disk'[g] # disk[g]
                           \/ docs'[g] = NoRow
                           \/ IsCurrent(g)' /\ IdeasTrue(g)'
                           \/ SameRow(g)
      BY <1>0, <2>3, FileSeen
    <3>. QED BY <3>1, <3>2, <2>2, StaleKept DEF RowSeen, RowKept
  <2>. QED BY <2>1, <2>2, <2>3, <1>1
<1>14. CASE RebuildClear
  <2>1. CASE ClearAll
    <3>1. \A f \in Files : docs'[f] = NoRow
      BY <2>1 DEF ClearAll
    <3>. QED BY <3>1, StaleKept DEF RowSeen
  <2>. QED BY <2>1, <1>2, <1>14 DEF RebuildClear
<1>15. CASE WaitForSync \/ BeginIndex
  BY <1>2, <1>15 DEF WaitForSync, BeginIndex
<1>16. CASE SyncEnds \/ PollEnds \/ Cancel \/ EnsureStart \/ EnsureSync
  BY <1>2, <1>16 DEF SyncEnds, PollEnds, Cancel, EnsureStart, EnsureSync
<1>17. CASE RebuildStart \/ RebuildFails \/ RebuildSync
  BY <1>2, <1>17 DEF RebuildStart, RebuildFails, RebuildSync
<1>18. CASE IdleStart \/ IdleDiff \/ IdleRelease
  BY <1>2, <1>18 DEF IdleStart, IdleDiff, IdleRelease
<1>19. CASE UNCHANGED vars
  BY <1>2, <1>19 DEF vars, taskVars
<1>. QED BY <1>4, <1>5, <1>8, <1>9, <1>11, <1>12, <1>13, <1>14, <1>15, <1>16, <1>17,
            <1>18, <1>19 DEF Next

\* Rows are written by whoever owns the lifecycle only.
LEMMA NoneBeforeStep ==
    ASSUME TaskInv, Steady, NoneBefore, [Next]_vars
    PROVE  NoneBefore'
<1>. USE DEF runtimeVars, NoneBefore
<1>0. TypeOK /\ QueueType /\ LifeType /\ RowsTyped /\ AtHead
  BY TypeParts, TypedRows DEF TaskInv
<1>1. ASSUME UNCHANGED docs, fsm' \in {"uninitialized", "opening"} => fsm \in {"uninitialized", "opening"}
      PROVE  NoneBefore'
  BY <1>1
<1>2. ASSUME UNCHANGED docs, OpenStarts
      PROVE  NoneBefore'
  BY <1>0, <1>2, OpenCalled DEF Steady
<1>3. ASSUME \A f \in Files : docs'[f] \in {docs[f], NoRow},
             fsm' \in {"uninitialized", "opening"} => fsm \in {"uninitialized", "opening"}
      PROVE  NoneBefore'
  BY <1>3
<1>4. CASE OpenEnds
  <2>1. fsm' \in {"uninitialized", "opening"} => fsm \in {"uninitialized", "opening"}
    BY <1>4 DEF OpenEnds, TaskInv, LifeInv, OpeningShown
  <2>. QED BY <2>1, <1>1, <1>4 DEF OpenEnds, storeVars
<1>5. ASSUME NEW f \in Files, Edit(f) \/ Enqueue(f)
      PROVE  NoneBefore'
  BY <1>1, <1>5 DEF Edit, Enqueue, storeVars
<1>6. ASSUME NEW f \in Files, SyncFile(f)
      PROVE  NoneBefore'
  BY <1>6, OpenAtWork DEF SyncFile
<1>7. CASE Report
  BY <1>1, <1>2, <1>7 DEF Report, storeVars
<1>8. CASE Skipped \/ WaitForSync \/ DropIndex
  BY <1>1, <1>8 DEF Skipped, WaitForSync, DropIndex, storeVars
<1>9. CASE BeginIndex
  BY <1>0, <1>1, <1>9, SyncEvent DEF BeginIndex, LifeType, storeVars
<1>10. CASE EndIndex
  <2>1. fsm = "syncing" /\ Live(work.gen)
    BY <1>10, OpenAtWork DEF EndIndex
  <2>2. fsm' = "ready"
    BY <1>0, <1>10, <2>1, SyncedEvent DEF EndIndex, LifeType
  <2>. QED BY <2>2
<1>11. CASE Delete
  <2>1. Head(queue).file \in Files
    BY <1>0, <1>11, HeadIsChange DEF Delete, Turn, QueueType
  <2>2. \A f \in Files : docs'[f] \in {docs[f], NoRow}
    BY <1>0, <1>11, <2>1 DEF Delete, RemoveDocument, RowsTyped, StoreType, storeVars
  <2>. QED BY <2>2, <1>3, <1>11 DEF Delete
<1>12. CASE SyncEnds
  <2>1. fsm = "syncing" /\ fsm' \in {fsm, "ready"}
    BY <1>0, <1>12, OpenAtWork, SyncedEvent DEF SyncEnds, LifeType
  <2>. QED BY <2>1
<1>13. CASE PollEnds \/ Cancel
  BY <1>1, <1>13 DEF PollEnds, Cancel, storeVars
<1>14. ASSUME NEW list, SyncCall(list)
       PROVE  fsm' \in {fsm, "syncing", "error"}
  BY <1>0, <1>14, SyncEvent DEF SyncCall, LifeType
<1>15. CASE EnsureStart
  BY <1>1, <1>2, <1>14, <1>15 DEF EnsureStart, storeVars
<1>16. CASE EnsureSync \/ RebuildStart \/ RebuildSync \/ IdleStart \/ IdleDiff
  BY <1>1, <1>14, <1>16 DEF EnsureSync, RebuildStart, RebuildSync, IdleStart, IdleDiff, storeVars
<1>17. CASE RebuildClear
  <2>1. \A f \in Files : docs'[f] \in {docs[f], NoRow}
    BY <1>17 DEF RebuildClear, ClearAll, storeVars
  <2>. QED BY <2>1, <1>3, <1>17 DEF RebuildClear
<1>18. CASE RebuildFails
  <2>1. fsm' \in {fsm, "error"}
    BY <1>0, <1>18, FailEvent DEF RebuildFails, LifeType
  <2>. QED BY <2>1, <1>1, <1>18 DEF RebuildFails, storeVars
<1>19. CASE IdleRelease
  BY <1>19 DEF IdleRelease, Steady
<1>20. CASE UNCHANGED vars
  BY <1>1, <1>20 DEF vars, storeVars
<1>. QED BY <1>4, <1>5, <1>6, <1>7, <1>8, <1>9, <1>10, <1>11, <1>12, <1>13, <1>15, <1>16, <1>17,
            <1>18, <1>19, <1>20 DEF Next

\* The start, and what a step keeps.
LEMMA ChangeInvariant ==
    ASSUME Undisturbed
    PROVE  Spec => []ChangeInv
<1>1. Init => ChangeInv
  <2>. SUFFICES ASSUME Init
                PROVE  ChangeInv
    OBVIOUS
  <2>1. \A f \in Files : docs[f] = NoRow
    BY DEF Init, StoreInit
  <2>. QED BY <2>1 DEF Init, NoIdle, ChangeInv, Steady, HandedOn, NoneBefore, StaleIsPending
<1>2. TaskInv /\ ChangeInv /\ [Next]_vars => ChangeInv'
  BY SteadyStep, HandedOnStep, NoneBeforeStep, StaleStep DEF ChangeInv
<1>. QED BY <1>1, <1>2, TaskInvariant, PTL DEF Spec

\* With a database that works and an index that is not released, a `.rq` file that the
\* tables call current has exactly the ideas of its text, or a change of it is on its
\* way: at every moment, also when it is edited between the read and the stat of a
\* native call.
THEOREM CurrentRowsTrue ==
    ASSUME ~ MayFail, Commands \cap {"idle", "late"} = {}
    PROVE  Spec => []CurrentIsTrue
<1>1. Undisturbed
  BY DEF Undisturbed
<1>2. ChangeInv /\ TaskInv => CurrentIsTrue
  <2>. SUFFICES ASSUME ChangeInv, TaskInv, NEW f \in RqFiles, IsCurrent(f)
                PROVE  IdeasTrue(f) \/ Pending(f)
    BY DEF CurrentIsTrue
  <2>1. f \in Files /\ docs[f] # NoRow
    BY DEF TaskInv, TypeOK, RuntimeType, FileStates, IsCurrent, NoRow, Files
  <2>. QED BY <2>1 DEF ChangeInv, StaleIsPending
<1>. QED BY <1>1, <1>2, ChangeInvariant, TaskInvariant, PTL

\* With a database that works and an index that is not released, no change is
\* forgotten: once all is quiet no row describes an earlier text or a file that is
\* gone, whatever passes, rebuilds, cancellations, queued changes and edits ran into
\* each other.
THEOREM NoChangeForgotten ==
    ASSUME ~ MayFail, Commands \cap {"idle", "late"} = {}
    PROVE  Spec => []NoStaleRow
<1>1. Undisturbed
  BY DEF Undisturbed
<1>2. ChangeInv => NoStaleRow
  <2>. SUFFICES ASSUME ChangeInv, AtRest, NEW f \in Files, docs[f] # NoRow
                PROVE  IsCurrent(f) /\ IdeasTrue(f)
    BY DEF NoStaleRow
  <2>1. ~ Pending(f)
    BY DEF Pending, AtRest, Quiet, UnderWay
  <2>. QED BY <2>1 DEF ChangeInv, StaleIsPending
<1>. QED BY <1>1, <1>2, ChangeInvariant, PTL

(***************************************************************************)
(* The links                                                               *)
(***************************************************************************)
\* While a pass runs, the ideas it resolves against are those of the table.
CatalogIsTable == catalog.on => catalog.ideas = ideas

\* No idea of a file that is not there.
IdeasThere == \A i \in ideas : disk[i[1]].there

\* What is under way for a `.rq` file is not its deletion.
NoneDeleted ==
    /\ \A f \in RqFiles : f \in reports \/ handler[f] # "none" => disk[f].there
    /\ \A i \in DOMAIN queue : queue[i].file \in RqFiles => queue[i].kind = "index"

\* The links of a code file that the tables call current are those its comments make
\* to the stored ideas, or a change of the file is on its way.
LinksTold == \A c \in CodeFiles : IsCurrent(c) => LinksExact(c) \/ Pending(c)

LinkInv == CatalogIsTable /\ IdeasThere /\ LinksTold

\* The links of code file c as a step found them.
SameLinksOf(c) == disk'[c] = disk[c] /\ docs'[c] = docs[c] /\ (LinksExact(c) => LinksExact(c)')

\* What a step owes each code file.
LinksSeen(c) == \/ ~ IsCurrent(c)' \/ LinksExact(c)' \/ Pending(c)'
                \/ SameLinksOf(c) /\ (Pending(c) => Pending(c)')

\* If each code file gets that, no links are wrong without notice.
LEMMA LinksKept ==
    ASSUME LinksTold, \A c \in CodeFiles : LinksSeen(c)
    PROVE  LinksTold'
<1>. SUFFICES ASSUME NEW c \in CodeFiles, IsCurrent(c)'
              PROVE  LinksExact(c)' \/ Pending(c)'
  BY DEF LinksTold, LinksExact, LinksOf, LinkRows
<1>1. LinksSeen(c)
  OBVIOUS
<1>2. SameLinksOf(c) => IsCurrent(c)
  BY DEF SameLinksOf, IsCurrent
<1>. QED BY <1>1, <1>2 DEF LinksSeen, SameLinksOf, LinksTold

\* The links of a file stay, where the file, its row and the ideas do.
LEMMA LinksStay ==
    ASSUME NEW c \in CodeFiles, UNCHANGED ideas, disk'[c] = disk[c], docs'[c] = docs[c],
           LinksOf(c)' = LinksOf(c)
    PROVE  SameLinksOf(c)
<1>1. LinksExact(c) => LinksExact(c)'
  BY DEF LinksExact
<1>. QED BY <1>1 DEF SameLinksOf

\* Where `.rq` files are not deleted, an edit leaves them there.
LEMMA EditedThere ==
    ASSUME Deletable \subseteq CodeFiles, NEW f \in RqFiles,
           disk'[f] = disk[f] \/ disk'[f] \in Edits(f)
    PROVE  (disk[f].there => disk'[f].there) /\ (disk'[f] # disk[f] => disk'[f].there)
BY FilesAssumption DEF Edits

\* What one native call leaves of the links: those of the files it read are exact,
\* unless the file was edited meanwhile.
CallLinks(f) ==
    \A c \in CodeFiles : \/ disk'[c] # disk[c] \/ ~ IsCurrent(c)' \/ LinksExact(c)'
                         \/ c # f /\ SameLinksOf(c)

\* A code file, or a file without ideas, can be removed.
LEMMA RemovedLinks ==
    ASSUME RowsTyped, Rooted, LinkInv, NEW f \in Files, \A i \in ideas : i[1] # f,
           RemoveDocument(f), UNCHANGED disk
    PROVE  ideas' = ideas /\ IdeasThere' /\ CallLinks(f)
<1>1. /\ docs' = [docs EXCEPT ![f] = NoRow]
      /\ ideas' = {i \in ideas : i[1] # f}
      /\ links' = {l \in links : l[1] # f /\ l[3] # f}
  BY DEF RemoveDocument
<1>2. ideas' = ideas
  BY <1>1
<1>3. \A l \in links : l[1] # f
  <2>1. \A l \in links : <<l[1], l[2]>> \in ideas /\ <<l[1], l[2]>>[1] = l[1]
    BY DEF Rooted
  <2>. QED BY <2>1
<1>4. \A g \in Files : docs'[g] = IF g = f THEN NoRow ELSE docs[g]
  BY <1>1 DEF RowsTyped, StoreType
<1>5. \A g \in Files : disk[g].mtime \in Nat \ {0}
  BY DEF RowsTyped, DiskType, FileStates
<1>6. IdeasThere'
  BY <1>2 DEF LinkInv, IdeasThere
<1>7. ASSUME NEW c \in CodeFiles, IsCurrent(c)'
      PROVE  c # f /\ SameLinksOf(c)
  <2>1. c \in Files /\ c # f
    BY <1>4, <1>5, <1>7 DEF IsCurrent, NoRow, Files
  <2>2. LinksOf(c)' = LinksOf(c)
    BY <1>1, <1>3, <2>1 DEF LinksOf
  <2>3. docs'[c] = docs[c]
    BY <1>4, <2>1
  <2>. QED BY <1>2, <2>1, <2>2, <2>3, LinksStay
<1>. QED BY <1>2, <1>6, <1>7 DEF CallLinks

\* The catalog or the table: with both the same, either is what is known.
LEMMA KnownIsTable == ASSUME CatalogIsTable PROVE Known = ideas
BY DEF CatalogIsTable, Known

\* A code file that is read gets the links that its references make.
LEMMA ReadLinks ==
    ASSUME RowsTyped, LinkInv, NEW f \in Files, IndexCode(f)
    PROVE  UNCHANGED <<ideas, catalog>> /\ CallLinks(f)
<1>. DEFINE targets == Resolve(disk[f].body, ideas)
<1>1. f \in CodeFiles /\ catalog' = catalog /\ Known = ideas
  BY KnownIsTable DEF IndexCode, LinkInv
<1>2. targets \subseteq ideas
  BY DEF Resolve
<1>3. PersistLinks(f, targets, MtimeTaken(f))
  BY <1>1, <1>2 DEF IndexCode, ForeignKeysHold
<1>4. /\ docs' = [docs EXCEPT ![f] = MtimeTaken(f)]
      /\ links' = (links \ LinksOf(f)) \cup LinkRows(f, targets)
      /\ ideas' = ideas
  BY <1>3 DEF PersistLinks
<1>5. \A l \in LinkRows(f, targets) : l[3] = f
  BY DEF LinkRows
<1>. HIDE DEF targets
<1>6. ASSUME NEW c \in CodeFiles, disk'[c] = disk[c]
      PROVE  LinksExact(c)' \/ (c # f /\ SameLinksOf(c))
  <2>1. CASE c = f
    <3>1. LinksOf(c)' = LinkRows(c, targets)
      BY <1>4, <1>5, <2>1 DEF LinksOf
    <3>. QED BY <3>1, <1>4, <1>6, <2>1 DEF targets, LinksExact
  <2>2. CASE c # f
    <3>1. LinksOf(c)' = LinksOf(c)
      BY <1>4, <1>5, <2>2 DEF LinksOf
    <3>2. docs'[c] = docs[c]
      BY <1>4, <2>2 DEF RowsTyped, StoreType, Files
    <3>. QED BY <1>4, <1>6, <2>2, <3>1, <3>2, LinksStay
  <2>. QED BY <2>1, <2>2
<1>. QED BY <1>1, <1>4, <1>6 DEF CallLinks

\* A `.rq` file whose names change has every code document read again.
LEMMA RefreshedLinks ==
    ASSUME RowsTyped, Rooted, LinkInv, NEW f \in RqFiles, IndexRq(f)
    PROVE  /\ CatalogIsTable' /\ CallLinks(f)
           /\ \A i \in ideas' : i \in ideas \/ (i[1] = f /\ disk[f].there)
<1>. DEFINE names == disk[f].body
            known == {i \in Known : i[1] # f} \cup ({f} \X names)
            now   == {i \in ideas : i[1] # f} \cup ({f} \X names)
            kept  == {l \in links : l[1] = f => l[2] \in names}
<1>0. Known = ideas /\ disk[f].there
  BY KnownIsTable DEF LinkInv, IndexRq
<1>1. ideas' = now /\ catalog' = CatalogWith(f, names)
  BY <1>0 DEF IndexRq
<1>2. CatalogIsTable'
  BY <1>1 DEF LinkInv, CatalogIsTable, CatalogWith
<1>3. \A i \in ideas' : i \in ideas \/ (i[1] = f /\ disk[f].there)
  <2>1. \A i \in {f} \X names : i[1] = f
    OBVIOUS
  <2>. QED BY <1>0, <1>1, <2>1
<1>4. PICK read \in (IF NamesIn(f, ideas) # names THEN Refreshed(known, now) ELSE {{}}) :
          /\ docs' = [g \in Files |->
                        CASE g = f       -> MtimeTaken(f)
                          [] g \in read  -> IF disk[g].there THEN MtimeTaken(g) ELSE NoRow
                          [] OTHER       -> docs[g]]
          /\ links' = {l \in kept : l[3] \notin read} \cup
                      UNION {LinkRows(c, Resolve(disk[c].body, known)) :
                                c \in {c \in read : disk[c].there}}
  BY DEF IndexRq
<1>. known = now
  BY <1>0
<1>. HIDE DEF known
<1>5. \A c \in CodeFiles : c \in Files /\ c # f
  BY FilesAssumption DEF Files
<1>6. \A g \in Files : disk'[g] = disk[g] => disk'[g].mtime \in Nat
  BY DEF RowsTyped, DiskType, FileStates
<1>7. ASSUME NEW c \in CodeFiles, disk'[c] = disk[c], IsCurrent(c)'
      PROVE  LinksExact(c)' \/ (c # f /\ SameLinksOf(c))
  <2>1. CASE NamesIn(f, ideas) = names
    <3>1. read = {} /\ ideas' = ideas
      <4>1. names \subseteq Names
        BY BodiesHold DEF RowsTyped
      <4>2. now = ideas
        BY <2>1, <4>1 DEF NamesIn, RowsTyped, StoreType, Ideas
      <4>. QED BY <2>1, <1>1, <1>4, <4>2
    <3>2. \A l \in links : l[1] = f => l[2] \in names
      <4>. SUFFICES ASSUME NEW l \in links, l[1] = f
           PROVE  l[2] \in names
        OBVIOUS
      <4>1. <<f, l[2]>> \in ideas /\ l[2] \in Names
        BY DEF Rooted, RowsTyped, StoreType, Links
      <4>. QED BY <2>1, <4>1 DEF NamesIn
    <3>3. links' = links
      BY <1>4, <3>1, <3>2
    <3>4. docs'[c] = docs[c]
      BY <1>4, <1>5, <3>1
    <3>. QED BY <1>5, <1>7, <3>1, <3>3, <3>4, LinksStay DEF LinksOf
  <2>2. CASE NamesIn(f, ideas) # names
    <3>1. read = CodeDocuments
      <4>1. \A d : Resolve(disk[d].body, now) \subseteq now
        BY DEF Resolve
      <4>. HIDE DEF now
      <4>2. Refreshed(now, now) = {CodeDocuments}
        BY <4>1 DEF Refreshed
      <4>. QED BY <2>2, <4>2, <1>4
    <3>2. c \in read /\ disk[c].there
      BY <1>4, <1>5, <1>6, <1>7, <3>1 DEF IsCurrent, CodeDocuments, NoRow
    <3>. HIDE DEF now
    <3>3. \A d \in read : \A l \in LinkRows(d, Resolve(disk[d].body, now)) : l[3] = d
      BY DEF LinkRows
    <3>4. LinksOf(c)' = LinkRows(c, Resolve(disk[c].body, now))
      BY <1>4, <3>2, <3>3 DEF LinksOf
    <3>. QED BY <3>4, <1>1, <1>7 DEF LinksExact
  <2>. QED BY <2>1, <2>2
<1>. QED BY <1>2, <1>3, <1>7 DEF CallLinks

\* One native call on one file.
LEMMA FileLinks ==
    ASSUME RowsTyped, Rooted, LinkInv, Deletable \subseteq CodeFiles, NEW f \in Files, IndexFile(f)
    PROVE  CatalogIsTable' /\ IdeasThere' /\ CallLinks(f)
<1>0. \A g \in RqFiles : disk[g].there => disk'[g].there
  <2>1. \A g \in RqFiles : disk'[g] = disk[g] \/ disk'[g] \in Edits(g)
    BY FileSeen DEF Files
  <2>. QED BY <2>1, EditedThere
<1>1. ASSUME \A i \in ideas' : i \in ideas \/ (i[1] = f /\ disk[f].there), StoreType'
      PROVE  IdeasThere'
  <2>. SUFFICES ASSUME NEW i \in ideas'
       PROVE  disk'[i[1]].there
    BY DEF IdeasThere
  <2>1. i[1] \in RqFiles
    BY <1>1 DEF StoreType, Ideas
  <2>2. disk[i[1]].there
    BY <1>1 DEF LinkInv, IdeasThere
  <2>. QED BY <2>1, <2>2, <1>0
<1>2. StoreType'
  BY FileRows
<1>3. CASE IndexMissing(f)
  <2>1. \A i \in ideas : i[1] # f
    BY <1>3 DEF IndexMissing, LinkInv, IdeasThere
  <2>2. ideas' = ideas /\ IdeasThere' /\ CallLinks(f)
    BY <1>3, <2>1, RemovedLinks DEF IndexMissing
  <2>3. CatalogIsTable'
    <3>1. catalog' = CatalogWith(f, {})
      BY <1>3 DEF IndexMissing
    <3>. QED BY <2>1, <2>2, <3>1 DEF LinkInv, CatalogIsTable, CatalogWith
  <2>. QED BY <2>2, <2>3
<1>4. CASE IndexVanishing(f)
  <2>1. UNCHANGED <<docs, ideas, links, catalog>> /\ disk'[f] # disk[f]
    BY <1>4 DEF IndexVanishing, storeVars
  <2>2. \A c \in CodeFiles : disk'[c] = disk[c] => SameLinksOf(c)
    BY <2>1, LinksStay DEF LinksOf
  <2>3. CallLinks(f)
    BY <2>1, <2>2 DEF CallLinks
  <2>. QED BY <2>1, <2>3, <1>1, <1>2 DEF LinkInv, CatalogIsTable
<1>5. CASE IndexCode(f)
  <2>1. UNCHANGED <<ideas, catalog>> /\ CallLinks(f)
    BY <1>5, ReadLinks
  <2>. QED BY <2>1, <1>1, <1>2 DEF LinkInv, CatalogIsTable
<1>6. CASE IndexRq(f)
  <2>1. f \in RqFiles
    BY <1>6 DEF IndexRq
  <2>. QED BY <2>1, <1>1, <1>2, <1>6, RefreshedLinks
<1>. QED BY <1>3, <1>4, <1>5, <1>6 DEF IndexFile

\* A step that touches neither the tables nor the files nor the catalog.
LEMMA SameLinks ==
    ASSUME LinkInv, UNCHANGED <<storeVars, disk>>, \A c \in Files : Pending(c) => Pending(c)',
           UNCHANGED catalog \/ ~ catalog'.on \/ catalog'.ideas = ideas
    PROVE  LinkInv'
<1>1. CatalogIsTable' /\ IdeasThere'
  BY DEF LinkInv, CatalogIsTable, IdeasThere, storeVars
<1>2. ASSUME NEW c \in CodeFiles
      PROVE  LinksSeen(c)
  BY LinksStay DEF LinksSeen, LinksOf, storeVars, Files
<1>3. LinksTold'
  BY <1>2, LinksKept DEF LinkInv
<1>. QED BY <1>1, <1>3 DEF LinkInv

\* Nor one that edits a file: of the file that is edited a change is on its way.
LEMMA EditLinks ==
    ASSUME TypeOK, LinkInv, Deletable \subseteq CodeFiles, NEW f \in Files, Edit(f)
    PROVE  LinkInv'
<1>1. PICK e \in Edits(f) : disk' = [disk EXCEPT ![f] = e]
  BY DEF Edit
<1>2. UNCHANGED <<docs, ideas, links, catalog, handler, queue>> /\ reports' = reports \cup {f}
  BY DEF Edit, storeVars, runtimeVars
<1>3. \A g \in Files : disk'[g] = IF g = f THEN e ELSE disk[g]
  BY <1>1 DEF TypeOK, RuntimeType
<1>4. CatalogIsTable'
  BY <1>2 DEF LinkInv, CatalogIsTable
<1>5. IdeasThere'
  <2>. SUFFICES ASSUME NEW i \in ideas
       PROVE  disk'[i[1]].there
    BY <1>2 DEF IdeasThere
  <2>1. i[1] \in RqFiles /\ i[1] \in Files /\ disk[i[1]].there
    BY DEF LinkInv, IdeasThere, TypeOK, StoreType, Ideas, Files
  <2>2. disk'[i[1]] = disk[i[1]] \/ disk'[i[1]] \in Edits(i[1])
    BY <2>1, <1>1, <1>3
  <2>. QED BY <2>1, <2>2, EditedThere
<1>6. ASSUME NEW c \in CodeFiles
      PROVE  LinksSeen(c)
  <2>1. CASE c = f
    BY <2>1, <1>2 DEF LinksSeen, Pending
  <2>2. CASE c # f
    <3>1. SameLinksOf(c)
      BY <2>2, <1>2, <1>3, LinksStay DEF Files, LinksOf
    <3>2. Pending(c) => Pending(c)'
      BY <1>2 DEF Pending
    <3>. QED BY <3>1, <3>2 DEF LinksSeen
  <2>. QED BY <2>1, <2>2
<1>7. LinksTold'
  BY <1>6, LinksKept DEF LinkInv
<1>. QED BY <1>4, <1>5, <1>7 DEF LinkInv

\* The tail of the queue, and the queue with one change more.
LEMMA QueueChanges ==
    ASSUME queue \in Seq(Changes)
    PROVE  /\ queue # <<>> => \A i \in DOMAIN Tail(queue) :
                                 i + 1 \in DOMAIN queue /\ Tail(queue)[i] = queue[i + 1]
           /\ \A x \in Changes : \A i \in DOMAIN Append(queue, x) :
                 \/ i \in DOMAIN queue /\ Append(queue, x)[i] = queue[i]
                 \/ Append(queue, x)[i] = x
OBVIOUS

\* Nothing of a `.rq` file is ever to be deleted, if nobody deletes one.
LEMMA NoneDeletedStep ==
    ASSUME TypeOK, DiskBodies, AtHead, NoneDeleted, Deletable \subseteq CodeFiles, [Next]_vars
    PROVE  NoneDeleted'
<1>0. QueueType /\ RowsTyped
  BY TypeParts, TypedRows
<1>1. ASSUME UNCHANGED <<disk, queue>>, reports' \subseteq reports,
             \A f \in Files : handler'[f] # "none" => handler[f] # "none" \/ f \in reports
      PROVE  NoneDeleted'
  BY <1>1 DEF NoneDeleted, Files
<1>2. ASSUME queue # <<>>, queue' = Tail(queue), UNCHANGED <<disk, reports, handler>>
      PROVE  NoneDeleted'
  <2>1. \A i \in DOMAIN queue' : i + 1 \in DOMAIN queue /\ queue'[i] = queue[i + 1]
    BY <1>0, <1>2, QueueChanges DEF QueueType
  <2>. QED BY <2>1, <1>2 DEF NoneDeleted
<1>3. ASSUME \A g \in RqFiles : disk'[g] = disk[g] \/ (disk'[g] \in Edits(g) /\ g \in reports'),
             \A g \in RqFiles : g \in reports' => g \in reports \/ disk'[g] \in Edits(g),
             UNCHANGED handler,
             \A i \in DOMAIN queue' : queue'[i].file \in RqFiles => queue'[i].kind = "index"
      PROVE  NoneDeleted'
  <2>1. \A g \in RqFiles : /\ disk[g].there => disk'[g].there
                           /\ disk'[g] \in Edits(g) => disk'[g].there
    BY <1>3, EditedThere, FilesAssumption DEF Edits
  <2>. QED BY <1>3, <2>1 DEF NoneDeleted
<1>14. ASSUME NEW f \in Files, Edit(f)
       PROVE  NoneDeleted'
  <2>1. PICK e \in Edits(f) : disk' = [disk EXCEPT ![f] = e]
    BY <1>14 DEF Edit
  <2>2. reports' = reports \cup {f} /\ UNCHANGED <<handler, queue>>
    BY <1>14 DEF Edit
  <2>3. \A g \in RqFiles : disk'[g] = IF g = f THEN e ELSE disk[g]
    BY <2>1 DEF TypeOK, RuntimeType, Files
  <2>. QED BY <2>2, <2>3, <1>3 DEF NoneDeleted
<1>15. ASSUME EditsReported, \A g \in Files : disk'[g] = disk[g] \/ disk'[g] \in Edits(g),
              UNCHANGED handler, queue' = queue \/ (queue # <<>> /\ queue' = Tail(queue))
       PROVE  NoneDeleted'
  <2>1. \A i \in DOMAIN queue' : queue'[i].file \in RqFiles => queue'[i].kind = "index"
    <3>1. CASE queue' = queue
      BY <3>1 DEF NoneDeleted
    <3>2. CASE queue # <<>> /\ queue' = Tail(queue)
      <4>1. \A i \in DOMAIN queue' : i + 1 \in DOMAIN queue /\ queue'[i] = queue[i + 1]
        BY <1>0, <3>2, QueueChanges DEF QueueType
      <4>. QED BY <4>1 DEF NoneDeleted
    <3>. QED BY <3>1, <3>2, <1>15
  <2>. QED BY <2>1, <1>3, <1>15 DEF EditsReported, Files
<1>4. ASSUME NEW f \in Files, Enqueue(f)
      PROVE  NoneDeleted'
  <2>. DEFINE x == [kind |-> IF disk[f].there THEN "index" ELSE "delete", file |-> f]
  <2>1. /\ handler[f] = "opened" /\ handler' = [handler EXCEPT ![f] = "none"]
        /\ queue' = Append(queue, x) /\ UNCHANGED <<disk, reports>>
    BY <1>4 DEF Enqueue
  <2>2. x \in Changes /\ x.file = f /\ (f \in RqFiles => x.kind = "index")
    BY <2>1 DEF NoneDeleted, Changes
  <2>. HIDE DEF x
  <2>3. \A i \in DOMAIN queue' : queue'[i].file \in RqFiles => queue'[i].kind = "index"
    <3>. SUFFICES ASSUME NEW i \in DOMAIN queue', queue'[i].file \in RqFiles
         PROVE  queue'[i].kind = "index"
      OBVIOUS
    <3>1. (i \in DOMAIN queue /\ queue'[i] = queue[i]) \/ queue'[i] = x
      BY <2>1, <2>2, <1>0, QueueChanges DEF QueueType
    <3>. QED BY <3>1, <2>2 DEF NoneDeleted
  <2>4. \A g \in RqFiles : handler'[g] # "none" => handler[g] # "none"
    BY <1>0, <2>1 DEF QueueType, Files
  <2>. QED BY <2>1, <2>3, <2>4 DEF NoneDeleted
<1>5. CASE OpenEnds \/ Report
  BY <1>0, <1>1, <1>5 DEF OpenEnds, Report, QueueType
<1>6. CASE Skipped \/ DropIndex \/ Delete
  BY <1>2, <1>6 DEF Skipped, DropIndex, Delete, Dequeue, Turn
<1>16. CASE EndIndex
  <2>1. queue # <<>> /\ Head(queue).file \in Files
    BY <1>0, <1>16, HeadIsChange DEF EndIndex, AtHead, QueueType
  <2>2. \A g \in Files : disk'[g] = disk[g] \/ disk'[g] \in Edits(g)
    BY <2>1, <1>0, <1>16, FileSeen DEF EndIndex
  <2>. QED BY <2>1, <2>2, <1>15, <1>16 DEF EndIndex, Dequeue
<1>7. CASE WaitForSync \/ BeginIndex
  BY <1>1, <1>7 DEF WaitForSync, BeginIndex
<1>8. ASSUME NEW f \in Files, SyncFile(f)
      PROVE  NoneDeleted'
  <2>1. \A g \in Files : disk'[g] = disk[g] \/ disk'[g] \in Edits(g)
    BY <1>0, <1>8, FileSeen DEF SyncFile
  <2>. QED BY <2>1, <1>8, <1>15 DEF SyncFile
<1>9. CASE SyncEnds \/ PollEnds \/ Cancel \/ EnsureStart \/ EnsureSync
  BY <1>1, <1>9 DEF SyncEnds, PollEnds, Cancel, EnsureStart, EnsureSync
<1>10. CASE RebuildStart \/ RebuildClear \/ RebuildFails \/ RebuildSync
  BY <1>1, <1>10 DEF RebuildStart, RebuildClear, RebuildFails, RebuildSync
<1>11. CASE IdleStart \/ IdleDiff \/ IdleRelease
  BY <1>1, <1>11 DEF IdleStart, IdleDiff, IdleRelease
<1>12. CASE UNCHANGED vars
  BY <1>1, <1>12 DEF vars, taskVars
<1>. QED BY <1>4, <1>5, <1>6, <1>7, <1>8, <1>9, <1>10, <1>11, <1>12, <1>14, <1>16 DEF Next

\* A step keeps the links of every code file those of its text and of the stored ideas,
\* or leaves its change on its way.
LEMMA LinksStep ==
    ASSUME Undisturbed, TaskInv, Steady, HandedOn, NoneBefore, Rooted, LinkInv, NoneDeleted,
           Deletable \subseteq CodeFiles, [Next]_vars
    PROVE  LinkInv'
<1>. USE DEF runtimeVars
<1>0. TypeOK /\ AtHead /\ QueueType /\ RowsTyped
  BY TypeParts, TypedRows DEF TaskInv
<1>1. ASSUME NEW f \in Files, Edit(f)
      PROVE  LinkInv'
  BY <1>0, <1>1, EditLinks
<1>2. ASSUME UNCHANGED <<reports, handler, queue>>
      PROVE  \A c \in Files : Pending(c) => Pending(c)'
  BY <1>2 DEF Pending
<1>3. ASSUME NEW f \in Files, SyncFile(f)
      PROVE  LinkInv'
  <2>1. EditsReported /\ UNCHANGED <<handler, queue>>
    BY <1>3 DEF SyncFile
  <2>2. \A c \in Files : (Pending(c) => Pending(c)') /\ (disk'[c] # disk[c] => Pending(c)')
    BY <2>1 DEF Pending, EditsReported
  <2>3. CASE IndexFile(f)
    <3>1. CatalogIsTable' /\ IdeasThere' /\ CallLinks(f)
      BY <2>3, <1>0, FileLinks
    <3>2. \A c \in CodeFiles : LinksSeen(c)
      BY <3>1, <2>2 DEF CallLinks, LinksSeen, Files
    <3>. QED BY <3>1, <3>2, LinksKept DEF LinkInv
  <2>. QED BY <1>3, <2>2, <2>3, SameLinks DEF SyncFile
<1>4. ASSUME NEW f \in Files, f = Head(queue).file, queue # <<>>, Dequeue(FALSE),
             EditsReported, UNCHANGED handler, CatalogIsTable', IdeasThere', CallLinks(f)
      PROVE  LinkInv'
  <2>1. ASSUME NEW c \in CodeFiles
        PROVE  LinksSeen(c)
    <3>1. c \in Files
      BY DEF Files
    <3>2. CASE disk'[c] # disk[c]
      BY <3>1, <3>2, <1>4 DEF EditsReported, LinksSeen, Pending
    <3>3. CASE c # f /\ SameLinksOf(c)
      <4>1. Pending(c) => Pending(c)'
        BY <3>3, <1>0, <1>4, PendingBehind DEF QueueType, Dequeue, EditsReported
      <4>. QED BY <3>3, <4>1 DEF LinksSeen
    <3>. QED BY <3>2, <3>3, <1>4 DEF CallLinks, LinksSeen
  <2>. QED BY <2>1, <1>4, LinksKept DEF LinkInv
<1>5. CASE EndIndex
  <2>1. queue # <<>> /\ Head(queue).file \in Files /\ sqlite /\ Live(work.gen)
    BY <1>0, <1>5, OpenAtWork, HeadIsChange DEF EndIndex, AtHead, QueueType, Steady
  <2>2. PICK f \in Files : f = Head(queue).file
    BY <2>1
  <2>3. IndexFile(f) /\ Dequeue(FALSE) /\ EditsReported /\ UNCHANGED handler
    BY <1>5, <2>1, <2>2 DEF EndIndex
  <2>4. CatalogIsTable' /\ IdeasThere' /\ CallLinks(f)
    BY <2>3, <1>0, FileLinks
  <2>. QED BY <2>1, <2>2, <2>3, <2>4, <1>4
<1>6. CASE Delete
  <2>1. UNCHANGED <<disk, catalog, reports, handler>> /\ queue # <<>> /\ Dequeue(FALSE)
    BY <1>6 DEF Delete, Undisturbed, Turn
  <2>2. Head(queue).file \in Files /\ 1 \in DOMAIN queue /\ Head(queue) = queue[1]
    BY <1>0, <1>6, HeadIsChange DEF Delete, Turn, QueueType
  <2>3. Head(queue).file \notin RqFiles
    BY <1>6, <2>2 DEF Delete, Turn, NoneDeleted
  <2>4. \A i \in ideas : i[1] # Head(queue).file
    BY <2>3, <1>0 DEF RowsTyped, StoreType, Ideas
  <2>5. EditsReported
    BY <2>1 DEF EditsReported
  <2>6. CASE RemoveDocument(Head(queue).file)
    <3>1. PICK f \in Files : f = Head(queue).file
      BY <2>2
    <3>2. ideas' = ideas /\ IdeasThere' /\ CallLinks(f)
      BY <1>0, <2>1, <2>4, <2>6, <3>1, RemovedLinks
    <3>. QED BY <2>1, <2>5, <3>1, <3>2, <1>4 DEF LinkInv, CatalogIsTable
  <2>7. CASE ~ sqlite /\ UNCHANGED storeVars
    <3>1. \A c \in CodeFiles : ~ IsCurrent(c)'
      <4>1. \A c \in CodeFiles : docs'[c] = -1 /\ disk'[c].mtime \in Nat
        BY <1>0, <2>1, <2>7 DEF Steady, NoneBefore, storeVars, Files, NoRow,
                                RowsTyped, DiskType, FileStates
      <4>. QED BY <4>1 DEF IsCurrent
    <3>2. IdeasThere' /\ CatalogIsTable'
      BY <2>1, <2>7 DEF LinkInv, IdeasThere, CatalogIsTable, storeVars
    <3>. QED BY <3>1, <3>2 DEF LinkInv, LinksTold
  <2>. QED BY <1>6, <2>6, <2>7 DEF Delete, Undisturbed
<1>7. CASE RebuildClear
  <2>1. UNCHANGED <<disk, catalog, reports, handler, queue>> /\ (UNCHANGED storeVars \/ ClearAll)
    BY <1>7 DEF RebuildClear
  <2>2. ~ catalog.on
    BY <1>7 DEF RebuildClear, TaskInv, LifeInv, RebuildAlone, CatalogOfPass, PassLive, InFlight
  <2>3. CASE ClearAll
    <3>1. \A c \in CodeFiles : ~ IsCurrent(c)'
      <4>1. \A c \in CodeFiles : docs'[c] = -1 /\ disk'[c].mtime \in Nat
        BY <1>0, <2>1, <2>3 DEF ClearAll, NoRow, Files, RowsTyped, DiskType, FileStates
      <4>. QED BY <4>1 DEF IsCurrent
    <3>2. IdeasThere' /\ CatalogIsTable'
      BY <2>1, <2>2, <2>3 DEF ClearAll, IdeasThere, CatalogIsTable
    <3>. QED BY <3>1, <3>2 DEF LinkInv, LinksTold
  <2>. QED BY <2>1, <2>3, <1>2, SameLinks
<1>8. CASE Skipped
  BY <1>8 DEF Skipped, Steady
<1>9. CASE DropIndex
  <2>1. fsm \in {"uninitialized", "opening"} /\ UNCHANGED <<storeVars, disk, catalog>>
    BY <1>9, DroppedEarly DEF DropIndex
  <2>2. \A c \in CodeFiles : docs'[c] = -1 /\ disk'[c].mtime \in Nat
    BY <2>1, <1>0 DEF NoneBefore, storeVars, Files, NoRow, RowsTyped, DiskType, FileStates
  <2>3. \A c \in CodeFiles : ~ IsCurrent(c)'
    BY <2>2 DEF IsCurrent
  <2>. QED BY <2>1, <2>3 DEF LinkInv, LinksTold, CatalogIsTable, IdeasThere, storeVars
<1>10. CASE \/ OpenEnds \/ Report \/ \E f \in Files : Enqueue(f)
  <2>1. UNCHANGED <<storeVars, disk, catalog>>
    BY <1>10 DEF OpenEnds, Report, Enqueue, OpenStarts
  <2>2. \A c \in Files : Pending(c) => Pending(c)'
    BY <1>0, <1>10, HandedOver
  <2>. QED BY <2>1, <2>2, SameLinks
<1>11. CASE WaitForSync \/ BeginIndex
  BY <1>2, <1>11, SameLinks DEF WaitForSync, BeginIndex
<1>12. CASE SyncEnds \/ PollEnds \/ Cancel
  BY <1>2, <1>12, SameLinks DEF SyncEnds, PollEnds, Cancel, NoCatalog
<1>13. ASSUME NEW list, SyncCall(list)
      PROVE  UNCHANGED catalog \/ catalog'.ideas = ideas
  BY <1>13 DEF SyncCall
<1>14. CASE EnsureStart \/ EnsureSync
  BY <1>2, <1>13, <1>14, SameLinks DEF EnsureStart, EnsureSync, OpenStarts
<1>15. CASE RebuildStart \/ RebuildFails \/ RebuildSync
  BY <1>2, <1>13, <1>15, SameLinks DEF RebuildStart, RebuildFails, RebuildSync
<1>16. CASE IdleStart \/ IdleDiff \/ IdleRelease
  BY <1>2, <1>13, <1>16, SameLinks DEF IdleStart, IdleDiff, IdleRelease, NoCatalog
<1>17. CASE UNCHANGED vars
  BY <1>2, <1>17, SameLinks DEF vars, taskVars
<1>. QED BY <1>1, <1>3, <1>5, <1>6, <1>7, <1>8, <1>9, <1>10, <1>11, <1>12, <1>14, <1>15,
            <1>16, <1>17 DEF Next

\* The links of an empty index.
LEMMA LinksInit == Init => LinkInv /\ NoneDeleted
<1>. SUFFICES ASSUME Init
              PROVE  LinkInv /\ NoneDeleted
  OBVIOUS
<1>1. \A f \in Files : docs[f] = -1 /\ disk[f].mtime = 1
  BY DEF Init, StoreInit, NoRow
<1>2. ideas = {} /\ ~ catalog.on
  BY DEF Init, StoreInit, NoCatalog
<1>3. LinksTold
  BY <1>1 DEF LinksTold, IsCurrent, Files
<1>4. NoneDeleted
  BY DEF Init, NoneDeleted, Files
<1>. QED BY <1>2, <1>3, <1>4 DEF LinkInv, CatalogIsTable, IdeasThere

\* With a database that works and an index that is not released, and where `.rq` files
\* are not deleted, the links of a code file that the tables call current are those its
\* comments make to the stored ideas, or a change of the file is on its way, at every
\* moment: the catalog of a pass cannot miss an idea, each change of names has every
\* code document read again, and who edits a file while it is read is reported.
THEOREM LinksToldTrue ==
    ASSUME ~ MayFail, Commands \cap {"idle", "late"} = {}, Deletable \subseteq CodeFiles
    PROVE  Spec => []LinksTold
<1>1. Undisturbed
  BY DEF Undisturbed
<1>2. Init => LinkInv /\ NoneDeleted
  BY LinksInit
<1>3. /\ TaskInv /\ ChangeInv /\ Rooted /\ LinkInv /\ NoneDeleted /\ [Next]_vars
      => LinkInv' /\ NoneDeleted'
  BY <1>1, LinksStep, NoneDeletedStep DEF TaskInv, ChangeInv
<1>4. LinkInv => LinksTold
  BY DEF LinkInv
<1>. QED BY <1>1, <1>2, <1>3, <1>4, TaskInvariant, ChangeInvariant, RowsRooted, PTL DEF Spec

\* So they are exact once all is quiet.
THEOREM LinksTrueAtRest ==
    ASSUME ~ MayFail, Commands \cap {"idle", "late"} = {}, Deletable \subseteq CodeFiles
    PROVE  Spec => []LinksExactAtRest
<1>1. LinksTold => LinksExactAtRest
  <2>. SUFFICES ASSUME LinksTold, AtRest, NEW c \in CodeFiles, IsCurrent(c)
                PROVE  LinksExact(c)
    BY DEF LinksExactAtRest
  <2>1. ~ Pending(c)
    BY DEF Pending, AtRest, Quiet, UnderWay, Files
  <2>. QED BY <2>1 DEF LinksTold
<1>. QED BY <1>1, LinksToldTrue, PTL

(***************************************************************************)
(* Nobody waits for nothing                                                *)
(***************************************************************************)
\* Who waits for a pass has one in flight, and who waits for the index to open, an open.
Awaited ==
    /\ \/ work.pc = "waiting" \/ ensure = "waiting" \/ idle.pc = "waiting"
       \/ rebuild.pc \in {"waiting", "syncing"}
       => InFlight
    /\ ensure = "opening" \/ (\E f \in Files : handler[f] = "opening") => opened # "none"

\* No task can go on, and no pass or idle check is under way.
NothingMoves == ~ Runnable /\ ~ InFlight /\ idle.pc # "diff"

\* Then nothing that was begun is left undone.
AllSettled ==
    /\ queue = <<>> /\ fsm # "syncing" /\ opened = "none"
    /\ \A f \in Files : handler[f] = "none"
    /\ ensure \in {"none", "done", "failed"}
    /\ rebuild.pc \in {"none", "done", "failed"}
    /\ idle.pc = "none"

\* Who calls for a pass has one, or is told at once that there is none.
LEMMA CallAwaited ==
    ASSUME NEW list, SyncCall(list)
    PROVE  /\ InFlight => InFlight'
           /\ \A pending : Awaiting(pending) = "failed" \/ InFlight'
BY DEF SyncCall, InFlight, Awaiting, NoSync

LEMMA AwaitedStep ==
    ASSUME TypeOK, Awaited, [Next]_vars
    PROVE  Awaited'
<1>. USE DEF runtimeVars, Awaited
<1>0. TypeOK /\ QueueType /\ LifeType /\ PassType
  BY TypeParts
<1>1. ASSUME UNCHANGED <<work, ensure, idle, rebuild, handler, opened>>, InFlight => InFlight'
      PROVE  Awaited'
  BY <1>1
<1>2. CASE OpenEnds
  <2>1. UNCHANGED <<work, sync, rebuild, idle>> /\ opened' = "none"
        /\ ensure' = (IF ensure = "opening" THEN "opened" ELSE ensure)
        /\ \A f \in Files : handler'[f] # "opening"
    BY <1>2 DEF OpenEnds
  <2>. QED BY <2>1 DEF InFlight
<1>3. ASSUME NEW f \in Files, Edit(f) \/ SyncFile(f)
      PROVE  Awaited'
  BY <1>0, <1>1, <1>3 DEF Edit, SyncFile, InFlight, PassType, SyncStates
<1>4. ASSUME NEW f \in Files, Enqueue(f)
      PROVE  Awaited'
  <2>1. UNCHANGED <<work, sync, rebuild, idle, ensure, opened>>
        /\ \A g \in Files : handler'[g] = "opening" => handler[g] = "opening"
    BY <1>0, <1>4 DEF Enqueue, QueueType
  <2>. QED BY <2>1 DEF InFlight
<1>5. CASE Report
  <2>1. UNCHANGED <<work, sync, rebuild, idle, ensure>>
        /\ \/ opened' # "none"
           \/ /\ opened' = opened
              /\ \A g \in Files : handler'[g] = "opening" => handler[g] = "opening"
    BY <1>5 DEF Report, OpenStarts
  <2>. QED BY <2>1 DEF InFlight
<1>6. CASE Skipped \/ DropIndex \/ BeginIndex \/ EndIndex \/ Delete
  <2>1. UNCHANGED <<sync, rebuild, idle, ensure, handler, opened>> /\ work'.pc # "waiting"
    BY <1>6 DEF Skipped, DropIndex, BeginIndex, EndIndex, Delete, Dequeue
  <2>. QED BY <2>1 DEF InFlight
<1>7. CASE WaitForSync
  BY <1>7 DEF WaitForSync, InFlight
<1>8. CASE SyncEnds \/ PollEnds
  <2>1. UNCHANGED <<handler, opened>> /\ \E ok \in BOOLEAN : Wake(ok)
    BY <1>8 DEF SyncEnds, PollEnds, Live
  <2>2. PICK ok \in BOOLEAN : Wake(ok)
    BY <2>1
  <2>3. /\ work'.pc # "waiting" /\ ensure' # "waiting" /\ idle'.pc # "waiting"
        /\ rebuild'.pc \notin {"waiting", "syncing"}
        /\ ensure' = "opening" => ensure = "opening"
    BY <1>0, <2>2 DEF Wake, QueueType, LifeType, PassType
  <2>. QED BY <2>1, <2>3
<1>9. CASE Cancel
  BY <1>0, <1>9 DEF Cancel, InFlight, PassType
<1>10. CASE EnsureStart
  <2>1. UNCHANGED <<work, rebuild, idle, handler>>
        /\ (ensure' = "opening" => opened' # "none")
        /\ (opened' = opened \/ opened' # "none")
    BY <1>10 DEF EnsureStart, OpenStarts, Awaiting
  <2>2. (InFlight => InFlight') /\ (ensure' = "waiting" => InFlight')
    BY <1>10, CallAwaited DEF EnsureStart, InFlight
  <2>. QED BY <2>1, <2>2
<1>11. CASE EnsureSync
  <2>1. UNCHANGED <<work, rebuild, idle, handler, opened>> /\ ensure' # "opening"
    BY <1>11 DEF EnsureSync, Awaiting
  <2>2. (InFlight => InFlight') /\ (ensure' = "waiting" => InFlight')
    BY <1>11, CallAwaited DEF EnsureSync, InFlight
  <2>. QED BY <2>1, <2>2
<1>12. CASE RebuildStart
  <2>1. UNCHANGED <<work, ensure, idle, handler, opened>> /\ (InFlight => InFlight')
        /\ rebuild'.pc = (IF InFlight THEN "waiting" ELSE "woken")
    BY <1>0, <1>12 DEF RebuildStart, InFlight, PassType
  <2>. QED BY <2>1
<1>13. CASE RebuildClear \/ RebuildFails
  <2>1. UNCHANGED <<work, sync, ensure, idle, handler, opened>>
        /\ rebuild'.pc \notin {"waiting", "syncing"}
    BY <1>0, <1>13 DEF RebuildClear, RebuildFails, PassType, RebuildStates
  <2>. QED BY <2>1 DEF InFlight
<1>14. CASE RebuildSync
  <2>1. UNCHANGED <<work, ensure, idle, handler, opened>>
    BY <1>14 DEF RebuildSync
  <2>2. (InFlight => InFlight') /\ (rebuild'.pc \in {"waiting", "syncing"} => InFlight')
    BY <1>0, <1>14, CallAwaited DEF RebuildSync, PassType, RebuildStates
  <2>. QED BY <2>1, <2>2
<1>15. CASE IdleStart
  <2>1. UNCHANGED <<work, sync, ensure, rebuild, handler, opened>> /\ idle'.pc # "waiting"
    BY <1>15 DEF IdleStart
  <2>. QED BY <2>1 DEF InFlight
<1>16. CASE IdleDiff
  <2>1. UNCHANGED <<work, ensure, rebuild, handler, opened>>
    BY <1>16 DEF IdleDiff
  <2>2. (InFlight => InFlight') /\ (idle'.pc = "waiting" => InFlight')
    BY <1>0, <1>16, CallAwaited DEF IdleDiff, InFlight, PassType, IdleStates
  <2>. QED BY <2>1, <2>2
<1>17. CASE IdleRelease
  <2>1. UNCHANGED <<work, sync, ensure, rebuild, handler, opened>> /\ idle'.pc # "waiting"
    BY <1>17 DEF IdleRelease, NoIdle
  <2>. QED BY <2>1 DEF InFlight
<1>18. CASE UNCHANGED vars
  BY <1>1, <1>18 DEF vars, taskVars, InFlight
<1>. QED BY <1>2, <1>3, <1>4, <1>5, <1>6, <1>7, <1>8, <1>9, <1>10, <1>11, <1>12, <1>13, <1>14,
            <1>15, <1>16, <1>17, <1>18 DEF Next

\* When no task can go on and neither a pass nor an idle check is under way, the queue is
\* empty, the lifecycle is not "syncing" and whoever waited has been answered, whatever
\* failed, was cancelled or released (workspace-index.ts:473-521,
\* workspace-index-sync.ts:57): the tasks never wait for each other, or for a pass that
\* has ended.
THEOREM NobodyWaitsForNothing == Spec => [](NothingMoves => AllSettled)
<1>1. Init => Awaited
  BY DEF Init, Awaited, NoRebuild, NoIdle
<1>2. TaskInv /\ Awaited /\ [Next]_vars => Awaited'
  BY AwaitedStep DEF TaskInv
<1>3. TaskInv /\ Awaited => (NothingMoves => AllSettled)
  <2>. SUFFICES ASSUME TaskInv, Awaited, NothingMoves PROVE AllSettled
    OBVIOUS
  <2>0. QueueType /\ LifeType /\ PassType /\ TypeOK
    BY TypeParts DEF TaskInv
  <2>1. /\ opened = "none" /\ (\A f \in Files : handler[f] # "opened") /\ ensure # "opened"
        /\ rebuild.pc \notin {"woken", "cleared"} /\ idle.pc # "woken"
        /\ work.pc # "waiting" /\ queue = <<>>
    BY DEF NothingMoves, Runnable, Awaited
  <2>2. \A f \in Files : handler[f] = "none"
    BY <2>0, <2>1 DEF Awaited, TypeOK
  <2>3. ensure \in {"none", "done", "failed"} /\ rebuild.pc \in {"none", "done", "failed"}
        /\ idle.pc = "none"
    BY <2>0, <2>1 DEF Awaited, TypeOK, NothingMoves
  <2>4. fsm # "syncing"
    BY <2>1 DEF TaskInv, LifeInv, Owned, AtHead, PassLive, WorkLive, NothingMoves, InFlight
  <2>. QED BY <2>1, <2>2, <2>3, <2>4 DEF AllSettled
<1>. QED BY <1>1, <1>2, <1>3, TaskInvariant, PTL DEF Spec
================================================================================
