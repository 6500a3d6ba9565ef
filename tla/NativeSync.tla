----------------------------- MODULE NativeSync -----------------------------
(***************************************************************************)
(* The native sync pass: `sync_workspace` and `index_paths` of             *)
(* crates/reqlan-index/src/sync.rs, run by one or more processes (a CLI, an *)
(* MCP server, the native part of the editor) on one ideas database, while *)
(* a user edits the files it indexes.                                      *)
(*                                                                         *)
(* A pass is not atomic.  It walks the tree, reads the stored mtimes, loads *)
(* the idea catalog, then for each `.rq` file stats, reads, compares and   *)
(* persists it, then the same for each code file against the catalog, then *)
(* deletes the code documents it did not meet, then stamps the database    *)
(* with the version of its extractor.  Each of these is a step here; edits *)
(* and the other processes' steps come between, and a pass may end early:  *)
(* by a store error, by cancellation or because its process dies.          *)
(*                                                                         *)
(* Abstractions.  A file's text is the set of idea names it declares (`.rq`)*)
(* or of references its comments make (code).  Wildcard references, whose  *)
(* edges belong to the `.rq` file, are left out, so the order of the files *)
(* inside a phase is free.  A file that is binary, too large or not UTF-8  *)
(* is "skip".                                                              *)
(***************************************************************************)
EXTENDS IdeaStore

CONSTANTS
    Procs,        \* processes that share the database
    Kinds,        \* the passes they run: a subset of {"soft", "hard", "paths"}
    RqBodies,     \* the sets of names an edit may give a `.rq` file
    CodeBodies,   \* the sets of references an edit may give a code file
    MaxMtime,     \* bound: edits of one file
    MaxBuild,     \* bound: versions of the extractor, numbered from 1
    InterruptAt,  \* the steps at which a pass may be cut off
    RacyWrites,   \* TRUE: a write may leave the mtime as it was
    MayFail,      \* TRUE: persisting a `.rq` document may fail (a busy database)
    MayCancel     \* TRUE: the cancel flag of a pass may be set

PCs == {"idle", "clearEdges", "clearIdeas", "clearDocs", "scan", "mtimes",
        "catalog", "rq", "readRq", "compare", "saveRq", "code", "readCode",
        "saveCode", "prune", "stamp"}

ASSUME SyncAssumption ==
    /\ Kinds \subseteq {"soft", "hard", "paths"}
    /\ RqBodies \subseteq SUBSET Names
    /\ CodeBodies \subseteq SUBSET Refs
    /\ MaxMtime \in Nat /\ MaxBuild \in Nat
    /\ InterruptAt \subseteq PCs \ {"idle"}
    /\ {RacyWrites, MayFail, MayCancel} \subseteq BOOLEAN

VARIABLES
    disk,   \* disk[f]: the file's kind, mtime and text
    build,  \* EXTRACT_VERSION of the installed program
    pass    \* pass[p]: the locals of the pass that p is running

syncVars == <<disk, build, pass>>
vars     == <<storeVars, syncVars>>

Bodies(f) == IF f \in RqFiles THEN RqBodies ELSE CodeBodies

NoFile == "none"

FileStates == [kind : {"absent", "skip", "text"}, mtime : Nat \ {0},
               body : SUBSET (Names \cup Refs)]

Passes == [pc : PCs, kind : {"soft", "hard", "paths"}, todo : SUBSET Files,
           stored : [Files -> Int], catalog : SUBSET Ideas, relink : BOOLEAN,
           keep : SUBSET CodeFiles, file : Files \cup {NoFile}, mtime : Int,
           body : SUBSET (Names \cup Refs), changed : BOOLEAN]

NoPass == [pc |-> "idle", kind |-> "soft", todo |-> {},
           stored |-> [f \in Files |-> NoRow], catalog |-> {},
           relink |-> FALSE, keep |-> {}, file |-> NoFile, mtime |-> NoMtime,
           body |-> {}, changed |-> FALSE]

TypeOK == /\ StoreType
          /\ disk \in [Files -> FileStates]
          /\ build \in Nat
          /\ pass \in [Procs -> Passes]

\* Before the first pass a file is there or not.
FirstStates(f) ==
    {[kind |-> "absent", mtime |-> 1, body |-> {}]}
        \cup {[kind |-> "text", mtime |-> 1, body |-> b] : b \in Bodies(f)}

Init == /\ StoreInit
        /\ disk \in [Files -> UNION {FirstStates(f) : f \in Files}]
        /\ \A f \in Files : disk[f] \in FirstStates(f)
        /\ build = 1
        /\ pass = [p \in Procs |-> NoPass]

-----------------------------------------------------------------------------
(* The user *)

Present(f) == disk[f].kind # "absent"
IsText(f)  == disk[f].kind = "text"

\* file_mtime_ms: None when the file cannot be statted.
Stat(f) == IF Present(f) THEN disk[f].mtime ELSE NoMtime

\* A write, a deletion or a replacement by something that is not text.
Edit(f) ==
    /\ \E kind \in {"absent", "skip", "text"}, m \in {disk[f].mtime, disk[f].mtime + 1} :
       \E body \in (IF kind = "text" THEN Bodies(f) ELSE {{}}) :
          /\ m = disk[f].mtime => RacyWrites
          /\ m <= MaxMtime
          /\ disk' = [disk EXCEPT ![f] = [kind |-> kind, mtime |-> m, body |-> body]]
    /\ UNCHANGED <<storeVars, build, pass>>

\* A new version of the program is installed, while none of it runs.
Upgrade ==
    /\ build < MaxBuild
    /\ \A p \in Procs : pass[p].pc = "idle"
    /\ build' = build + 1
    /\ UNCHANGED <<storeVars, disk, pass>>

-----------------------------------------------------------------------------
(* Opening a pass *)

At(p, pc) == pass[p].pc = pc

Goto(p, pc) == pass' = [pass EXCEPT ![p].pc = pc]

End(p) == pass' = [pass EXCEPT ![p] = NoPass]

\* The locals `r` after an iteration: those of the file are out of scope.
AfterFile(r, pc) == [r EXCEPT !.pc = pc, !.file = NoFile, !.mtime = NoMtime,
                              !.body = {}, !.changed = FALSE]

NextFile(p, pc) == pass' = [pass EXCEPT ![p] = AfterFile(@, pc)]

\* Reading extract_version decides whether the database is cleared first.
\* index_paths reads no version.
Begin(p, kind) ==
    /\ At(p, "idle")
    /\ LET stale == kind # "paths" /\ version # build
           clear == kind = "hard" \/ stale
       IN  pass' = [pass EXCEPT ![p] =
             [@ EXCEPT !.pc = IF clear THEN "clearEdges" ELSE "scan",
                       !.kind = kind,
                       !.relink = clear,
                       !.keep = {}]]
    /\ UNCHANGED <<storeVars, disk, build>>

\* Mutant of ClearStep: the documents are deleted first.
ClearStepDocsFirst(p) ==
    /\ \/ At(p, "clearEdges") /\ ClearDocuments /\ Goto(p, "clearIdeas")
       \/ At(p, "clearIdeas") /\ ClearEdges     /\ Goto(p, "clearDocs")
       \/ At(p, "clearDocs")  /\ ClearIdeas     /\ Goto(p, "scan")
    /\ UNCHANGED <<disk, build>>

ClearStep(p) ==
    /\ \/ At(p, "clearEdges") /\ ClearEdges     /\ Goto(p, "clearIdeas")
       \/ At(p, "clearIdeas") /\ ClearIdeas     /\ Goto(p, "clearDocs")
       \/ At(p, "clearDocs")  /\ ClearDocuments /\ Goto(p, "scan")
    /\ UNCHANGED <<disk, build>>

\* The directory walk, or the part of the given path list that is on disk.
Scan(p) ==
    /\ At(p, "scan")
    /\ LET found == {f \in Files : Present(f)}
       IN  \E listed \in SUBSET found :
             /\ pass[p].kind # "paths" => listed = found
             /\ pass' = [pass EXCEPT ![p].todo = listed, ![p].pc = "mtimes"]
    /\ UNCHANGED <<storeVars, disk, build>>

ReadMtimes(p) ==
    /\ At(p, "mtimes")
    /\ pass' = [pass EXCEPT ![p].stored = docs, ![p].pc = "catalog"]
    /\ UNCHANGED <<storeVars, disk, build>>

LoadCatalog(p) ==
    /\ At(p, "catalog")
    /\ pass' = [pass EXCEPT ![p].catalog = ideas, ![p].pc = "rq"]
    /\ UNCHANGED <<storeVars, disk, build>>

-----------------------------------------------------------------------------
(* The `.rq` files *)

\* Mutant of Unchanged: any file with a row counts as unchanged.
UnchangedIfStored(p, f) == pass[p].stored[f] # NoRow /\ Stat(f) # NoMtime

\* mtime_unchanged: a missing mtime on either side never matches.
Unchanged(p, f) == Stat(f) = pass[p].stored[f] /\ Stat(f) # NoMtime

Drop(p, f, pc) ==
    pass' = [pass EXCEPT ![p].todo = @ \ {f}, ![p].pc = pc]

SkipRq(p) ==
    /\ At(p, "rq")
    /\ \E f \in pass[p].todo \cap RqFiles :
          /\ pass[p].kind # "hard" /\ Unchanged(p, f)
          /\ Drop(p, f, "rq")
    /\ UNCHANGED <<storeVars, disk, build>>

\* The mtime is taken BEFORE the text is read.
StatRq(p) ==
    /\ At(p, "rq")
    /\ \E f \in pass[p].todo \cap RqFiles :
          /\ ~ (pass[p].kind # "hard" /\ Unchanged(p, f))
          /\ pass' = [pass EXCEPT ![p].todo = @ \ {f}, ![p].file = f,
                                  ![p].mtime = Stat(f), ![p].pc = "readRq"]
    /\ UNCHANGED <<storeVars, disk, build>>

\* Mutant of ReadRq: an unreadable file is tried again.
ReadRqRetries(p) ==
    /\ At(p, "readRq")
    /\ IsText(pass[p].file)
    /\ pass' = [pass EXCEPT ![p].body = disk[pass[p].file].body, ![p].pc = "compare"]
    /\ UNCHANGED <<storeVars, disk, build>>

\* An unreadable file keeps the rows it had.
ReadRq(p) ==
    /\ At(p, "readRq")
    /\ IF IsText(pass[p].file)
       THEN pass' = [pass EXCEPT ![p].body = disk[pass[p].file].body,
                                 ![p].pc = "compare"]
       ELSE NextFile(p, "rq")
    /\ UNCHANGED <<storeVars, disk, build>>

\* idea_names_change: the names in the database against the names extracted.
CompareNames(p) ==
    /\ At(p, "compare")
    /\ pass' = [pass EXCEPT
          ![p].changed = NamesIn(pass[p].file, ideas) # pass[p].body,
          ![p].pc = "saveRq"]
    /\ UNCHANGED <<storeVars, disk, build>>

\* Mutant of SaveRq: a change of names is not remembered for the code files.
SaveRqForgetsRelink(p) ==
    /\ At(p, "saveRq")
    /\ LET f == pass[p].file
       IN  /\ PersistIdeas(f, pass[p].body, pass[p].mtime)
           /\ pass' = [pass EXCEPT ![p] =
                 [AfterFile(pass[p], "rq") EXCEPT
                    !.catalog = {i \in pass[p].catalog : i[1] # f}
                                   \cup ({f} \X pass[p].body)]]
    /\ UNCHANGED <<disk, build>>

\* Mutant of SaveRq: the names the file had before stay in the catalog.
SaveRqKeepsPrior(p) ==
    /\ At(p, "saveRq")
    /\ LET f == pass[p].file
       IN  /\ PersistIdeas(f, pass[p].body, pass[p].mtime)
           /\ pass' = [pass EXCEPT ![p] =
                 [AfterFile(pass[p], "rq") EXCEPT
                    !.catalog = pass[p].catalog \cup ({f} \X pass[p].body),
                    !.relink = pass[p].relink \/ pass[p].changed]]
    /\ UNCHANGED <<disk, build>>

\* Mutant of SaveRq: the mtime stored is the one the file has by now.
SaveRqStatsLate(p) ==
    /\ At(p, "saveRq")
    /\ LET f == pass[p].file
       IN  /\ PersistIdeas(f, pass[p].body, Stat(f))
           /\ pass' = [pass EXCEPT ![p] =
                 [AfterFile(pass[p], "rq") EXCEPT
                    !.catalog = {i \in pass[p].catalog : i[1] # f}
                                   \cup ({f} \X pass[p].body),
                    !.relink = pass[p].relink \/ pass[p].changed]]
    /\ UNCHANGED <<disk, build>>

SaveRq(p) ==
    /\ At(p, "saveRq")
    /\ LET f == pass[p].file
       IN  /\ PersistIdeas(f, pass[p].body, pass[p].mtime)
           /\ pass' = [pass EXCEPT ![p] =
                 [AfterFile(pass[p], "rq") EXCEPT
                    !.catalog = {i \in pass[p].catalog : i[1] # f}
                                   \cup ({f} \X pass[p].body),
                    !.relink = pass[p].relink \/ pass[p].changed]]
    /\ UNCHANGED <<disk, build>>

\* The pass goes on, with the catalog as it was.
SaveRqFails(p) ==
    /\ MayFail
    /\ At(p, "saveRq")
    /\ NextFile(p, "rq")
    /\ UNCHANGED <<storeVars, disk, build>>

RqDone(p) ==
    /\ At(p, "rq")
    /\ pass[p].todo \cap RqFiles = {}
    /\ Goto(p, "code")
    /\ UNCHANGED <<storeVars, disk, build>>

-----------------------------------------------------------------------------
(* The code files *)

SkipCode(p) ==
    /\ At(p, "code")
    /\ \E c \in pass[p].todo \cap CodeFiles :
          /\ ~ pass[p].relink /\ Unchanged(p, c)
          /\ pass' = [pass EXCEPT ![p].todo = @ \ {c}, ![p].keep = @ \cup {c}]
    /\ UNCHANGED <<storeVars, disk, build>>

StatCode(p) ==
    /\ At(p, "code")
    /\ \E c \in pass[p].todo \cap CodeFiles :
          /\ pass[p].relink \/ ~ Unchanged(p, c)
          /\ pass' = [pass EXCEPT ![p].todo = @ \ {c}, ![p].file = c,
                                  ![p].mtime = Stat(c), ![p].pc = "readCode"]
    /\ UNCHANGED <<storeVars, disk, build>>

\* A code file that cannot be read is not kept: its row will be pruned.
ReadCode(p) ==
    /\ At(p, "readCode")
    /\ IF IsText(pass[p].file)
       THEN pass' = [pass EXCEPT ![p].body = disk[pass[p].file].body,
                                 ![p].pc = "saveCode"]
       ELSE NextFile(p, "code")
    /\ UNCHANGED <<storeVars, disk, build>>

CodeTargets(p) == Resolve(pass[p].body, pass[p].catalog)

SaveCode(p) ==
    /\ At(p, "saveCode")
    /\ LET c == pass[p].file
       IN  /\ PersistLinks(c, CodeTargets(p), pass[p].mtime)
           /\ pass' = [pass EXCEPT ![p] =
                 [AfterFile(pass[p], "code") EXCEPT !.keep = pass[p].keep \cup {c}]]
    /\ UNCHANGED <<disk, build>>

\* A link to an idea another process has deleted since: the error ends the pass.
SaveCodeAborts(p) ==
    /\ At(p, "saveCode")
    /\ ~ ForeignKeysHold(CodeTargets(p))
    /\ End(p)
    /\ UNCHANGED <<storeVars, disk, build>>

\* The documents to prune are listed once, then deleted one by one.
CodeDone(p) ==
    /\ At(p, "code")
    /\ pass[p].todo = {}
    /\ pass' = [pass EXCEPT ![p].todo = CodeDocuments \ pass[p].keep,
                            ![p].pc = "prune"]
    /\ UNCHANGED <<storeVars, disk, build>>

Prune(p) ==
    /\ At(p, "prune")
    /\ \E c \in pass[p].todo :
          /\ RemoveDocument(c)
          /\ Drop(p, c, "prune")
    /\ UNCHANGED <<disk, build>>

PruneDone(p) ==
    /\ At(p, "prune")
    /\ pass[p].todo = {}
    /\ Goto(p, "stamp")
    /\ UNCHANGED <<storeVars, disk, build>>

\* sync_workspace stamps the database; index_paths does not.
Finish(p) ==
    /\ At(p, "stamp")
    /\ IF pass[p].kind = "paths" THEN UNCHANGED storeVars
                                 ELSE SetExtractVersion(build)
    /\ End(p)
    /\ UNCHANGED <<disk, build>>

-----------------------------------------------------------------------------
(* Early ends *)

\* The flag is looked at between files.  A pass cancelled among the code files
\* prunes nothing but is stamped all the same.
Cancel(p) ==
    /\ MayCancel
    /\ \/ At(p, "rq")   /\ pass[p].todo \cap RqFiles # {} /\ End(p)
       \/ At(p, "code") /\ pass[p].todo # {}              /\ Goto(p, "stamp")
    /\ UNCHANGED <<storeVars, disk, build>>

\* The process dies, or a store call it makes with `?` fails.
Interrupt(p) ==
    /\ pass[p].pc \in InterruptAt
    /\ End(p)
    /\ UNCHANGED <<storeVars, disk, build>>

-----------------------------------------------------------------------------

PassStep(p) ==
    \/ ClearStep(p) \/ Scan(p) \/ ReadMtimes(p) \/ LoadCatalog(p)
    \/ SkipRq(p) \/ StatRq(p) \/ ReadRq(p) \/ CompareNames(p)
    \/ SaveRq(p) \/ SaveRqFails(p) \/ RqDone(p)
    \/ SkipCode(p) \/ StatCode(p) \/ ReadCode(p) \/ SaveCode(p)
    \/ SaveCodeAborts(p) \/ CodeDone(p) \/ Prune(p) \/ PruneDone(p) \/ Finish(p)

Next == \/ \E f \in Files : Edit(f)
        \/ Upgrade
        \/ \E p \in Procs :
              \/ \E kind \in Kinds : Begin(p, kind)
              \/ PassStep(p)
              \/ Cancel(p)
              \/ Interrupt(p)

Spec == Init /\ [][Next]_vars

\* A process that runs a pass is scheduled; nothing makes anyone start one.
Fairness == \A p \in Procs : WF_vars(PassStep(p))

FairSpec == Spec /\ Fairness
=============================================================================
