--------------------------- MODULE NativeSyncProps ---------------------------
(***************************************************************************)
(* What makes the native sync correct: the ideas database never lies about *)
(* a file it calls current, and every pass left alone brings it up to date. *)
(***************************************************************************)
EXTENDS NativeSync

Idle == \A p \in Procs : At(p, "idle")

\* The row of f says that f was indexed as it now is.
Current(f) == IsText(f) /\ docs[f] = disk[f].mtime

\* A `.rq` file whose stored mtime is the file's own has exactly the ideas the
\* file declares.  Later passes skip such a file (sync.rs:268-281), so a wrong
\* row would stay wrong.  Only while a clear has deleted the ideas and not yet
\* the documents (store_ops.rs:331) is the database allowed to say otherwise.
MtimeHonest ==
    (\A p \in Procs : ~ At(p, "clearDocs")) =>
        \A f \in RqFiles : Current(f) => NamesIn(f, ideas) = disk[f].body

\* A code file whose stored mtime is its own has no comment link that its
\* comments do not make, whatever was renamed meanwhile and by which process.
NoPhantomLink ==
    \A c \in CodeFiles : Current(c) =>
        LinksOf(c) \subseteq LinkRows(c, Resolve(disk[c].body, ideas))

\* Between passes, a code file whose stored mtime is its own has every link its
\* comments make to the stored ideas: later passes will skip it, so a name that
\* appeared in a `.rq` file must have reached it in the pass that stored it
\* (sync.rs:333, 346, 574).
LinksExact ==
    Idle => \A c \in CodeFiles : Current(c) =>
        LinksOf(c) = LinkRows(c, Resolve(disk[c].body, ideas))

\* No idea and no link without the documents row it came from, at any step of a
\* pass and wherever it is cut off: rows are found again only by their document
\* (store_ops.rs:336), so one without it could never be removed.
RowsRooted ==
    /\ \A i \in ideas : docs[i[1]] # NoRow
    /\ \A l \in links : docs[l[3]] # NoRow /\ <<l[1], l[2]>> \in ideas

\* With one process, the catalog kept in memory over a pass stays equal to the
\* ideas table, so no link ever fails its foreign key (sync.rs:311-334).
CatalogMirrorsStore ==
    \A p \in Procs :
        pass[p].pc \in {"rq", "readRq", "compare", "saveRq",
                        "code", "readCode", "saveCode"}
            => pass[p].catalog = ideas

\* The database describes the base: every readable file as it is, and no code
\* file that is gone.  (`.rq` documents of deleted files are not removed by a
\* pass: they wait for the editor's watcher.)
InSync ==
    /\ \A f \in RqFiles : IsText(f) => Current(f) /\ NamesIn(f, ideas) = disk[f].body
    /\ \A c \in CodeFiles :
          IF IsText(c)
          THEN Current(c) /\ LinksOf(c) = LinkRows(c, Resolve(disk[c].body, ideas))
          ELSE docs[c] = NoRow /\ LinksOf(c) = {}

Finishing == \E p \in Procs : Finish(p)

NoHardPass == \A p \in Procs : pass[p].kind # "hard"

\* If soft passes keep being run to their end, the database comes to describe
\* the base and stays so: a change that one pass misses, because it came while
\* the file was read or listed, is picked up by a later one.
Converges == []<><<Finishing>>_vars /\ <>[]NoHardPass => <>[]InSync

\* A pass that was started ends: no file is processed for ever, and no check
\* leaves the pass waiting (sync.rs:224-357).
PassEnds == \A p \in Procs : ~ At(p, "idle") ~> At(p, "idle")

\* `index_paths` is given a list of files and leaves the others alone: it
\* deletes no document of a file that is on disk and readable (sync.rs:359).
PathsPruneNothingReadable ==
    [][\A p \in Procs : Prune(p) /\ pass[p].kind = "paths" =>
          \A c \in CodeFiles : IsText(c) /\ docs[c] # NoRow => docs'[c] # NoRow]_vars
=============================================================================
