----------------------------- MODULE EditorRenames -----------------------------
(***************************************************************************)
(* Renaming `.rq` files in the explorer: the mutation hooks                *)
(* (register-file-mutation-hooks.ts), the paths they keep from the watcher *)
(* (pending-rename-paths.ts) and the queue of the index (index-service.ts, *)
(* workspace-index.ts).                                                    *)
(*                                                                         *)
(*   disk      the files that exist                                        *)
(*   rows      the files that have rows in the index                       *)
(*   watcher   changes the watcher has not reported yet                    *)
(*   queue     syncQueue                                                   *)
(*   pending   old and new: oldRoots and newRoots; timer: whether           *)
(*             pendingRenameClearTimer is set                               *)
(*   rename    per rename, how far it is: noted by onWillRenameFiles, moved  *)
(*             on the disk, at the gate, at the prompt, in the queue, over; *)
(*             its two paths; indexed, whether the old path had its rows     *)
(*             when it was noted; and crossed, whether something else of the *)
(*             old path was under way meanwhile, another rename of one of    *)
(*             its paths was, or the timer fired.  The code has no notes of  *)
(*             the last two.                                               *)
(*   changes   how often the world acted                                   *)
(*                                                                         *)
(* Rows are all that is kept of an index; directories are left out.         *)
(***************************************************************************)
EXTENDS Naturals, Sequences

CONSTANTS
    Paths,      \* paths of `.rq` files
    Synced,     \* those of the files that exist at first, and are indexed
    Renames,    \* bound: the renames
    None,       \* no path
    MaxChanges  \* bound: saves, creations and deletions

VARIABLES disk, rows, watcher, queue, pending, rename, changes

renameVars == <<disk, rows, watcher, queue, pending, rename, changes>>

Kinds == {"created", "changed", "deleted"}
Tasks == [op : {"index", "delete"}, path : Paths] \cup [op : {"migrate"}, of : Renames]

TypeOK == /\ disk \in SUBSET Paths
          /\ rows \in SUBSET Paths
          /\ watcher \in Seq([kind : Kinds, path : Paths])
          /\ queue \in Seq(Tasks)
          /\ pending \in [old : SUBSET Paths, new : SUBSET Paths, timer : BOOLEAN]
          /\ rename \in [Renames -> [stage : {"none", "noted", "moved", "gate", "prompt",
                                              "queued", "over"},
                                     old : Paths \cup {None}, new : Paths \cup {None},
                                     indexed : BOOLEAN, crossed : BOOLEAN]]
          /\ changes \in 0 .. MaxChanges

NotBegun == [stage |-> "none", old |-> None, new |-> None, indexed |-> FALSE, crossed |-> FALSE]

\* A synced base.
Init == /\ disk = Synced /\ rows = Synced
        /\ watcher = <<>> /\ queue = <<>>
        /\ pending = [old |-> {}, new |-> {}, timer |-> FALSE]
        /\ rename = [r \in Renames |-> NotBegun]
        /\ changes = 0

UnderWay(r) == rename[r].stage \notin {"none", "over"}
PathsOf(r) == {rename[r].old, rename[r].new}

\* The renames under way that have one of the paths are crossed.
Crossed(paths) ==
    [r \in Renames |-> [rename[r] EXCEPT !.crossed =
                            @ \/ (UnderWay(r) /\ PathsOf(r) \cap paths # {})]]

\* Something of the path is on its way to the index.
OnItsWay(path) ==
    \/ \E i \in DOMAIN watcher : watcher[i].path = path
    \/ \E i \in DOMAIN queue : queue[i].op # "migrate" /\ queue[i].path = path

To(r, stage) == [rename EXCEPT ![r].stage = stage]
Over(r) == [rename EXCEPT ![r] = [NotBegun EXCEPT !.stage = "over"]]

-----------------------------------------------------------------------------
(* The user, the disk and the watcher *)

\* A file is saved, created or deleted.
Changes(kind, p) ==
    /\ changes < MaxChanges /\ changes' = changes + 1
    /\ (p \in disk) = (kind # "created")
    /\ disk' = CASE kind = "created" -> disk \cup {p}
                 [] kind = "deleted" -> disk \ {p}
                 [] OTHER -> disk
    /\ watcher' = Append(watcher, [kind |-> kind, path |-> p])
    /\ rename' = Crossed({p})
    /\ UNCHANGED <<rows, queue, pending>>

\* Mutant of Noted: only the new path is kept from the watcher.
NotedNew(o, n) == [pending EXCEPT !.new = @ \cup {n}, !.timer = TRUE]

\* notePendingRenames: both paths, and the timer is set anew.
Noted(o, n) == [old |-> pending.old \cup {o}, new |-> pending.new \cup {n}, timer |-> TRUE]

\* onWillRenameFiles.
WillRename(r, o, n) ==
    /\ rename[r].stage = "none"
    /\ o \in disk /\ n \notin disk /\ o # n
    /\ pending' = Noted(o, n)
    /\ rename' = [Crossed({o, n}) EXCEPT ![r] =
                     [stage |-> "noted", old |-> o, new |-> n, indexed |-> o \in rows,
                      crossed |-> OnItsWay(o) \/ \E s \in Renames :
                                      UnderWay(s) /\ PathsOf(s) \cap {o, n} # {}]]
    /\ UNCHANGED <<disk, rows, watcher, queue, changes>>

\* The rename is not carried out: nothing tells the hooks.
Cancelled(r) ==
    /\ rename[r].stage = "noted"
    /\ rename' = Over(r)
    /\ UNCHANGED <<disk, rows, watcher, queue, pending, changes>>

\* The file is moved; the watcher will report both ends.
Moves(r) ==
    /\ rename[r].stage = "noted"
    /\ rename[r].old \in disk /\ rename[r].new \notin disk
    /\ disk' = (disk \ {rename[r].old}) \cup {rename[r].new}
    /\ watcher' = watcher \o << [kind |-> "deleted", path |-> rename[r].old],
                                [kind |-> "created", path |-> rename[r].new] >>
    /\ rename' = To(r, "moved")
    /\ UNCHANGED <<rows, queue, pending, changes>>

\* shouldSuppressDelete and shouldSuppressCreate.
Suppressed(e) == \/ e.kind = "deleted" /\ e.path \in pending.old
                 \/ e.kind = "created" /\ e.path \in pending.new

\* enqueueSync and enqueueDelete.
WatcherReports ==
    /\ watcher # <<>>
    /\ watcher' = Tail(watcher)
    /\ LET e == Head(watcher)
       IN  queue' = IF Suppressed(e) THEN queue
                    ELSE Append(queue, [op   |-> IF e.kind = "deleted" THEN "delete" ELSE "index",
                                        path |-> e.path])
    /\ UNCHANGED <<disk, rows, pending, rename, changes>>

-----------------------------------------------------------------------------
(* The hooks *)

\* handleFileRenames, up to the gate.  An index that is not ready just then has no
\* gate: whether it is depends on the passes, which are not in this module.
HandlerBegins(r) ==
    /\ rename[r].stage = "moved"
    /\ \/ rename' = To(r, "gate") /\ UNCHANGED queue
       \/ rename' = To(r, "queued") /\ queue' = Append(queue, [op |-> "migrate", of |-> r])
    /\ UNCHANGED <<disk, rows, watcher, pending, changes>>

\* The gate and the plan read the rows of the old path.  The user is asked when
\* something refers to it.
Gate(r) ==
    /\ rename[r].stage = "gate"
    /\ \/ rename[r].old \in rows /\ rename' = To(r, "prompt") /\ UNCHANGED queue
       \/ rename' = To(r, "queued") /\ queue' = Append(queue, [op |-> "migrate", of |-> r])
    /\ UNCHANGED <<disk, rows, watcher, pending, changes>>

\* The prompt is answered.
Prompted(r) ==
    /\ rename[r].stage = "prompt"
    /\ rename' = To(r, "queued")
    /\ queue' = Append(queue, [op |-> "migrate", of |-> r])
    /\ UNCHANGED <<disk, rows, watcher, pending, changes>>

\* Native indexing removes the rows of a file that is gone.
Indexed(p) == IF p \in disk THEN rows \cup {p} ELSE rows \ {p}

\* clearPendingRenames: of one entry that two renames share nothing is left.
ClearedOf(r) ==
    LET old == pending.old \ {rename[r].old}
        new == pending.new \ {rename[r].new}
    IN  [old |-> old, new |-> new, timer |-> pending.timer /\ (old # {} \/ new # {})]

\* The head of the queue; migrateRenamedFile lets its handler go on, which clears
\* the paths.
QueueRuns ==
    /\ queue # <<>>
    /\ queue' = Tail(queue)
    /\ LET t == Head(queue)
       IN  \/ t.op = "index"  /\ rows' = Indexed(t.path)    /\ UNCHANGED <<pending, rename>>
           \/ t.op = "delete" /\ rows' = rows \ {t.path}    /\ UNCHANGED <<pending, rename>>
           \/ /\ t.op = "migrate"
              /\ rows' = Indexed(rename[t.of].new) \ {rename[t.of].old}
              /\ pending' = ClearedOf(t.of)
              /\ rename' = Over(t.of)
    /\ UNCHANGED <<disk, watcher, changes>>

\* The 60 seconds of armPendingRenameClearTimer are over.
ClearTimer ==
    /\ pending.timer
    /\ pending' = [old |-> {}, new |-> {}, timer |-> FALSE]
    /\ rename' = Crossed(pending.old \cup pending.new)
    /\ UNCHANGED <<disk, rows, watcher, queue, changes>>

Next == \/ \E k \in Kinds, p \in Paths : Changes(k, p)
        \/ \E r \in Renames : \/ \E o, n \in Paths : WillRename(r, o, n)
                              \/ Cancelled(r) \/ Moves(r) \/ Prompted(r)
                              \/ HandlerBegins(r) \/ Gate(r)
        \/ WatcherReports \/ QueueRuns \/ ClearTimer

Spec == Init /\ [][Next]_renameVars

-----------------------------------------------------------------------------
\* When the gate of a rename asks the index, the rows are still under the old path,
\* however early the watcher reports the move; unless something else of the old
\* path was on its way, a second rename of one of the paths was under way, or the
\* timer fired.
GateSeesRows ==
    \A r \in Renames :
        rename[r].stage = "gate" /\ rename[r].indexed /\ ~ rename[r].crossed
            => rename[r].old \in rows
=============================================================================
