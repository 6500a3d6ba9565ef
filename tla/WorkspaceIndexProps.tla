-------------------------- MODULE WorkspaceIndexProps --------------------------
(***************************************************************************)
(* What makes the editor's index correct: one owner of the lifecycle at a   *)
(* time, rows that are true, and no change forgotten once all is quiet.    *)
(***************************************************************************)
EXTENDS WorkspaceIndex

PassLive == sync.pc = "files" /\ Live(sync.gen)
WorkLive == work.pc = "syncing" /\ Live(work.gen)

\* The lifecycle is "syncing" for as long as one task works on the index, a
\* pass or the head of the queue, never both and never longer: the state is the
\* only lock between them (workspace-index.ts:481-498, workspace-index-sync.ts:57).
OneOwner ==
    /\ fsm = "syncing" => PassLive \/ WorkLive
    /\ PassLive \/ WorkLive => fsm \in {"syncing", "error"}
    /\ ~ (PassLive /\ WorkLive)

\* The catalog of a pass is there while the pass is, and never after: a single
\* file indexed later would resolve its links against ideas of the past
\* (workspace_index.rs:246-253).
CatalogOfPass == catalog.on <=> PassLive

IsCurrent(f) == disk[f].there /\ docs[f] = disk[f].mtime

\* A change of the file has not been dealt with.
Pending(f) == \/ f \in reports \/ handler[f] # "none"
              \/ \E i \in DOMAIN queue : queue[i].file = f

\* The stored ideas are those of the text.
IdeasTrue(f) == f \in RqFiles => NamesIn(f, ideas) = disk[f].body

\* A `.rq` file whose stored mtime is its own has exactly its ideas, or a change of
\* it is on its way, at every moment: soft passes and idle checks skip such a
\* file, and an edit between the read and the stat of a native call stores the
\* mtime of the new text with the ideas of the old (sync.rs:707-713).
CurrentIsTrue == \A f \in RqFiles : IsCurrent(f) => IdeasTrue(f) \/ Pending(f)

\* No idea and no link without its documents row.
Rooted ==
    /\ \A i \in ideas : docs[i[1]] # NoRow
    /\ \A l \in links : docs[l[3]] # NoRow /\ <<l[1], l[2]>> \in ideas

\* All that was reported has been dealt with and no task is left.
Quiet ==
    /\ ~ Runnable /\ ~ UnderWay /\ reports = {}
    /\ ensure \notin {"opening", "opened", "waiting"}
    /\ rebuild.pc \notin {"waiting", "woken", "cleared", "syncing"}
    /\ idle.pc = "none"

AtRest == Quiet /\ fsm = "ready"

\* Once all is quiet, no row describes an earlier text or a file that is gone:
\* whatever pass ran beside them, each reported change reached the table
\* (workspace-index.ts:473-521).
NoStaleRow == AtRest => \A f \in Files : docs[f] # NoRow => IsCurrent(f) /\ IdeasTrue(f)

LinksExact(c) == LinksOf(c) = LinkRows(c, Resolve(disk[c].body, ideas))

\* Once all is quiet, the links of a code file are those its comments make to
\* the stored ideas.
LinksExactAtRest == AtRest => \A c \in CodeFiles : IsCurrent(c) => LinksExact(c)

\* Once an ensureReady has come back with success and all is quiet, every file
\* of the base is in the index (graph-analysers.rq:24).
Warm == AtRest /\ ensure = "done" => \A f \in Present : docs[f] # NoRow

\* Once a rebuild has come back with success and all is quiet, every file of
\* the base is in the index (sequencing.rq:105).
Rebuilt == AtRest /\ rebuild.pc = "done" => \A f \in Present : docs[f] # NoRow

\* A pass ends, and so does the work on one file.
SyncingEnds == fsm = "syncing" ~> fsm # "syncing"

\* Every change in the queue is got to, also those behind one that failed.
QueueDrains == queue # <<>> ~> queue = <<>>
=============================================================================
