---------------------------- MODULE WorkspaceIndex ----------------------------
(***************************************************************************)
(* The index of one base in the editor: class WorkspaceIndex of            *)
(* packages/analytical with its soft sync, its queue of watched changes and *)
(* its idle check, and the events by which IndexService of                 *)
(* packages/extension drives it.                                           *)
(*                                                                         *)
(* All of it is one JavaScript thread.  A task runs until it awaits; when  *)
(* what it awaits is already there, it goes on in the same event, before   *)
(* the next event is taken.  So an action either starts in an event of its *)
(* own (a watcher report, a timer, a command, the end of a stat), which it *)
(* can only do when no task is Runnable, or is a step of a runnable task.  *)
(* The order among runnable tasks is left open.                            *)
(*                                                                         *)
(*   reports  files with a change the watcher has not reported yet         *)
(*   handler  the watcher's handler for a file: it opens the index, then   *)
(*            puts the change in the queue                                 *)
(*   sqlite   the store handle is set                                      *)
(*   opened   what the open() under way will come to: "ok", "failed", or   *)
(*            "none" when there is none                                    *)
(*   queue    syncQueue: the changes not yet handled, the head first       *)
(*   broken   the tail of syncQueue is a rejected promise                  *)
(*   work     the head of the queue                                        *)
(*   sync     the promise syncInFlight and the pass behind it              *)
(*   ensure   ensureReady: start-up, refresh, a pinned base, a focused window *)
(*   rebuild  clearAndRebuildIndex, with the files its scan found          *)
(*   idle     the idle check and the release after it                      *)
(***************************************************************************)
EXTENDS IndexRuntime, Sequences

CONSTANTS
    MaxGen,        \* bound: how often the index is released
    MaxBatch,      \* the files one event of the watcher may report
    Commands,      \* what may happen besides edits, see AllCommands
    MayFail        \* TRUE: the database may refuse an open, a read or a delete

\* "idle" is the idle timer while nothing is under way, "late" the same timer
\* while a pass takes longer than the timer.
AllCommands == {"ensure", "rebuild", "cancel", "idle", "late"}

ASSUME IndexAssumption == /\ MaxGen \in Nat /\ MaxBatch \in Nat
                          /\ Commands \subseteq AllCommands
                          /\ MayFail \in BOOLEAN

VARIABLES reports, handler, sqlite, opened, queue, broken, work, sync, ensure,
          rebuild, idle

taskVars == <<reports, handler, sqlite, opened, queue, broken, work, sync,
              ensure, rebuild, idle>>
vars     == <<storeVars, disk, runtimeVars, taskVars>>

Changes == [kind : {"index", "delete"}, file : Files]

NoSync == [pc |-> "none", gen |-> 0, todo |-> {}, stored |-> [f \in Files |-> NoRow],
           cancel |-> FALSE]

NoRebuild == [pc |-> "none", list |-> {}]

NoIdle == [pc |-> "none", found |-> {}, stored |-> [f \in Files |-> NoRow]]

TypeOK ==
    /\ StoreType /\ RuntimeType
    /\ reports \subseteq Files
    /\ handler \in [Files -> {"none", "opening", "opened"}]
    /\ sqlite \in BOOLEAN /\ broken \in BOOLEAN
    /\ opened \in {"none", "ok", "failed"}
    /\ queue \in Seq(Changes)
    /\ work \in [pc : {"none", "waiting", "woken", "syncing"}, gen : Nat]
    /\ sync \in [pc : {"none", "files", "poll"}, gen : Nat, todo : SUBSET Files,
                 stored : [Files -> Int], cancel : BOOLEAN]
    /\ ensure \in {"none", "opening", "opened", "waiting", "done", "failed"}
    /\ rebuild \in [pc : {"none", "waiting", "woken", "cleared", "syncing", "done", "failed"},
                   list : SUBSET Files]
    /\ idle \in [pc : {"none", "diff", "waiting", "woken"}, found : SUBSET Files,
                 stored : [Files -> Int]]

\* The host starts on a base that has no index yet.
Init ==
    /\ StoreInit
    /\ disk \in [Files -> UNION {[there : BOOLEAN, mtime : {1}, body : Bodies(f)] : f \in Files}]
    /\ \A f \in Files : disk[f].body \in Bodies(f)
    /\ fsm = "uninitialized" /\ gen = 0 /\ catalog = NoCatalog
    /\ reports = {} /\ handler = [f \in Files |-> "none"]
    /\ sqlite = FALSE /\ opened = "none"
    /\ queue = <<>> /\ broken = FALSE /\ work = [pc |-> "none", gen |-> 0]
    /\ sync = NoSync /\ ensure = "none" /\ rebuild = NoRebuild /\ idle = NoIdle

-----------------------------------------------------------------------------

InFlight == sync.pc # "none"

\* Some task can go on without a new event.
Runnable ==
    \/ opened # "none"
    \/ \E f \in Files : handler[f] = "opened"
    \/ queue # <<>> /\ work.pc # "waiting"
    \/ ensure = "opened"
    \/ rebuild.pc \in {"woken", "cleared"}
    \/ idle.pc = "woken"

(* open() *)

AlreadyOpen == sqlite /\ fsm \in {"idle", "ready", "syncing", "opening"}

\* The runtime and the store are opened at once; the lifecycle learns of it
\* some awaits later.
OpenStarts ==
    /\ ~ AlreadyOpen /\ CanDispatch("activate")
    /\ fsm' = After("activate")
    /\ \E end \in {"ok"} \cup (IF MayFail THEN {"failed"} ELSE {}) :
          /\ opened' = end
          /\ sqlite' = (sqlite \/ end = "ok")
    /\ UNCHANGED <<gen, catalog>>

\* No runtime can be had: open() throws before the lifecycle moves.
OpenThrows == MayFail /\ fsm = "uninitialized"

\* It returns because the index is open, or throws because it cannot be opened.
OpenReturns == AlreadyOpen \/ ~ CanDispatch("activate") \/ OpenThrows

OpenEnds ==
    /\ opened # "none"
    /\ fsm' = After(IF opened = "ok" THEN "opened" ELSE "fail")
    /\ opened' = "none"
    /\ handler' = [f \in Files |-> IF handler[f] = "opening" THEN "opened" ELSE handler[f]]
    /\ ensure' = IF ensure = "opening" THEN "opened" ELSE ensure
    /\ UNCHANGED <<storeVars, disk, gen, catalog, reports, sqlite, queue, broken,
                   work, sync, rebuild, idle>>

-----------------------------------------------------------------------------
(* The user and the watcher *)

\* The watcher will report what was edited.
Edit(f) ==
    /\ \E e \in Edits(f) : disk' = [disk EXCEPT ![f] = e]
    /\ reports' = reports \cup {f}
    /\ UNCHANGED <<storeVars, runtimeVars, handler, sqlite, opened, queue, broken,
                   work, sync, ensure, rebuild, idle>>

\* The same, of an edit that falls into a native call.
EditsReported == reports' = reports \cup {f \in Files : disk'[f] # disk[f]}

\* The watcher reports some changes in one event; their handlers all call
\* open() before any of them gets further.
Report ==
    /\ ~ Runnable
    /\ \E batch \in SUBSET reports :
          /\ batch # {} /\ Cardinality(batch) <= MaxBatch
          /\ \A f \in batch : handler[f] = "none"
          /\ reports' = reports \ batch
          /\ \/ /\ OpenReturns
                /\ handler' = [f \in Files |-> IF f \in batch THEN "opened" ELSE handler[f]]
                /\ UNCHANGED <<runtimeVars, opened, sqlite>>
             \/ /\ OpenStarts
                /\ \E first \in batch :
                      handler' = [f \in Files |-> IF f = first THEN "opening"
                                     ELSE IF f \in batch THEN "opened" ELSE handler[f]]
    /\ UNCHANGED <<storeVars, disk, queue, broken, work, sync, ensure, rebuild, idle>>

\* enqueueIndex or enqueueDelete.
Enqueue(f) ==
    /\ handler[f] = "opened"
    /\ handler' = [handler EXCEPT ![f] = "none"]
    /\ queue' = Append(queue, [kind |-> IF disk[f].there THEN "index" ELSE "delete",
                               file |-> f])
    /\ UNCHANGED <<storeVars, disk, runtimeVars, reports, sqlite, opened, broken,
                   work, sync, ensure, rebuild, idle>>

-----------------------------------------------------------------------------
(* The queue *)

\* The head is done with; `rejects` says how its promise ended.
Dequeue(rejects) ==
    /\ queue' = Tail(queue)
    /\ broken' = rejects
    /\ work' = [pc |-> "none", gen |-> 0]

\* A rejected predecessor: the head never runs.  enqueueIndex swallows the
\* rejection for its successor, enqueueDelete passes it on.
Skipped ==
    /\ broken /\ queue # <<>> /\ work.pc = "none"
    /\ Dequeue(Head(queue).kind = "delete")
    /\ UNCHANGED <<storeVars, disk, runtimeVars, reports, handler, sqlite, opened,
                   sync, ensure, rebuild, idle>>

Turn(kind) == ~ broken /\ queue # <<>> /\ Head(queue).kind = kind

\* The head waits for the pass in flight, once.
WaitForSync ==
    /\ Turn("index") /\ work.pc = "none" /\ InFlight
    /\ work' = [work EXCEPT !.pc = "waiting"]
    /\ UNCHANGED <<storeVars, disk, runtimeVars, reports, handler, sqlite, opened,
                   queue, broken, sync, ensure, rebuild, idle>>

\* Mutant of MayGoOn: the pass in flight is not waited for.
MayGoOnAtOnce == work.pc \in {"none", "woken"}

MayGoOn == \/ work.pc = "none" /\ ~ InFlight
           \/ work.pc = "woken"

\* The lifecycle refuses: the change is dropped.
DropIndex ==
    /\ Turn("index") /\ MayGoOn
    /\ ~ CanDispatch("sync")
    /\ Dequeue(FALSE)
    /\ UNCHANGED <<storeVars, disk, runtimeVars, reports, handler, sqlite, opened,
                   sync, ensure, rebuild, idle>>

BeginIndex ==
    /\ Turn("index") /\ MayGoOn
    /\ CanDispatch("sync")
    /\ fsm' = After("sync")
    /\ work' = [pc |-> "syncing", gen |-> gen]
    /\ UNCHANGED <<storeVars, disk, gen, catalog, reports, handler, sqlite, opened,
                   queue, broken, sync, ensure, rebuild, idle>>

\* Mutant of EndIndex: an early return when there is no store.
EndIndexReturnsEarly ==
    /\ work.pc = "syncing"
    /\ IF sqlite /\ Live(work.gen)
       THEN IndexFile(Head(queue).file) /\ fsm' = After("synced")
       ELSE UNCHANGED <<storeVars, disk, catalog, fsm>>
    /\ EditsReported
    /\ Dequeue(FALSE)
    /\ UNCHANGED <<gen, handler, sqlite, opened, sync, ensure, rebuild, idle>>

\* Whatever becomes of the file, the lifecycle goes back to ready.
EndIndex ==
    /\ work.pc = "syncing"
    /\ IF sqlite /\ Live(work.gen) THEN IndexFile(Head(queue).file)
                              ELSE UNCHANGED <<storeVars, disk, catalog>>
    /\ EditsReported
    /\ fsm' = IF Live(work.gen) THEN After("synced") ELSE fsm
    /\ Dequeue(FALSE)
    /\ UNCHANGED <<gen, handler, sqlite, opened, sync, ensure, rebuild, idle>>

\* A delete does not wait for the pass, and tells it nothing.
Delete ==
    /\ Turn("delete")
    /\ \/ /\ IF sqlite THEN RemoveDocument(Head(queue).file) ELSE UNCHANGED storeVars
          /\ Dequeue(FALSE)
       \/ /\ MayFail /\ sqlite
          /\ Dequeue(TRUE)
          /\ UNCHANGED storeVars
    /\ UNCHANGED <<disk, runtimeVars, reports, handler, sqlite, opened, sync,
                   ensure, rebuild, idle>>

-----------------------------------------------------------------------------
(* The soft sync *)

\* Mutant of SyncCall: the lifecycle's refusal is not heard.
SyncCallUnchecked(list) ==
    IF InFlight \/ ~ sqlite \/ fsm = "uninitialized"
    THEN UNCHANGED <<sync, fsm, catalog>>
    ELSE /\ sync' = [pc |-> "files", gen |-> gen, todo |-> list, stored |-> docs,
                     cancel |-> FALSE]
         /\ fsm' = After("sync")
         /\ catalog' = [on |-> TRUE, ideas |-> ideas]

\* syncWorkspace(list): joins the promise in flight, fails at once when the
\* index is not open, polls when the lifecycle refuses, else starts a pass,
\* which fails at once if the mtimes cannot be read.
SyncCall(list) ==
    IF InFlight \/ ~ sqlite \/ fsm = "uninitialized"
    THEN UNCHANGED <<sync, fsm, catalog>>
    ELSE IF ~ CanDispatch("sync")
    THEN /\ sync' = [NoSync EXCEPT !.pc = "poll", !.gen = gen]
         /\ UNCHANGED <<fsm, catalog>>
    ELSE \/ /\ sync' = [pc |-> "files", gen |-> gen, todo |-> list, stored |-> docs,
                        cancel |-> FALSE]
            /\ fsm' = After("sync")
            /\ catalog' = [on |-> TRUE, ideas |-> ideas]
         \/ /\ MayFail
            /\ fsm' = "error"
            /\ UNCHANGED <<sync, catalog>>

\* Where the caller of SyncCall stands after it.
Awaiting(pending) == IF sync'.pc = "none" THEN "failed" ELSE pending

\* Mutant of Wake: the head of the queue is left waiting.
WakeLeavesQueue(ok) ==
    LET end == IF ok THEN "done" ELSE "failed"
    IN  /\ ensure' = IF ensure = "waiting" THEN end ELSE ensure
        /\ rebuild' = [rebuild EXCEPT !.pc = CASE @ = "waiting" -> "woken"
                                              [] @ = "syncing" -> end
                                              [] OTHER         -> @]
        /\ idle' = IF idle.pc = "waiting" THEN [idle EXCEPT !.pc = "woken"] ELSE idle
        /\ UNCHANGED work

\* Who awaits the promise goes on once it is settled with `ok`.
Wake(ok) ==
    LET end == IF ok THEN "done" ELSE "failed"
    IN  /\ work' = IF work.pc = "waiting" THEN [work EXCEPT !.pc = "woken"] ELSE work
        /\ ensure' = IF ensure = "waiting" THEN end ELSE ensure
        /\ rebuild' = [rebuild EXCEPT !.pc = CASE @ = "waiting" -> "woken"
                                              [] @ = "syncing" -> end
                                              [] OTHER         -> @]
        /\ idle' = IF idle.pc = "waiting" THEN [idle EXCEPT !.pc = "woken"] ELSE idle

\* `.rq` files come first in the list.  The file is indexed by the runtime of
\* the moment, which need not be the one the pass began with.
SyncFile(f) ==
    /\ ~ Runnable
    /\ sync.pc = "files" /\ ~ sync.cancel /\ f \in sync.todo
    /\ f \in CodeFiles => sync.todo \cap RqFiles = {}
    /\ sync' = [sync EXCEPT !.todo = @ \ {f}]
    /\ IF \/ disk[f].there /\ sync.stored[f] = disk[f].mtime
          \/ ~ sqlite
       THEN UNCHANGED <<storeVars, disk, catalog>>
       ELSE IndexFile(f)
    /\ EditsReported
    /\ UNCHANGED <<fsm, gen, handler, sqlite, opened, queue, broken, work, ensure,
                   rebuild, idle>>

\* Mutant of SyncEnds: a cancelled pass leaves its catalog.
SyncEndsKeepsCatalog ==
    /\ ~ Runnable
    /\ sync.pc = "files" /\ (sync.cancel \/ sync.todo = {})
    /\ IF Live(sync.gen)
       THEN fsm' = After("synced") /\ catalog' = IF sync.cancel THEN catalog ELSE NoCatalog
       ELSE UNCHANGED <<fsm, catalog>>
    /\ sync' = NoSync
    /\ Wake(Live(sync.gen) /\ fsm' = "ready")
    /\ UNCHANGED <<storeVars, disk, gen, reports, handler, sqlite, opened, queue,
                   broken>>

\* The end of the pass; on a runtime that was closed it fails and changes nothing.
SyncEnds ==
    /\ ~ Runnable
    /\ sync.pc = "files" /\ (sync.cancel \/ sync.todo = {})
    /\ IF Live(sync.gen) THEN fsm' = After("synced") /\ catalog' = NoCatalog
                         ELSE UNCHANGED <<fsm, catalog>>
    /\ sync' = NoSync
    /\ Wake(Live(sync.gen) /\ fsm' = "ready")
    /\ UNCHANGED <<storeVars, disk, gen, reports, handler, sqlite, opened, queue,
                   broken>>

\* waitForReadyOrError: at a tick, or after its two minutes.
PollEnds ==
    /\ ~ Runnable
    /\ sync.pc = "poll"
    /\ sync' = NoSync
    /\ Wake(fsm = "ready")
    /\ UNCHANGED <<storeVars, disk, runtimeVars, reports, handler, sqlite, opened,
                   queue, broken>>

Cancel ==
    /\ "cancel" \in Commands /\ ~ Runnable
    /\ InFlight
    /\ sync' = [sync EXCEPT !.cancel = TRUE]
    /\ UNCHANGED <<storeVars, disk, runtimeVars, reports, handler, sqlite, opened,
                   queue, broken, work, ensure, rebuild, idle>>

-----------------------------------------------------------------------------
(* Bringing the index to ready, and rebuilding it.  Both are handed the files *)
(* a scan found.                                                              *)

Present == {f \in Files : disk[f].there}

\* Refresh opens a closed index first, a catch-up only one without a store.
EnsureStart ==
    /\ "ensure" \in Commands /\ ~ Runnable
    /\ ensure \in {"none", "done", "failed"}
    /\ \/ /\ fsm = "ready"
          /\ ensure' = "done"
          /\ UNCHANGED <<sync, runtimeVars, sqlite, opened>>
       \/ /\ fsm # "ready" /\ InFlight
          /\ ensure' = "waiting"
          /\ UNCHANGED <<sync, runtimeVars, sqlite, opened>>
       \/ /\ fsm # "ready" /\ ~ InFlight /\ sqlite
          /\ SyncCall(Present)
          /\ ensure' = Awaiting("waiting")
          /\ UNCHANGED <<gen, sqlite, opened>>
       \/ /\ ~ InFlight /\ OpenStarts
          /\ ensure' = "opening"
          /\ UNCHANGED sync
       \/ /\ ~ InFlight /\ OpenThrows
          /\ ensure' = "failed"
          /\ UNCHANGED <<sync, runtimeVars, sqlite, opened>>
    /\ UNCHANGED <<storeVars, disk, reports, handler, queue, broken, work, rebuild, idle>>

EnsureSync ==
    /\ ensure = "opened"
    /\ IF fsm = "ready"
       THEN ensure' = "done" /\ UNCHANGED <<sync, fsm, catalog>>
       ELSE SyncCall(Present) /\ ensure' = Awaiting("waiting")
    /\ UNCHANGED <<storeVars, disk, gen, reports, handler, sqlite, opened, queue,
                   broken, work, rebuild, idle>>

\* A rebuild opens nothing; it ends the pass in flight and waits for it.
RebuildStart ==
    /\ "rebuild" \in Commands /\ ~ Runnable
    /\ rebuild.pc \in {"none", "done", "failed"}
    /\ rebuild' = [pc |-> IF InFlight THEN "waiting" ELSE "woken", list |-> Present]
    /\ sync' = IF InFlight THEN [sync EXCEPT !.cancel = TRUE] ELSE sync
    /\ UNCHANGED <<storeVars, disk, runtimeVars, reports, handler, sqlite, opened,
                   queue, broken, work, ensure, idle>>

RebuildClear ==
    /\ rebuild.pc = "woken"
    /\ IF fsm = "uninitialized" THEN UNCHANGED storeVars ELSE ClearAll
    /\ rebuild' = [rebuild EXCEPT !.pc = "cleared"]
    /\ UNCHANGED <<disk, runtimeVars, reports, handler, sqlite, opened, queue,
                   broken, work, sync, ensure, idle>>

RebuildFails ==
    /\ MayFail /\ rebuild.pc = "woken" /\ fsm # "uninitialized"
    /\ fsm' = After("fail")
    /\ rebuild' = [rebuild EXCEPT !.pc = "failed"]
    /\ UNCHANGED <<storeVars, disk, gen, catalog, reports, handler, sqlite, opened,
                   queue, broken, work, sync, ensure, idle>>

\* The await of the clear has let the head of the queue go on first, if both
\* waited for the same pass.
RebuildSync ==
    /\ rebuild.pc = "cleared" /\ work.pc # "woken"
    /\ SyncCall(rebuild.list)
    /\ rebuild' = [rebuild EXCEPT !.pc = Awaiting("syncing")]
    /\ UNCHANGED <<storeVars, disk, gen, reports, handler, sqlite, opened, queue,
                   broken, work, ensure, idle>>

-----------------------------------------------------------------------------
(* The idle check, and the release that ends it *)

UnderWay == \/ InFlight \/ queue # <<>>
            \/ \E f \in Files : handler[f] # "none"

\* The timer.  Only a ready index is checked, and only the files it stores.
IdleStart ==
    /\ ~ Runnable /\ idle.pc = "none"
    /\ IF UnderWay THEN "late" \in Commands ELSE "idle" \in Commands
    /\ fsm # "uninitialized" /\ gen < MaxGen
    /\ idle' = [pc |-> IF fsm = "ready" /\ sqlite /\ ~ InFlight THEN "diff" ELSE "woken",
                found |-> {f \in Files : docs[f] # NoRow},
                stored |-> docs]
    /\ UNCHANGED <<storeVars, disk, runtimeVars, reports, handler, sqlite, opened,
                   queue, broken, work, sync, ensure, rebuild>>

\* The stats are back.  Nothing is removed: every stored path was asked for.
IdleDiff ==
    /\ ~ Runnable /\ idle.pc = "diff"
    /\ LET dirty == {f \in idle.found : disk[f].there /\ idle.stored[f] # disk[f].mtime}
       IN  IF dirty = {}
           THEN /\ idle' = [idle EXCEPT !.pc = "woken"]
                /\ UNCHANGED <<sync, fsm, catalog>>
           ELSE /\ SyncCall(dirty)
                /\ idle' = [idle EXCEPT !.pc =
                               IF sync'.pc = "none" THEN "woken" ELSE "waiting"]
    /\ UNCHANGED <<storeVars, disk, gen, reports, handler, sqlite, opened, queue,
                   broken, work, ensure, rebuild>>

\* deactivate(), whatever else is under way.
IdleRelease ==
    /\ idle.pc = "woken"
    /\ fsm' = "uninitialized" /\ gen' = gen + 1 /\ catalog' = NoCatalog
    /\ sqlite' = FALSE
    /\ idle' = NoIdle
    /\ UNCHANGED <<storeVars, disk, reports, handler, opened, queue, broken, work,
                   sync, ensure, rebuild>>

-----------------------------------------------------------------------------

QueueStep == Skipped \/ WaitForSync \/ DropIndex \/ BeginIndex \/ EndIndex \/ Delete

SyncStep == SyncEnds \/ PollEnds \/ \E f \in Files : SyncFile(f)

Next ==
    \/ OpenEnds
    \/ \E f \in Files : Edit(f) \/ Enqueue(f) \/ SyncFile(f)
    \/ Report
    \/ Skipped \/ WaitForSync \/ DropIndex \/ BeginIndex \/ EndIndex \/ Delete
    \/ SyncEnds \/ PollEnds \/ Cancel
    \/ EnsureStart \/ EnsureSync
    \/ RebuildStart \/ RebuildClear \/ RebuildFails \/ RebuildSync
    \/ IdleStart \/ IdleDiff \/ IdleRelease

Spec == Init /\ [][Next]_vars

\* The event loop runs every task that can go on and takes every event that is
\* there, in turn; a stat ends, a timer fires, the watcher reports.  Nobody has
\* to edit, ask or wait for the idle timer.  An event is taken only when no task
\* is runnable: hence SF for those that others may keep putting off.
FairSpec ==
    /\ Spec
    /\ WF_vars(OpenEnds) /\ SF_vars(Report)
    /\ \A f \in Files : WF_vars(Enqueue(f))
    /\ WF_vars(QueueStep) /\ SF_vars(SyncStep)
    /\ WF_vars(EnsureSync)
    /\ WF_vars(RebuildClear \/ RebuildFails) /\ WF_vars(RebuildSync)
    /\ SF_vars(IdleDiff) /\ WF_vars(IdleRelease)
=============================================================================
