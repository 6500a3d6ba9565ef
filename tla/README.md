# Verification of reqlan

reqlan keeps requirements in `.rq` files, next to the code they speak of. Code
comments refer to ideas with `rq:[...]`. A database, `<base>/.reqlan/ideas-index.sqlite`,
holds what was found in the files; the editor, the CLI and the MCP server read it
and bring it up to date. A language server gives diagnostics and navigation while
a file is edited.

This directory holds TLA+ models of the parts of that system that keep state over
time, TLC instances that check them, and TLAPS proofs. `PROJECT.json` ties each
definition to the lines it models, each property to the runs that check it, and
each hazard to its line in the code.

## The system

| Part | Code | State it keeps | Operations | Talks to |
|---|---|---|---|---|
| Ideas database | `crates/reqlan-index/src/store*.rs` | documents with their mtime, ideas, edges, `meta` | one statement or transaction per call | every process with the base open |
| Native sync | `crates/reqlan-index/src/sync.rs` | the locals of one pass: stored mtimes, idea catalog, `names_changed` | soft pass, hard pass, `index_paths` | the database, the files |
| Index runtime | `crates/reqlan-analytical/src/workspace_index.rs` and its napi wrapper | lifecycle state, `sync_catalog`, the open store | dispatch, index a file, delete, clear | called from one JavaScript thread |
| Workspace index | `packages/analytical/src/index-store/workspace-index*.ts` | `sqlite`, `syncInFlight`, the promise `syncQueue`, cancel flag | open, ensureReady, soft sync, queue, rebuild, deactivate | the runtime, by synchronous calls between awaits |
| Index service | `packages/extension/.../index-service.ts` | one index per base, pending renames, idle timer | watcher handlers, refresh, rebuild, idle check | workspace indexes, the editor's events |
| Base registry | `packages/analytical/src/core/base-discovery.ts`, `index-store/base-registry.ts` | registered bases, the pinned one | which base owns a path; sync a base; select, pin | index service |
| Language server loop | `crates/reqlan-lsp/src/server.rs`, `duty.rs`, `session/` | deferred messages, cancelled ids, confirm list, open buffers, progress tokens | one message at a time, confirm passes in between | the client, over one ordered channel |
| Document sync | `packages/extension/src/extension/document-sync.ts` and its middleware | the set of synchronised documents | open, change, close | the language server |
| Background pumps | `git-dates-background.ts`, `register-git-dates-background.ts`; `register-inbound-sqlite-sync.ts`, `inbound-snapshot-schedule.ts` | attempted ideas, timer, wave; deferred push, coalesced runner | paced writes and pushes | index service, language server |
| File mutation gate | `packages/extension/src/mutation_module`, `pending-rename-paths.ts` | pending rename paths and their timer | rewrite references after a rename | watcher, index queue |
| Web views | activity bar and Ideas Summary, `webviews/*/app.svelte.ts` and their hosts | query, pages, spinners, graph | messages both ways | index service |
| Click analysis and rope | `crates/reqlan-analytical/src/click*.rs`, `rope.rs` | `click-sessions.sqlite` | click, rope; touch, record, evict | every process that calls them; the database |
| Diff; parser; search ranking; export; Langium package | functions or presentation | none over time | | |

What is hard:

* Several processes share one database, and users edit files between any two steps
  of a pass. A later pass skips a file whose stored mtime is the file's own, so a
  wrong row that looks current would stay wrong.
* A pass writes in many transactions and can be cancelled or cut off between them.
* In the editor one thread runs many tasks that stop at awaits. The lifecycle
  state is the only lock between a pass and the queue of watched changes, and the
  idle timer takes the database away under all of them.
* Between the editor's host and its web views messages fly both ways while the base
  changes, the index leaves and comes back, and the user types on. Each side has
  flags that say what it waits for (`pending`, `loading`, request ids, epochs), and a
  flag that nothing clears is a spinner that turns forever.
* A rename reaches the editor twice, as its own event and as a deletion and a creation
  from the watcher, in an order nobody guarantees.
* Agents call `reqlan click` from processes of their own, which share one store of
  sessions without a transaction around a call.
* The language server looks into its inbox in the middle of a handler: it takes
  cancellations and replies out of turn, keeps the rest for later, and stops its own
  background work when a message waits.

What makes each part correct: a row that calls itself current is true; no row is
left that nothing leads back to; repeated passes bring the database up to date; one
task at a time owns an index; no reported change is lost; the server answers each
request once, in order, on the text its client had; what it published last belongs
to the text it has; every bar it opens it closes. In the editor: a file has one owner,
whichever code is asked; what the user picked stays picked and comes up; the server ends
with the last rows; no spinner turns forever; what is shown answers what
was asked last; a rename finds the rows it has to rewrite.

## The modules

| Module | What it models |
|---|---|
| `IdeaStore` | The tables that matter, and the effect of each store call as one operator. Extended by the two below, so both write the same database. |
| `NativeSync` | `sync_workspace` and `index_paths`, run by any number of processes. One step per walk, query, stat, read, compare and transaction; `Edit` and `Upgrade` come between any two. `Cancel` and `Interrupt` end a pass early. |
| `NativeSyncProps`, `MCNativeSync` | Its properties, and the constants of its instances. |
| `NativeSync_proofs` | Theorems about `NativeSync`. |
| `IndexRuntime` | The native index in the editor: the lifecycle table `Transitions` of `IndexState::next`, the catalog of a pass, one operator per native call. |
| `WorkspaceIndex` | The tasks of class `WorkspaceIndex` and the events of `IndexService` that start them. Composes with `IndexRuntime` and through it with `IdeaStore`. |
| `WorkspaceIndexProps`, `MCWorkspaceIndex` | Its properties and instances. |
| `WorkspaceIndex_proofs` | Theorems about `WorkspaceIndex`. |
| `RequestOrder` | Abstract: what a client may count on. Requests are answered one by one, in order, once, and refused only if withdrawn. |
| `LspServer` | `serve` with `PendingConfirm` and `Duty`; its environment is a client with the middleware of `register-definition-navigation.ts`. |
| `LspServerProps`, `MCLspServer` | Its properties, among them that it implements `RequestOrder`, and its instance. |
| `LspServer_proofs` | Theorems about `LspServer`, the refinement among them. |
| `Bases` | Which base owns a file, by `filesOwnedByBase` and by `baseForPath`; which base is active, over refreshes that end late. |
| `BaseSwitch` | The switcher, `setActiveBaseId` and `activateBaseForPath`, the release of the base left and the catch-up of the one entered. |
| `InboundPush` | `registerInboundSqliteSync`, its coalesced runner and deferral, and the snapshots the server keeps. |
| `InboundPush_proofs` | Theorems about it. |
| `GitDatesPump` | The pump of missing git dates and the waves and batches it runs. |
| `GitDatesPump_proofs` | Theorems about it. |
| `IdeaSearch` | The search pane and the host's `searchIdeas`: debounce, pages, request ids, epochs. |
| `GraphPanel` | The Graph tab and the panel that answers it. |
| `EditorRenames` | The mutation hooks, the pending rename paths, the watcher and the queue. |
| `EditorRenames_proofs` | Theorems about it. |
| `ClickSessions` | The sessions of `reqlan click` and `rope`, shared by processes. |
| `ClickSessions_proofs` | Theorems about it. |
| `Editor` | The eight modules from `Bases` to `ClickSessions`, side by side, and the properties of the run `editor`. |
| `Editor_proofs` | Theorems about `Bases`, `BaseSwitch`, `IdeaSearch` and `GraphPanel`, and about `Editor`. |
| `MCEditor` | The constants of its instance. |

### State and actions against the code

**NativeSync.** `pass[p]` is the stack frame of the pass of process `p`; its `pc`
names the next statement that touches shared state. `disk[f]` is a file's kind, mtime
and text. A `.rq` text is the set of names it declares, a code text the set of
references its comments make: what else a file says changes no decision of a pass.
Each database transaction is one step. A clear is three (`clearEdges`, `clearIdeas`,
`clearDocs`), because the code issues three statements outside a transaction.

**WorkspaceIndex.** `fsm`, `gen` and `catalog` are the runtime; `gen` tells a closed
runtime from the one that replaced it. Each task has a small program counter:
`handler` per watched file, `work` for the head of `syncQueue`, `sync` for the soft
sync, `ensure`, `rebuild`, `idle`. A task that can go on does so before the next event
is taken (`Runnable`): JavaScript runs promise reactions before it returns to the
event loop. An action that needs an event (a stat's answer, a timer, a watcher's
report, a command) has `~ Runnable` in its guard; the order among the runnable tasks is
left open. A native call keeps the thread, not the user: it reads a file's text first and takes
its mtime after (`sync.rs:690-713`, `622-636`), so a call is one step in which each file that it reads may
be edited in between (`ReadThenEdited`), and the edit is reported like any other.

**LspServer.** `pc` tells whether the thread is in the loop, in a handler, in a confirm
pass, or waits inside `handle_shutdown`. `Take*` are the branches of the loop, `Ingest*`
those of `Duty::ingest`, `AskForBar` and `BeginBar` are `maybe_begin`, and `WalkEnds` and
`ConfirmEnds` are `finish` with what the caller does next. A request carries the
client's buffers of the moment it was made (`view`), which the server never reads: the
property `SeesItsText` compares them. A document's text is its version; what was
published is kept as the versions it was computed from.

**Bases.** `registered` and `active` are the registry's roots and `activeBaseId`. `pending[r]`
is the local of a refresh that it pins again at its end (`index-service.ts:401`). `chosen` is a
note the code does not keep: what was picked last, and whether a refresh was under way.
`OwnersAgree` compares the two operators over all sets of roots, and is their mutual reference
definition.

**BaseSwitch.** `view`, `toHost` and `toView` are the web view and the two message channels, in
order. `store[b]` and `pass[b]` are what `WorkspaceIndex` is to this module: closed, open and not
synced, syncing, in error, or ready, which is `"synced"` after a pass (that was cancelled, perhaps) and
`"changed"` where a watched change has opened the base and no pass has run; and the sync in
flight, `"broken"` once its index was closed under it. `caught` is `catchUpInFlight`.

**InboundPush.** Listeners run inside the call that changes the index, and the store is read in
the same turn. So an action is one change with all that its listeners do, up to and including the
batch they build (`OnStatus`, `OnChange`, `SchedulePush`). `BecomesReady` is any pass of the active
base that ends ready, with all its rows or without. What takes time is apart: `Opened`,
`NoteSnapshot` (the batch arrives) and `Refreshed` (the runner's promise is settled).

**GitDatesPump.** A batch is synchronous calls to the store and to git, hence one step; between two
batches of a wave the host yields (`NextBatch`). `wave.stale` stands for both the moved
`priorityEpoch` and `pendingReschedule`, which are set together.

**IdeaSearch.** Queries, answers, progress, errors and seeds travel in order; `flying` are the
searches that wait for their turn of the event loop, where they look at their epoch. A page is its
number and its query.

**GraphPanel.** The store's calls are synchronous, so a slice is built before the host takes the
next message, and a run of `runGraphSlice` is one step, which posts a slice (`Build`) or an error
(`BuildFails`). A slice is the query and the base that it was built for. `host.failed` is a note the
code does not keep: the last request taken up ended in an error.

**EditorRenames.** `pending` is `oldRoots`, `newRoots` and whether `pendingRenameClearTimer` is
set. `watcher` holds what the file watcher has yet to report and `queue` is `syncQueue`. A rename goes
through `noted`, `moved`, the gate, the prompt and the queue; the renames of one
`onWillRenameFiles` event and those of overlapping events are the same to the module.

**ClickSessions.** A step is one statement or transaction on `click-sessions.sqlite`;
`call[c].pc` names the next. The statements of `evict_excess` (count, select, one delete per
session) are apart, because nothing holds them together. What a call reads of the ideas index is
read in the step of the last query before it. `sessions` is ordered by `last_touched_at`: two touches
within one millisecond, which `created_at` then orders, are left out. A fingerprint is one of two
values, so that it can change and change back. `call[c]` is the stack frame of the call of process
`c`, with the contents and the summaries that its answer shows. Two notes the code does not keep:
`shown[k]`, what session `k` has shown as content and has not changed since, and `crossed`, the
sessions of which two calls have overlapped.

## What is checked

| Run | Instance | Shows | Distinct states |
|---|---|---|---|
| `native_live` | one process, two `.rq` files, one code file, soft and hard passes, fair | `TypeOK`, `LinksExact`, `CatalogMirrorsStore`; `Converges` and `PassEnds` | 287,407 |
| `native_cut` | all kinds of pass, cut off anywhere but at `clearDocs`, cancelled, refused, upgraded, mtimes that do not move | `RowsRooted` | 1,034,616 |
| `native_two` | two processes, two names, one `.rq` and one code file | `MtimeHonest`, `NoPhantomLink` | 4,067,346 |
| `index_live` | failing opens, reads and deletes; one idle release; fair | `TypeOK`, `OneOwner`, `CatalogOfPass`; `SyncingEnds` and `QueueDrains` | 222,442 |
| `index_rest` | two `.rq` files and a code file, cancellation and rebuild, no release | `CurrentIsTrue`, `Rooted`, `NoStaleRow`, `LinksExactAtRest` | 1,711,106 |
| `lsp_loop` | two requests, a `.rq` file and a code file, shutdown, fair | `TypeOK`, `SeesItsText`, `BarsPaired`, `CheckedAtRest`, `AnswersInOrder`, `CancelWins`; `Answered` and `Confirmed` | 289,650 |
| `editor` | one part of the editor per behaviour, or the click sessions; fair | safety `PartTyped`, `OwnersAgree`, `SelectionKept`, `PagesContiguous`, `GateSeesRows`, `EditorFirst`, `WithinLimit`, `BodyOnce`; liveness `SwitchEnds`, `PinnedOpens`, `LastRowsArrive`, `Filled`, `SearchEnds`, `GraphSettles` | 462,548 |

`editor` is one run for eight modules that share no state. In `Editor`, `focus` picks the module a
behaviour is about, and the variables of the others stay idle, so that the state count is a sum
and not a product. Each property says what its module's property says while that module is in
focus:

* `OwnersAgree`, `SelectionKept` (`Bases`): a sync and a watched change give a file to the same
  base, and a pick of the user stays until the next one.
* `SwitchEnds`, `PinnedOpens` (`BaseSwitch`): the switcher stops waiting, and the base it shows
  is ready in the end, if its catch-up did not fail. Ready is what the code asks for, and less than
  synced, as the run `index_warm` shows.
* `LastRowsArrive` (`InboundPush`): in the end the server has the last rows of what is visible.
* `Filled`, `EditorFirst` (`GitDatesPump`): every idea is asked for, those of the active file first.
* `SearchEnds`, `PagesContiguous` (`IdeaSearch`): no spinner turns forever, and the pages shown are
  the first ones of one query.
* `GraphSettles` (`GraphPanel`): every request is answered, by a slice or an error, and what is
  shown answers the last if its slice could be built.
* `GateSeesRows` (`EditorRenames`): the gate of a rename finds the rows of the old path.
* `WithinLimit`, `BodyOnce` (`ClickSessions`): the store keeps to its limit however
  evictions overlap; and what a session was shown as content and has not changed since is shown
  to it again neither by a revisit nor in the summaries of a rope, while its calls come one after the
  other. This is what `click.rq:200` ("already showed as content") promises, and no more: what was
  listed in a rope with its summary, a later revisit does show as content.

In `index_rest`, `CurrentIsTrue` says of a `.rq` file whose stored mtime is its own that it has
exactly the ideas of its text, or that a change of it is on its way to the tables: unreported,
in a handler or in the queue (`Pending`). The second is needed, since an edit that falls between
the read and the stat of a native call is stored as indexed. Once all is quiet nothing is on its
way, and `NoStaleRow` and `LinksExactAtRest` say the rest.

Five runs look for a counterexample and find one. Each is a disagreement between the
code and what the repository says of it:

| Run | Property | What happens |
|---|---|---|
| `native_lost_link` | `LinksExact` | `names_changed` is known only to the pass. Cut off between the `.rq` rows and the code files, it is forgotten, and the next pass skips both files: the link to the new idea is never made. |
| `native_paths` | `PathsPruneNothingReadable` | `index_paths` deletes every code document that is not in its list, as if the list were a walk. |
| `index_warm` | `Warm` | A watched change opens an index that was never synced and leaves it "ready" with one file. `ensureReady` takes "ready" for "synced". |
| `index_batch` | `NoStaleRow` | Two changes in one watcher event after a release: `open` throws for the second, `enqueueIndex` finds the index opening and drops the change. |
| `index_rebuild` | `Rebuilt` | A watched change takes the lifecycle between a rebuild's clear and its sync; the rebuild polls for "ready" and reports success with one file indexed. |

### Bounds, and why they are enough

* `MaxMtime` 2 (3 in `index_batch`): one edit of each file after the first index is what
  a race between an edit and a pass needs; the proofs have no bound.
* Two `.rq` files where a name can move from one to the other, one where the question
  is about one row; one code file, since code files never touch each other's rows. Names:
  two where an idea is replaced by another, otherwise one that comes and goes.
* Two processes: each pair of steps of two passes can interleave.
* `MaxBuild` 2: one upgrade, so that a stored version can be stale.
* `MaxGen` 1: one idle release, so that every task can find its runtime closed and a
  new one opened. `MaxBatch` 2: one watcher event with two changes.
* `MaxMessages` 3 messages of the client's own choice in `lsp_loop`, besides replies,
  shutdown and exit: one under way, one that comes while it runs, one more behind it.
  Without the liveness properties TLC also goes through 4 messages (about 3 million states).
  `MaxCreates` 2: a late reply to the first token request while the second is open.
* In `editor`:
  * bases: four files and three roots nested two deep, one refresh at a time; `Editor_proofs`
    has no bound.
  * switch: two bases and one that the registry has lost, 3 selections (there, back and there
    again while the first pass winds down), 2 other events.
  * push: two documents in two bases, 2 changes: one in the middle of a push, one after it.
  * pump: five ideas, four of them in one file, which is more than a list holds (`MaxFetch` 3), so
    that the second lookup, of the active file alone, counts; batches of 2 and waves of 3, so that
    a wave is cut short; 2 events.
  * search: two queries of two pages, 2 further pages asked for, 3 other acts. On its own the
    module also passes with 3 pages and 5 acts, and its safety with 6.
  * graph: one text, one centre, two bases, 2 acts. On its own also with 3 acts (2,458,112 states).
  * renames: two paths, 2 renames, 1 change: a rename there and back, or one crossed by a save. On
    its own also with 3 paths (553,522 states).
  * click: two processes with 2 and 1 calls, two sessions of which one fits, one upset (an edit of the
    index or a killed process). On its own also with two processes of 3 and 1 calls and 2 upsets
    (2.5 million states), there with the parts of the invariants its proofs use.

`RacyWrites` (a write that leaves the mtime as it was) is TRUE only in `native_cut`:
the properties about current rows rest on an edit moving the mtime and fail without
it, as in any scheme of this kind.

### Fairness

* `NativeSync`: weak fairness of the steps of a pass that runs; a process is scheduled
  and every call of a pass returns. Nobody has to start a pass: `Converges` says what
  follows *if* passes keep ending.
* `WorkspaceIndex`: weak fairness of each runnable task, since the microtask queue is
  worked off in turn. Strong fairness of the steps that start with an event (a stat is
  back, the poll timer, the watcher's report): they are disabled whenever some task is
  runnable, again and again, but the event loop gets to them. No fairness of edits,
  commands or the idle timer.
* `LspServer`: weak fairness of the server as a whole. It is one thread that waits only
  when nothing is to be done, and `handle_shutdown` gives up after its timeout. No
  fairness of the client, so `Confirmed` holds whatever it does within its messages.
* `Editor`: weak fairness of `Program`, the steps the host and its web views take by themselves: a
  message on its way arrives, a timer that is set fires, a promise settles, a pass ends. One thread
  on each side goes on while there is anything to do; since the events are bounded and each gives
  rise to finitely many steps, none of these steps is put off forever. No fairness of the user,
  the editor, the index's events, `Bases`, `EditorRenames` or `ClickSessions`.

Runs without a liveness property use `Spec`. Deadlock checking is off where the modelled
part may come to rest for good: an index nobody drives, a server that has exited or whose
client is silent.

## What is proved

All theorems hold for every value of the constants that the named assumptions allow: any number of
processes, files, names, requests, edits and versions. Each safety theorem is an inductive
invariant, the proof that every action keeps it (one step per action of `Next`), and that it implies
the property.

### NativeSync

`NativeSync_proofs` (2586 obligations), from `FilesAssumption` and `SyncAssumption`:

* `TypeCorrect`: `Spec => []TypeOK`. `TypeOK` is not inductive: the step that stores a file's row
  needs to know that the file in hand is of the kind the step is for. `TypeInv` adds this
  (`Stages`), and that `.rq` texts declare names (`DiskTexts`).
* `RowsHonest`: `MtimeHonest` holds always, provided every edit moves the mtime and no pass is cut
  off between deleting the ideas and deleting the documents. The invariant `HonestInv` adds two
  parts: no mtime, stored or in hand, is ahead of the disk's (`NotAhead`), and a text in hand whose
  mtime is still the file's own is still the file's text (`TextHonest`). The second is where the
  order in `sync.rs:268-290` counts: the mtime is taken before the text is read, so an edit in
  between makes the stored mtime too old, never too new. Other processes' passes are handled once,
  in `OthersSame`.
* `LinksHonest`: `NoPhantomLink`, provided every edit moves the mtime; for any processes, and cut
  off anywhere. It rests on `LinkInv` (the same two parts) and on the foreign key, which takes the
  links of an idea with it.
* `StoreRooted`: `RowsRooted`, with one process, whatever fails or is cut off, and with edits that
  leave the mtime as it was. `RootInv` says what each statement of a clear has emptied.
* `CatalogExact`: `CatalogMirrorsStore`, with one process.
* `AllLinksMade`: `LinksExact`, with one process that every edit moves the mtime for, whose passes
  are walks that are not cancelled, nor cut off once they have begun on the files or between two
  statements of a clear (`HarmlessCuts`). `LinkedInv` says which code files may be out of date at
  each point of a pass: only those it still has to link again, which it has only once some name has
  changed. The run `native_lost_link` shows what a cut does.
* `QuietPassInSync`: with one process and under the same hypotheses, one pass is enough. Once a pass
  has begun, and as long as from then on no file changes, no write fails and no pass is cut off
  before it has pruned, `InSync` holds whenever no pass runs. `QuietBase` is what holds at every
  moment, edits and cuts included: the invariants above, that an mtime that is the file's own was
  never stored under what is not a text (`RowsOfTexts`), and that code files are kept only once the
  `.rq` files are done (`KeptLate`). `Progress` is what holds from the quiet pass on: each readable
  file is still to come, in hand or dealt with, a stored mtime that matched still matches, and what
  the pass will prune is what it did not keep.

With two processes `StoreRooted`, `CatalogExact` and `AllLinksMade` are false: one may clear the
tables or store a new name while the other is past that point.

### WorkspaceIndex

`WorkspaceIndex_proofs` (2783 obligations), from `FilesAssumption`, `RuntimeAssumption` and
`IndexAssumption`:

* `TypeCorrect`, `LifecycleOwned` (`OneOwner`) and `CatalogLivesWithPass` (`CatalogOfPass`), from
  `TaskInv`. Its parts tie the program counters of the tasks to `fsm` and `gen`: whoever works in
  the queue works on its head (`AtHead`); a task's runtime is this one or an earlier one
  (`GensPast`); while a rebuild clears no pass runs and none is about to begin (`RebuildAlone`); the
  lifecycle is given away once (`Owned`), and a task that outlived a release holds a runtime that is
  gone (`LeftBehind`).
* `RowsRooted` (`Rooted`), from `RowInv`, with failures, edits and releases anywhere.
* `CurrentRowsTrue` (`CurrentIsTrue`) and `NoChangeForgotten` (`NoStaleRow`), where the database works
  and the index is not released: a row that is out of date, also one that calls itself current
  because its file was edited between a read and a stat, has a change on its way to it
  (`StaleIsPending`). Without the hypotheses both are false: a report that is dropped, as the run
  `index_batch` shows, or whose indexing fails leaves the row as it is.
* `LinksTrueAtRest` (`LinksExactAtRest`), under the same hypotheses and where no `.rq` file is
  deleted; and at every moment, unless a change of the code file is on its way (`LinksToldTrue`). The
  catalog of a pass is the ideas table (`CatalogIsTable`), which a deletion that does not wait for
  the pass would break (see below).

### LspServer

`LspServer_proofs` (3093 obligations), from `LspAssumption`. One invariant, `LspInv`, carries all:

* `TypeCorrect`; `BarsEnd` (`BarsPaired`), from `BarInv` and `DutyInv`: between two handlers nothing
  is left of the duty, and the bars the client shows are the one that the duty has begun.
* `TextsAsAsked` (`SeesItsText`), from `TextInv`: the changes that wait, applied to `session`, give
  at each waiting request the texts it was made on, and in the end those of the client. `EndInv`
  says that after a shutdown only replies and the exit can wait, so that what `handle_shutdown`
  drops changes no text.
* `RestIsChecked` (`CheckedAtRest`), from `ShownInv`: a document that was not published from the
  texts the server has is on a list of the confirm pass.
* `CancelledNeverOk` (`CancelWins`), an action property, from `DutyInv` and `GoneInv`.
* `AnsweredInOrder` (`AnswersInOrder`): `Spec` implements `RequestOrder`. The set of unanswered
  requests is read off the messages that wait and the request in hand, the order off their places
  (`AbstractState`). `OnceInv` says that each waits in one place. `StepInOrder` shows that every
  step asks, withdraws or answers one request as the abstract one allows, or changes none of it.

### The editor and the click sessions

* `Editor_proofs` (4334 obligations), the parts. `Bases`, for all paths, files and roots, from
  `PathAssumption` and `NoBaseAssumption`. `RoutesAgree` (`OwnersAgree`): roots that contain one
  path are prefixes of one another, so the deepest exists and is unique (the least number of names
  left over, by the well-ordering of the naturals) and is the one no nested base takes the file
  from. `PinKept` (`SelectionKept`): from `PinInv`, which ties what a pending refresh will pin to
  what was chosen before it began. `IdeaSearch`, with no bound on queries, pages or acts:
  `PagesInOrder` (`PagesContiguous`). The ids of requests only grow (`NoneLater`), the current
  request is at the host, begun there or answered, in one place only (`OutOnce`), and a further page
  it asks for is the one after those shown, of the same query (`NextPage`). Its types
  (`SearchTypes`), by accounts: a request id is paid for by an act of the user, a debounce or a
  further page, so that ids, messages and seeded queries together keep to the bounds of the
  instance.
* `Editor_proofs`, the editor, from `EditorAssumption`: `PartsTyped` (`PartTyped`), `BasesHold`
  (`OwnersAgree`, `SelectionKept`), `RenamesSeen`
  (`GateSeesRows`), `ClicksWithinLimit` (`WithinLimit`), `ClicksShowOnce` (`BodyOnce`),
  `PumpEditorFirst` (`EditorFirst`) and `SearchPagesInOrder` (`PagesContiguous`). The part in focus
  stays in focus (`FocusStays`), and a behaviour of `EditorSpec` that has a part in focus is one of
  that part (`SwitchInFocus` and the like), so each theorem about a part, for all values of its
  constants, is one about the editor. These are the definitions that the run `editor` checks.
* `InboundPush_proofs` (768 obligations), for all documents, bases and numbers of changes: `PushRests`
  (below), from the types and `RestInv`.
* `EditorRenames_proofs` (582 obligations), for all paths and numbers of renames and changes.
  `GateAlwaysSees`: `GateSeesRows` holds always. `RenameInv` says that the old path of a rename that
  nothing has crossed is among the pending ones, so that no deletion of it gets from the watcher
  into the queue, and that its rows are there.
* `GitDatesPump_proofs` (661 obligations), for all ideas, files, batch, wave and window sizes.
  `EditorAlwaysFirst`: `EditorFirst` holds of every step. A list that leaves out an idea is full
  (shown with the least idea it leaves out); cardinalities then show that a batch with an idea of
  another file has taken every idea of the active one that was listed.
* `ClickSessions_proofs` (2037 obligations), for all numbers of processes, sessions and calls, from
  `Parameters`. `LimitKept` (`WithinLimit`): while there are too many sessions some call covers the
  excess (`Covers`): it has yet to count, or to choose as many as were too many, or holds a choice
  that leaves few enough, whatever the others delete meanwhile. `ShownOnce` (`BodyOnce`), from
  `KnownInv` (what a session was shown as content, it also has listed or clicked) and `BodyInv`: what a session has shown and has not changed is among its entries (`ShownKnown`), and a
  call that has recorded its answer finds it there until it ends (`BodyOK`), while the session's
  calls come one after the other (`OneCall`).

### At rest

A liveness property says that something comes to an end. It has two halves: what has been begun does
not come to a stop before the end, which needs fairness, and where it stops it is the end, which is
a safety property: no flag is set that nothing under way will clear. The second half is where a
forgotten reset, a message dropped by the wrong guard or a mark nobody looks at would show. It is
proved for each component, for all values of the constants:

| Theorem | Of the liveness properties | When this is at rest | this holds |
|---|---|---|---|
| `QuietPassInSync` | `Converges` | no pass, and none was disturbed since one began | every readable file has its row, ideas and links, and no other code file has any |
| `NobodyWaitsForNothing` | `SyncingEnds`, `QueueDrains` | no task can go on, no pass and no idle check is under way | the queue is empty, no handler, `ensureReady`, rebuild or idle check waits, the lifecycle is not "syncing" |
| `NothingUnanswered` | `Answered` | the server and its inbox | every request made has its answer |
| `SwitchRests` | `SwitchEnds`, `PinnedOpens` | no message, no pass | the switcher waits for nothing, and the pinned base is ready, if its catch-up did not fail |
| `PushRests` | `LastRowsArrive` | nothing on the wire, no run | the server has the last rows of each visible document of a ready base |
| `PumpRests` | `Filled` | no timer, no wave | every idea was asked for |
| `SearchRests` | `SearchEnds` | no message, no search begun, no timer | no spinner turns |
| `GraphRests` | `GraphSettles` | no message, no status due | no request waits, and the graph shown answers the last one, if its slice could be built |

They exempt what the properties themselves exempt (below). The invariants say, for each flag that
waits, what is under way for it:

* `Awaited` in `WorkspaceIndex_proofs`: whoever waits for an open or a pass has one that is in
  flight, or the answer is there. It holds across releases and cancellation, with a database that
  refuses at any call.
* `NoneLost` in `LspServer_proofs`: a request that has no answer is among the messages that wait, or
  in hand.
* `SwitchInv`: a switcher that waits has its selection on the way to the host, or a report that
  names its base or a refusal on the way back (`Told`); a pinned base is ready or has a live pass,
  unless it was left adrift or its pass failed (`Entered`).
* `RestInv` in `InboundPush_proofs`: with a ready index and no mark left for the run under way, the
  latest batch on the wire or at the server is current for each visible document. `PushRests` takes
  `NoSnapshot` to be none of the snapshots.
* `RestInv` in `GitDatesPump_proofs`: a wave under way has room for an idea, and a pump at rest has
  finished. It rests on what a list holds: a batch that falls short of its size has taken all that
  was listed, and a list that is not full holds all that is missing (`ShortBatch`, `BatchFinishes`).
  `PumpRests` takes from `Limits` that batches and waves hold something and that the cap of a list
  is at least what a batch looks ahead for; the code has 3, 60, and a cap of 200 against 24
  (`git-dates-background.ts`).
* `SpinInv`: a spinner that turns has its request on the way, in the host, or answered.
* `GraphInv`: a view that waits has its order on the way to the host, a request kept there that a
  status is due for, or an answer on the way back, and what is shown or on the way answers the last
  request (`LastAnswer`).

### Only model-checked

Liveness itself (`Converges`, `PassEnds`, `SyncingEnds`, `QueueDrains`, `Answered`, `Confirmed`, and
the six of the editor): fairness and whatever needs `ENABLED` are out of the prover's reach. `PassEnds`
has no half that needs no fairness. `Confirmed` has no theorem of its own at rest: `RestIsChecked`
says what holds where it ends. Every safety invariant and every action property
that a passing run checks is proved. The modules use no recursive operators, so that theorems about
any of them can be added.

## What the models leave out

* A clear that is cut off before its documents are deleted leaves rows that call
  themselves current and have no ideas: `MtimeHonest` is then false, and stays so until
  the database is cleared again. The runs and `RowsHonest` exclude that one point; the hazard is listed.
* `.rq` documents of deleted files: a pass does not remove them, the watcher does.
  `InSync` therefore does not speak of them.
* Wildcard references, and every column that decides nothing in the sync.
* In `WorkspaceIndex` the list of an `ensureReady` is the
  files there when its sync starts; the cached scan behind it is not modelled. Rename
  migration and the direct index command are left out.
* With `.rq` files among the `Deletable` ones, `LinksExactAtRest` is false: a delete does
  not wait for a pass, whose catalog goes on offering the ideas that are gone
  (`workspace-index.ts:515`).
* In `LspServer` a handler is its begin, its checkpoints and its end; what it computes is
  the versions it read. Notifications that only set options are left out. The shutdown
  that is answered twice, when a reply comes between the two messages that end a session,
  is in the model (`shutdowns`) but no document of the repository speaks of it. The
  diagnostics of an open `.rq` file are not computed again when a neighbour changes, and
  `CheckedAtRest` does not ask for it.
* `Bases`: `createBase` and the walk that finds bases; `cwd` and what was found are inputs.
* In the editor, what a property exempts is what the code does not keep:
  * A refresh pins at its end the base it read at its start, and so overwrites a pick made
    meanwhile (`index-service.ts:401`).
  * A base left and entered again while its broken pass still runs stays closed, since that pass
    holds its place in `catchUpInFlight` (`PinnedOpen` has `adrift`).
  * The server may be sent the rows of a base that does not have them all, although the comment at
    `inbound-snapshot-schedule.ts:7` has pushes wait for a ready index to prevent it: a pass that was
    cancelled ends ready (`workspace-index-sync.ts:87-90`, `140-149`), so does one watched change in a base
    never synced (`workspace-index.ts:484-508`), and a rebuild pushes empty snapshots when it clears
    the tables. No property says otherwise. Snapshots are built from the active base's store, also
    for documents of other bases.
  * A base whose catch-up fails stays in error until the next event (`adrift`), and one that a
    watched change has opened counts as ready (`PinnedOpen`).
  * A wave of git dates ends early once ideas that git cannot date fill the window of a list; later
    waves ask for them no more, and the ones behind wait (`AllAttempted` and `EditorFirst` say when).
  * A search given up by a navigation sends no answer and leaves the spinner; `openIdea` leaves
    `loadingMore`; to empty the box does not move the request id, so that an old answer may fill
    the pane again (`note.lost`, `note.cleared`).
  * A graph that could not be built leaves the one shown before, under an error (`host.failed`).
    The graph of the base left is shown until the next request (`moved`;
    `ideas-summary-panel.ts:534-535`). The debounce of the graph's filter may post a query that is
    no longer in the box; it then counts as the last one asked.
  * Overlapping renames of one path share an entry of the pending sets, the timer of 60 s may
    clear them early, a cancelled rename swallows a real deletion until then, and a save
    reported after the rename removes the rows before the gate has read them (`crossed`).
  * With few sessions, concurrent calls of `click` evict each other's session, and a call then
    fails on the foreign key after its answer was made. Calls of one session that overlap read the
    same entries and may both show a body (`crossed`). The candidates of a rope come with a summary,
    which is the text of the idea, and are recorded as listed only (`rope.rs:441-451`), so a later
    revisit shows the text again; the summaries of a search's or an ambiguous answer's candidates
    (`click.rs:113-116`, `244`) are recorded nowhere, and left out. The bodies of an answer are a set: a
    neighbour listed twice, not in a row, which `dedup` leaves twice in one revisit, is not told apart. A
    later revisit may be empty. A roped file is recorded without a fingerprint, so that the next click of it
    is not a revisit. A call that is killed before it evicts leaves one session too many until the next
    eviction (`cut`).
* Out of these modules: directories and code files in renames, the other panes and tables of the
  views, how long timers take, the rows of a snapshot, the path filter of the search, which names
  match a click, how candidates are ranked and neighbours computed, the sessions table of older
  versions, `diff.rs`.
* Parser, search ranking, export, the site and the older TypeScript language services: functions of
  their input, or presentation.

## Plan

Done, in this order: `IdeaStore` and `NativeSync`, since everything else trusts the rows;
`IndexRuntime` and `WorkspaceIndex`, the densest interleavings; `RequestOrder` and `LspServer`; then
the editor around them: `Bases`, `BaseSwitch`, `InboundPush`, `GitDatesPump`, `IdeaSearch`,
`GraphPanel` and `EditorRenames`; `ClickSessions`; and the proofs of every safety property of these,
of the parts side by side, and of what each is like at rest.

Next:

1. `IndexService` over an abstract index that `WorkspaceIndex` is shown to implement (open, changes
   applied in order, closed), to take the place of `store` and `pass` in `BaseSwitch`.
2. Pure algorithms over bounded inputs, each against a reference definition:
   `utf16::apply_content_changes` of the language server, the ranking of the rope, the planner of
   reference rewrites.
