------------------------------ MODULE InboundPush ------------------------------
(***************************************************************************)
(* The push of inbound references to the language server:                  *)
(* registerInboundSqliteSync, which listens to the index and to the        *)
(* visible editors, the coalesced runner it pushes with, and the store the *)
(* server merges the snapshots into.                                       *)
(*                                                                         *)
(*   index     what the listeners can see of the bases: the active one,     *)
(*             those that are ready, and how often the rows of each changed *)
(*   visible   the documents of the visible editors                        *)
(*   deferred, wasReady   the flags of registerInboundSqliteSync           *)
(*   runner    "idle", or "refreshing": the batch is sent and the refresh   *)
(*             requests after it are not answered; queued: run again        *)
(*   opening   flushes that wait for ensureOpenForUse                      *)
(*   wire      the batch on its way, or the empty one                      *)
(*   server    per document, the snapshot the server has: the base whose    *)
(*             store it was built from, and the version of the rows         *)
(*   changes   how many times the world acted                              *)
(*                                                                         *)
(* The listeners run inside the call that changes the index, and the store *)
(* is read in the same turn: a change and the batch it leads to are one    *)
(* step.  A ready index need not have all its rows: a pass that was        *)
(* cancelled ends ready, and so does the indexing of one file in a base    *)
(* that was never synced.                                                  *)
(***************************************************************************)
EXTENDS Naturals, FiniteSets

CONSTANTS
    Docs,        \* the documents editors may show
    Owner,       \* the base of each document
    NoSnapshot,  \* nothing was ever pushed for a document
    MaxChanges   \* bound: changes of the index, the bases and the editors

Bases == {Owner[d] : d \in Docs}

VARIABLES index, visible, deferred, wasReady, runner, opening, wire, server, changes

pushVars == <<index, visible, deferred, wasReady, runner, opening, wire, server, changes>>

Snapshots == [base : Bases, version : 0 .. MaxChanges]
EmptyWire == [d \in {} |-> NoSnapshot]

TypeOK == /\ index \in [active : Bases, ready : SUBSET Bases,
                        version : [Bases -> 0 .. MaxChanges]]
          /\ visible \in SUBSET Docs
          /\ deferred \in BOOLEAN /\ wasReady \in BOOLEAN
          /\ runner \in [stage : {"idle", "refreshing"}, queued : BOOLEAN]
          /\ opening \in 0 .. MaxChanges + 1
          /\ wire \in UNION {[ds -> Snapshots] : ds \in SUBSET Docs}
          /\ server \in [Docs -> Snapshots \cup {NoSnapshot}]
          /\ changes \in 0 .. MaxChanges

IsReady(ix) == ix.active \in ix.ready

-----------------------------------------------------------------------------
\* What the push decides: the flags, the runner and the wire, as one value.
Pushing == [deferred |-> deferred, wasReady |-> wasReady, runner |-> runner, wire |-> wire]

Set(p) == /\ deferred' = p.deferred /\ wasReady' = p.wasReady
          /\ runner' = p.runner /\ wire' = p.wire

\* The snapshots of the visible editors.  They are built from the store of the
\* active base, whichever base a document belongs to.
Built(ix, shown) ==
    [d \in shown |-> [base |-> ix.active, version |-> ix.version[ix.active]]]

\* pushSnapshots, as the runner calls it.
PushSnapshots(p, ix, shown) ==
    IF ~ IsReady(ix)
    THEN [p EXCEPT !.deferred = TRUE, !.runner = [stage |-> "idle", queued |-> FALSE]]
    ELSE [p EXCEPT !.deferred = FALSE,
                   !.wire = Built(ix, shown),
                   !.runner = [stage |-> IF shown = {} THEN "idle" ELSE "refreshing",
                               queued |-> FALSE]]

\* Mutant of SchedulePush: what comes while a push is under way is dropped.
ScheduleWhenIdle(p, ix, shown) ==
    IF p.runner.stage # "idle" THEN p ELSE PushSnapshots(p, ix, shown)

\* The coalesced runner: run, or run again when the run under way is over.
SchedulePush(p, ix, shown) ==
    IF p.runner.stage # "idle" THEN [p EXCEPT !.runner.queued = TRUE]
    ELSE PushSnapshots(p, ix, shown)

\* flushWhenReady; also what the catalog listener does.
Flush(p, ix, shown) ==
    IF IsReady(ix) THEN SchedulePush(p, ix, shown) ELSE [p EXCEPT !.deferred = TRUE]

\* The status listener: the edge to ready, or a push that was put off.
OnStatus(p, ix, shown) ==
    LET due == IsReady(ix) /\ (~ p.wasReady \/ p.deferred)
    IN  [(IF due THEN SchedulePush(p, ix, shown) ELSE p)
            EXCEPT !.wasReady = IsReady(ix)]

\* Most changes of the index tell the catalog listeners, then the status ones.
OnChange(p, ix) ==
    OnStatus(Flush(p, ix, visible), ix, visible)

-----------------------------------------------------------------------------
\* registerInboundSqliteSync, with an index that may be ready or not yet open.
Init == \E ready \in SUBSET Bases, active \in Bases, shown \in SUBSET Docs :
    /\ index = [active |-> active, ready |-> ready, version |-> [b \in Bases |-> 0]]
    /\ visible = shown
    /\ wasReady = IsReady(index)
    /\ IF IsReady(index)
       THEN LET p == PushSnapshots([deferred |-> FALSE, wasReady |-> TRUE, wire |-> EmptyWire,
                                    runner |-> [stage |-> "idle", queued |-> FALSE]],
                                   index, shown)
            IN  deferred = p.deferred /\ runner = p.runner /\ wire = p.wire /\ opening = 0
       ELSE /\ deferred = TRUE /\ opening = 1 /\ wire = EmptyWire
            /\ runner = [stage |-> "idle", queued |-> FALSE]
    /\ server = [d \in Docs |-> NoSnapshot]
    /\ changes = 0

Change == changes < MaxChanges /\ changes' = changes + 1

\* A pass of the active base begins, or its handles are released.
LeavesReady ==
    /\ Change
    /\ IsReady(index)
    /\ index' = [index EXCEPT !.ready = @ \ {index.active}]
    /\ Set(OnStatus(Pushing, index', visible))
    /\ UNCHANGED <<visible, opening, server>>

\* A file is indexed in the middle of a pass.
RowsChangeMidPass ==
    /\ Change
    /\ ~ IsReady(index)
    /\ index' = [index EXCEPT !.version[index.active] = @ + 1]
    /\ Set(Flush(Pushing, index', visible))
    /\ UNCHANGED <<visible, opening, server>>

\* A pass of the active base ends, with all rows or cancelled, or one file was indexed.
\* A pass that fails leaves all as it is: the listeners are told, of a base not ready.
BecomesReady ==
    /\ ~ IsReady(index)
    /\ index' = [index EXCEPT !.ready = @ \cup {index.active}]
    /\ Set(OnChange(Pushing, index'))
    /\ UNCHANGED <<visible, opening, server, changes>>

\* A document of the active base is deleted, or renamed, while it is ready.
RowsChange ==
    /\ Change
    /\ IsReady(index)
    /\ index' = [index EXCEPT !.version[index.active] = @ + 1]
    /\ Set(OnChange(Pushing, index'))
    /\ UNCHANGED <<visible, opening, server>>

\* clearAndRebuildIndex empties the tables of a ready index and tells both
\* listeners before its pass begins, which tells the status listener again.
Cleared ==
    /\ Change
    /\ IsReady(index)
    /\ LET empty == [index EXCEPT !.version[index.active] = @ + 1]
       IN  /\ index' = [empty EXCEPT !.ready = @ \ {index.active}]
           /\ Set(OnStatus(OnChange(Pushing, empty), index', visible))
    /\ UNCHANGED <<visible, opening, server>>

\* The switcher pins another base: status, then catalog.
SwitchBase(b) ==
    /\ Change
    /\ b # index.active
    /\ index' = [index EXCEPT !.active = b, !.ready = @ \ {index.active}]
    /\ Set(Flush(OnStatus(Pushing, index', visible), index', visible))
    /\ UNCHANGED <<visible, opening, server>>

\* Navigation pins another base: the release of the old one tells the status
\* listeners, and nobody tells the catalog's.
FollowBase(b) ==
    /\ Change
    /\ b # index.active
    /\ index' = [index EXCEPT !.active = b, !.ready = @ \ {index.active}]
    /\ Set(OnStatus(Pushing, index', visible))
    /\ UNCHANGED <<visible, opening, server>>

\* The visible editors change, or the window gets the focus.
EditorsChange(shown) ==
    /\ Change
    /\ visible' = shown
    /\ IF IsReady(index)
       THEN Set(Flush(Pushing, index, shown)) /\ UNCHANGED opening
       ELSE opening' = opening + 1 /\ UNCHANGED <<deferred, wasReady, runner, wire>>
    /\ UNCHANGED <<index, server>>

\* ensureOpenForUse is over, whatever became of the index: it tells both
\* listeners, and the flush that waited for it follows.
Opened ==
    /\ opening > 0
    /\ opening' = opening - 1
    /\ LET told == Flush(OnStatus(Pushing, index, visible), index, visible)
       IN  Set(Flush(told, index, visible))
    /\ UNCHANGED <<index, visible, server, changes>>

\* The server merges the batch into what it has.
NoteSnapshot ==
    /\ wire # EmptyWire
    /\ server' = [d \in Docs |-> IF d \in DOMAIN wire THEN wire[d] ELSE server[d]]
    /\ wire' = EmptyWire
    /\ UNCHANGED <<index, visible, deferred, wasReady, runner, opening, changes>>

\* The refresh requests are answered, after the batch that went before them.
Refreshed ==
    /\ runner.stage = "refreshing" /\ wire = EmptyWire
    /\ IF runner.queued
       THEN Set(PushSnapshots(Pushing, index, visible))
       ELSE Set([Pushing EXCEPT !.runner.stage = "idle"])
    /\ UNCHANGED <<index, visible, opening, server, changes>>

Program == NoteSnapshot \/ Refreshed \/ Opened

Next == \/ LeavesReady \/ RowsChangeMidPass \/ BecomesReady \/ RowsChange \/ Cleared
        \/ \E b \in Bases : SwitchBase(b) \/ FollowBase(b)
        \/ \E shown \in SUBSET Docs : EditorsChange(shown)
        \/ Program

Spec == Init /\ [][Next]_pushVars

-----------------------------------------------------------------------------
\* What holds in the end: the server has, for each visible document of a ready base,
\* the last rows of that base; unless what it has was built from the store of
\* another one.
LastRowsThere ==
    IsReady(index) =>
        \A d \in visible : Owner[d] = index.active =>
            /\ server[d] # NoSnapshot
            /\ server[d].base = index.active =>
                  server[d].version = index.version[index.active]
=============================================================================
