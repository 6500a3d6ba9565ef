------------------------------- MODULE GraphPanel -------------------------------
(***************************************************************************)
(* The Graph tab of the Ideas Summary: its web view (ideas-summary's        *)
(* app.svelte.ts and GraphView.svelte) and the panel that builds the slices *)
(* (ideas-summary-panel.ts).  The tab is the active one.                    *)
(*                                                                         *)
(*   index     the base pinned, whether its index is ready, and whether a   *)
(*             sync runs that will make it so                              *)
(*   host      query: graphQuery; pending: graphSlicePending; timer: whether *)
(*             statusPostTimer is set; kicked: syncWorkspace().then(...);    *)
(*             failed: the last request taken up ended in an error (a note)  *)
(*   view      graph.query, graph.slice, graph.loading, whether there is    *)
(*             graph.error; wasReady: the last status; typed: the query the *)
(*             search timer has; asked: the last query posted (a note)      *)
(*   toHost    loadGraph and selectBase messages on their way               *)
(*   toView    statuses, slices, intents, restored ui states and errors     *)
(*   moved     the base was changed after the last request was answered;    *)
(*             the code keeps no such note                                  *)
(*   acts      how often the user, the index and the time-out acted         *)
(*                                                                         *)
(* The store's calls are synchronous, so a slice is built before the host   *)
(* takes the next message: a run of runGraphSlice is one step, and of the   *)
(* runs one turn starts the generation lets one answer.                     *)
(***************************************************************************)
EXTENDS Naturals, Sequences

CONSTANTS
    Texts,    \* what the user filters by
    Centres,  \* the ideas a graph may be centred on
    Bases,
    None,     \* no filter, no centre, no query, no slice
    MaxActs   \* bound

VARIABLES index, host, view, toHost, toView, moved, acts

graphVars == <<index, host, view, toHost, toView, moved, acts>>

Queries == [search : Texts \cup {None}, centre : Centres \cup {None}]
Slices  == [query : Queries, base : Bases]

TypeOK == /\ index \in [base : Bases, ready : BOOLEAN, syncing : BOOLEAN]
          /\ host \in [query : Queries, pending : BOOLEAN, timer : BOOLEAN, kicked : BOOLEAN,
                       failed : BOOLEAN]
          /\ view \in [query : Queries, slice : Slices \cup {None}, loading : BOOLEAN,
                       error : BOOLEAN, wasReady : BOOLEAN, typed : Queries \cup {None},
                       asked : Queries \cup {None}]
          /\ \A i \in DOMAIN toHost : toHost[i].kind \in {"loadGraph", "selectBase"}
          /\ \A i \in DOMAIN toView :
                toView[i].kind \in {"status", "slice", "navigate", "uiState", "error"}
          /\ moved \in BOOLEAN
          /\ acts \in 0 .. MaxActs

Whole == [search |-> None, centre |-> None]

\* The panel is open and connected; nothing was asked for.
Init == /\ \E b \in Bases, r \in BOOLEAN :
              /\ index = [base |-> b, ready |-> r, syncing |-> ~ r]
              /\ view = [query |-> Whole, slice |-> None, loading |-> FALSE, error |-> FALSE,
                         wasReady |-> r, typed |-> None, asked |-> None]
        /\ host = [query |-> Whole, pending |-> FALSE, timer |-> FALSE, kicked |-> FALSE,
                   failed |-> FALSE]
        /\ toHost = <<>> /\ toView = <<>>
        /\ moved = FALSE /\ acts = 0

Act == acts < MaxActs /\ acts' = acts + 1

-----------------------------------------------------------------------------
(* The host *)

\* The query a slice is built for: with neither centre nor filter, an idea of the
\* active editor becomes the centre, if it has one.
Resolved(q) == IF q = Whole THEN {[q EXCEPT !.centre = c] : c \in Centres \cup {None}} ELSE {q}

\* The slice is built and posted.
Build(h, ix, posted) ==
    \E q \in Resolved(h.query) :
        /\ host' = [h EXCEPT !.query = q, !.pending = FALSE, !.failed = FALSE]
        /\ toView' = Append(posted, [kind |-> "slice", slice |-> [query |-> q, base |-> ix.base]])

\* The catch of runGraphSlice: whatever threw, before or after the query was resolved,
\* nothing is waited for any more and an error is posted.
BuildFails(h, posted) ==
    \E q \in {h.query} \cup Resolved(h.query) :
        /\ host' = [h EXCEPT !.query = q, !.pending = FALSE, !.failed = TRUE]
        /\ toView' = Append(posted, [kind |-> "error"])

\* runGraphSlice with host and index as given, after the messages `posted`.
RunGraphSlice(h, ix, posted) ==
    IF h.pending /\ ix.ready THEN Build(h, ix, posted) \/ BuildFails(h, posted)
    ELSE host' = h /\ toView' = posted

\* A status is posted; one equal to the message before it adds nothing.
Reported(posted, ix) ==
    LET status == [kind |-> "status", ready |-> ix.ready]
    IN  IF posted # <<>> /\ posted[Len(posted)] = status THEN posted ELSE Append(posted, status)

\* Mutant of SendIndexStatus: the status path builds no slice.
SendStatusOnly(h, ix, posted) ==
    host' = h /\ toView' = Reported(posted, ix)

\* sendIndexStatus: a slice that waited for the index follows the status.
SendIndexStatus(h, ix, posted) == RunGraphSlice(h, ix, Reported(posted, ix))

\* Mutant of LoadGraph: a request under way is not replaced.
LoadGraphOnce(q) ==
    LET h == IF host.pending THEN host ELSE [host EXCEPT !.query = q, !.pending = TRUE]
    IN  IF index.ready THEN RunGraphSlice(h, index, toView) /\ UNCHANGED index
        ELSE /\ host' = [h EXCEPT !.kicked = TRUE]
             /\ index' = [index EXCEPT !.syncing = TRUE]
             /\ UNCHANGED toView

\* loadGraph.  An index that is not ready is synced first.
LoadGraph(q) ==
    LET h == [host EXCEPT !.query = q, !.pending = TRUE]
    IN  IF index.ready THEN RunGraphSlice(h, index, toView) /\ UNCHANGED index
        ELSE /\ host' = [h EXCEPT !.kicked = TRUE]
             /\ index' = [index EXCEPT !.syncing = TRUE]
             /\ UNCHANGED toView

\* Another base is pinned: it is ready, or its catch-up begins.
Pinned(b, r) == [base |-> b, ready |-> r, syncing |-> ~ r]

\* selectBase: the ui state is posted and the views are bound to the base, which
\* builds a slice only if one is waited for.
SelectBase(b) ==
    \E r \in BOOLEAN :
        /\ b = index.base => r = index.ready
        /\ index' = Pinned(b, r)
        /\ moved' = (moved \/ (b # index.base /\ ~ host.pending))
        /\ SendIndexStatus([host EXCEPT !.timer = TRUE], index',
                           Append(toView, [kind |-> "uiState"]))

HostReceives ==
    /\ toHost # <<>>
    /\ toHost' = Tail(toHost)
    /\ LET m == Head(toHost)
       IN  \/ m.kind = "loadGraph" /\ LoadGraph(m.query) /\ moved' = FALSE
           \/ m.kind = "selectBase" /\ SelectBase(m.base)
    /\ UNCHANGED <<view, acts>>

\* applyNavigateIntent: the graph of one idea, from another view of the editor.
ApplyNavigateIntent(c) ==
    /\ Act
    /\ RunGraphSlice([host EXCEPT !.query.centre = c, !.pending = TRUE], index,
                     Append(toView, [kind |-> "navigate", centre |-> c]))
    /\ moved' = FALSE
    /\ UNCHANGED <<index, view, toHost>>

\* The debounce timer of the status listener.
StatusPosts ==
    /\ host.timer
    /\ SendIndexStatus([host EXCEPT !.timer = FALSE], index, toView)
    /\ UNCHANGED <<index, view, toHost, moved, acts>>

\* A sync ends: the status listener's timer is set, and whoever asked for the sync
\* posts the status at once.
SyncEnds ==
    /\ index.syncing
    /\ index' = [index EXCEPT !.ready = TRUE, !.syncing = FALSE]
    /\ LET h == [host EXCEPT !.timer = TRUE, !.kicked = FALSE]
       IN  IF host.kicked THEN SendIndexStatus(h, index', toView)
           ELSE host' = h /\ UNCHANGED toView
    /\ UNCHANGED <<view, toHost, moved, acts>>

\* A sync begins, or the index is released while idle.
IndexLeaves(syncing) ==
    /\ Act
    /\ index.ready
    /\ index' = [index EXCEPT !.ready = FALSE, !.syncing = syncing]
    /\ host' = [host EXCEPT !.timer = TRUE]
    /\ UNCHANGED <<view, toHost, toView, moved>>

\* The base is switched elsewhere: the panel hears of the status only.
BaseChanges(b, r) ==
    /\ Act
    /\ b # index.base
    /\ index' = Pinned(b, r)
    /\ host' = [host EXCEPT !.timer = TRUE]
    /\ moved' = (moved \/ ~ host.pending)
    /\ UNCHANGED <<view, toHost, toView>>

\* Another request of the view fails.
OtherFails ==
    /\ Act
    /\ toView' = Append(toView, [kind |-> "error"])
    /\ UNCHANGED <<index, host, view, toHost, moved>>

-----------------------------------------------------------------------------
(* The web view *)

\* loadGraph of the view, in state v.
Load(v, q) ==
    /\ view' = [v EXCEPT !.query = q, !.loading = TRUE, !.error = FALSE, !.asked = q]
    /\ toHost' = Append(toHost, [kind |-> "loadGraph", query |-> q])

\* requestGraph: nothing to do while one loads, or when one is shown.
RequestGraph(v) ==
    IF v.loading \/ (v.slice # None /\ ~ v.error) THEN view' = v /\ UNCHANGED toHost
    ELSE Load(v, v.query)

ViewAlone == UNCHANGED <<index, host, moved>>

\* The user opens the tab.
SetTab ==
    /\ Act /\ RequestGraph(view) /\ ViewAlone /\ UNCHANGED toView

\* The user types a filter; a later one replaces it in the timer.
HandleSearch(t) ==
    /\ Act
    /\ LET q == [search |-> t, centre |-> None]
       IN  view' = [view EXCEPT !.query = q, !.typed = q]
    /\ ViewAlone /\ UNCHANGED <<toHost, toView>>

\* The search timer: the query as it was when the user typed.
EmitQuery ==
    /\ view.typed # None
    /\ Load([view EXCEPT !.typed = None], view.typed)
    /\ ViewAlone /\ UNCHANGED <<toView, acts>>

\* The user centres the graph on a node.
FocusNode(c) ==
    /\ Act /\ Load(view, [view.query EXCEPT !.centre = c]) /\ ViewAlone /\ UNCHANGED toView

PickBase(b) ==
    /\ Act
    /\ toHost' = Append(toHost, [kind |-> "selectBase", base |-> b])
    /\ ViewAlone /\ UNCHANGED <<view, toView>>

\* The 20 seconds of loadGraph are over.
LoadTimesOut ==
    /\ Act
    /\ view.loading
    /\ view' = [view EXCEPT !.loading = FALSE, !.error = TRUE]
    /\ ViewAlone /\ UNCHANGED <<toHost, toView>>

\* handleExtensionMessage.
ViewReceives ==
    /\ toView # <<>>
    /\ toView' = Tail(toView)
    /\ LET m == Head(toView)
           seen == [view EXCEPT !.wasReady = m.ready]
       IN  \/ /\ m.kind = "status"
              /\ IF m.ready /\ ~ view.wasReady /\ view.slice = None
                 THEN Load(seen, view.query)
                 ELSE view' = seen /\ UNCHANGED toHost
           \/ /\ m.kind = "slice"
              /\ view' = [view EXCEPT !.query = m.slice.query, !.slice = m.slice,
                                      !.loading = FALSE, !.error = FALSE]
              /\ UNCHANGED toHost
           \/ m.kind = "uiState" /\ RequestGraph(view)
           \/ m.kind = "navigate" /\ Load(view, [view.query EXCEPT !.centre = m.centre])
           \/ /\ m.kind = "error"
              /\ view' = [view EXCEPT !.error = @ \/ view.loading, !.loading = FALSE]
              /\ UNCHANGED toHost
    /\ ViewAlone /\ UNCHANGED acts

Program == HostReceives \/ StatusPosts \/ SyncEnds \/ EmitQuery \/ ViewReceives

Next == \/ \E c \in Centres : ApplyNavigateIntent(c) \/ FocusNode(c)
        \/ \E s \in BOOLEAN : IndexLeaves(s)
        \/ \E b \in Bases, r \in BOOLEAN : BaseChanges(b, r)
        \/ \E t \in Texts : HandleSearch(t)
        \/ \E b \in Bases : PickBase(b)
        \/ OtherFails \/ SetTab \/ LoadTimesOut
        \/ Program

Spec == Init /\ [][Next]_graphVars

-----------------------------------------------------------------------------
\* What holds in the end: while the index is ready every request for the graph is
\* answered, be it by an error, and the spinner needs no time-out.
NothingPending == index.ready => ~ host.pending /\ ~ view.loading

\* What holds in the end: the graph shown answers the last request of the view, from
\* the base that is pinned, unless the base was changed when it was answered already or
\* the slice could not be built.
LastAskedShown ==
    index.ready /\ ~ host.failed /\ view.asked # None =>
        /\ view.slice # None
        /\ view.slice.query.search = view.asked.search
        /\ view.asked # Whole => view.slice.query = view.asked
        /\ ~ moved => view.slice.base = index.base
=============================================================================
