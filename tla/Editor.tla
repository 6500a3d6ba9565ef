--------------------------------- MODULE Editor ---------------------------------
(***************************************************************************)
(* The parts of the editor that do not share state, and the click          *)
(* sessions, side by side.  A behaviour is one of one part, the part in    *)
(* `focus`; the variables of the others are idle, those of Bases as they   *)
(* are at first.  A name that two parts use stands for the variable of the *)
(* part in focus.                                                          *)
(***************************************************************************)
EXTENDS Bases, FiniteSets

CONSTANTS
    None, Idle,
    Open, GoneBase, MaxSelects, MaxSwitchEvents,          \* BaseSwitch; Open also of GraphPanel
    Docs, Owner, MaxPushChanges,                          \* InboundPush
    IdeaCount, FileOf, BatchSize, MaxPerWave, Ahead, MaxFetch, MaxPumpEvents,   \* GitDatesPump
    Searches, Pages, MaxLoads, MaxSearchActs,             \* IdeaSearch
    Filters, Centres, MaxGraphActs,                       \* GraphPanel
    Paths, Synced, Renames, MaxRenameChanges,             \* EditorRenames
    Callers, Keys, Clickable, FileTargets, Others, Asked, Lists, Limit,     \* ClickSessions
    Gone, MaxSessions, MaxCalls, MaxUpsets

VARIABLES focus,
          view, toHost, toView, steps, index, changes, ready,
          pinned, store, pass, caught, adrift,
          visible, deferred, wasReady, runner, opening, wire, server,
          missing, attempted, activeFile, timer, wave, events,
          box, flying, note,
          host, moved, acts,
          disk, rows, watcher, queue, pendingPaths, rename,
          sessions, entries, print, call, spent, cut, shown, crossed

Switch == INSTANCE BaseSwitch WITH Bases <- Open, MaxEvents <- MaxSwitchEvents
Push == INSTANCE InboundPush WITH NoSnapshot <- None, MaxChanges <- MaxPushChanges
Pump == INSTANCE GitDatesPump WITH
    Count <- IdeaCount, NoFile <- None, active <- activeFile, MaxEvents <- MaxPumpEvents
Search == INSTANCE IdeaSearch WITH Queries <- Searches, NoText <- None, MaxActs <- MaxSearchActs
Graph == INSTANCE GraphPanel WITH Texts <- Filters, Bases <- Open, MaxActs <- MaxGraphActs
Renaming == INSTANCE EditorRenames WITH MaxChanges <- MaxRenameChanges, pending <- pendingPaths
Click == INSTANCE ClickSessions WITH Ideas <- Clickable

\* What the constants are.
ASSUME EditorAssumption ==
    /\ {MaxSelects, MaxSwitchEvents, MaxPushChanges, MaxPumpEvents, MaxLoads, MaxSearchActs,
        MaxGraphActs, MaxRenameChanges} \subseteq Nat
    /\ {IdeaCount, BatchSize, MaxPerWave, Ahead, MaxFetch} \subseteq Nat
    /\ Pages \in Nat \ {0}
    /\ Synced \subseteq Paths /\ None \notin Paths
    /\ None \notin Graph!Slices
    /\ Click!Parameters

-----------------------------------------------------------------------------
ofSwitch   == <<pinned, store, pass, caught, adrift>>
ofPush     == <<visible, deferred, wasReady, runner, opening, wire, server>>
ofPump     == <<missing, attempted, activeFile, timer, wave, events>>
ofSearch   == <<box, flying, note>>
ofGraph    == <<host, moved, acts>>
ofRenaming == <<disk, rows, watcher, queue, pendingPaths, rename>>
ofClick    == <<sessions, entries, print, call, spent, cut, shown, crossed>>
ofView     == <<view, toHost, toView>>

editorVars == <<focus, baseVars, steps, index, changes, ready, ofSwitch, ofPush, ofPump, ofSearch,
                ofGraph, ofRenaming, ofClick, ofView>>

SwitchIdle   == pinned = Idle /\ store = Idle /\ pass = Idle /\ caught = Idle /\ adrift = Idle
PushIdle     == /\ visible = Idle /\ deferred = Idle /\ wasReady = Idle /\ runner = Idle
                /\ opening = Idle /\ wire = Idle /\ server = Idle
PumpIdle     == /\ missing = Idle /\ attempted = Idle /\ activeFile = Idle /\ timer = Idle
                /\ wave = Idle /\ events = Idle
SearchIdle   == box = Idle /\ flying = Idle /\ note = Idle
GraphIdle    == host = Idle /\ moved = Idle /\ acts = Idle
RenamingIdle == /\ disk = Idle /\ rows = Idle /\ watcher = Idle /\ queue = Idle
                /\ pendingPaths = Idle /\ rename = Idle
ClickIdle    == /\ sessions = Idle /\ entries = Idle /\ print = Idle /\ call = Idle
                /\ spent = Idle /\ cut = Idle /\ shown = Idle /\ crossed = Idle
ViewIdle     == view = Idle /\ toHost = Idle /\ toView = Idle

EditorInit ==
  /\ Init
  /\ \/ /\ focus = "bases"
        /\ SwitchIdle /\ PushIdle /\ PumpIdle /\ SearchIdle /\ GraphIdle /\ RenamingIdle /\ ClickIdle
        /\ ViewIdle /\ steps = Idle /\ index = Idle /\ changes = Idle /\ ready = Idle
     \/ /\ focus = "switch" /\ Switch!Init
        /\ PushIdle /\ PumpIdle /\ SearchIdle /\ GraphIdle /\ RenamingIdle /\ ClickIdle
        /\ index = Idle /\ changes = Idle /\ ready = Idle
     \/ /\ focus = "push" /\ Push!Init
        /\ SwitchIdle /\ PumpIdle /\ SearchIdle /\ GraphIdle /\ RenamingIdle /\ ClickIdle
        /\ ViewIdle /\ steps = Idle /\ ready = Idle
     \/ /\ focus = "pump" /\ Pump!Init
        /\ SwitchIdle /\ PushIdle /\ SearchIdle /\ GraphIdle /\ RenamingIdle /\ ClickIdle
        /\ ViewIdle /\ steps = Idle /\ index = Idle /\ changes = Idle
     \/ /\ focus = "search" /\ Search!Init
        /\ SwitchIdle /\ PushIdle /\ PumpIdle /\ GraphIdle /\ RenamingIdle /\ ClickIdle
        /\ index = Idle /\ changes = Idle
     \/ /\ focus = "graph" /\ Graph!Init
        /\ SwitchIdle /\ PushIdle /\ PumpIdle /\ SearchIdle /\ RenamingIdle /\ ClickIdle
        /\ steps = Idle /\ changes = Idle /\ ready = Idle
     \/ /\ focus = "renaming" /\ Renaming!Init
        /\ SwitchIdle /\ PushIdle /\ PumpIdle /\ SearchIdle /\ GraphIdle /\ ClickIdle
        /\ ViewIdle /\ steps = Idle /\ index = Idle /\ ready = Idle
     \/ /\ focus = "click" /\ Click!Init
        /\ SwitchIdle /\ PushIdle /\ PumpIdle /\ SearchIdle /\ GraphIdle /\ RenamingIdle
        /\ ViewIdle /\ steps = Idle /\ index = Idle /\ changes = Idle /\ ready = Idle

\* What the part in focus leaves alone.
besideBases    == <<focus, ofClick, ofSwitch, ofPush, ofPump, ofSearch, ofGraph, ofRenaming, ofView,
                    steps, index, changes, ready>>
besideSwitch   == <<focus, ofClick, baseVars, ofPush, ofPump, ofSearch, ofGraph, ofRenaming, index,
                    changes, ready>>
besidePush     == <<focus, ofClick, baseVars, ofSwitch, ofPump, ofSearch, ofGraph, ofRenaming, ofView,
                    steps, ready>>
besidePump     == <<focus, ofClick, baseVars, ofSwitch, ofPush, ofSearch, ofGraph, ofRenaming, ofView,
                    steps, index, changes>>
besideSearch   == <<focus, ofClick, baseVars, ofSwitch, ofPush, ofPump, ofGraph, ofRenaming, index,
                    changes>>
besideGraph    == <<focus, ofClick, baseVars, ofSwitch, ofPush, ofPump, ofSearch, ofRenaming, steps,
                    changes, ready>>
besideRenaming == <<focus, ofClick, baseVars, ofSwitch, ofPush, ofPump, ofSearch, ofGraph, ofView, steps,
                    index, ready>>
besideClick    == <<focus, baseVars, ofSwitch, ofPush, ofPump, ofSearch, ofGraph, ofRenaming,
                    ofView, steps, index, changes, ready>>

\* The steps that the host and the web view take of themselves.
Program ==
    \/ focus = "switch" /\ Switch!Program /\ UNCHANGED besideSwitch
    \/ focus = "push"   /\ Push!Program   /\ UNCHANGED besidePush
    \/ focus = "pump"   /\ Pump!Program   /\ UNCHANGED besidePump
    \/ focus = "search" /\ Search!Program /\ UNCHANGED besideSearch
    \/ focus = "graph"  /\ Graph!Program  /\ UNCHANGED besideGraph

EditorNext ==
    \/ focus = "bases"    /\ Next          /\ UNCHANGED besideBases
    \/ focus = "switch"   /\ Switch!Next   /\ UNCHANGED besideSwitch
    \/ focus = "push"     /\ Push!Next     /\ UNCHANGED besidePush
    \/ focus = "pump"     /\ Pump!Next     /\ UNCHANGED besidePump
    \/ focus = "search"   /\ Search!Next   /\ UNCHANGED besideSearch
    \/ focus = "graph"    /\ Graph!Next    /\ UNCHANGED besideGraph
    \/ focus = "renaming" /\ Renaming!Next /\ UNCHANGED besideRenaming
    \/ focus = "click"    /\ Click!Next    /\ UNCHANGED besideClick

EditorSpec == EditorInit /\ [][EditorNext]_editorVars /\ WF_editorVars(Program)

-----------------------------------------------------------------------------
\* The variables of the part in focus have their types.
PartTyped ==
    CASE focus = "bases"    -> TypeOK
      [] focus = "switch"   -> Switch!TypeOK
      [] focus = "push"     -> Push!TypeOK
      [] focus = "pump"     -> Pump!TypeOK
      [] focus = "search"   -> Search!TypeOK
      [] focus = "graph"    -> Graph!TypeOK
      [] focus = "renaming" -> Renaming!TypeOK
      [] focus = "click"    -> Click!TypeOK

\* The switcher never waits forever (app.svelte.ts:352-360, 737-745).
SwitchEnds == focus = "switch" /\ Switch!SwitchWaits ~> ~ (focus = "switch" /\ Switch!SwitchWaits)

\* In the end the pinned base is ready, if its catch-up did not fail
\* (index-service.ts:780-807).
PinnedOpens == <>[](focus = "switch" => Switch!PinnedOpen)

\* In the end the server has the last rows (inbound-snapshot-schedule.ts:33-52).
LastRowsArrive == <>[](focus = "push" => Push!LastRowsThere)

\* In the end every idea was asked for once (git-dates-background.ts:112-178).
Filled == <>[](focus = "pump" => Pump!AllAttempted)

\* The ideas of the active file come first (git-dates-background.ts:80-103).
EditorFirst == [][focus = "pump" => Pump!EditorFirst]_editorVars

\* No spinner of the search turns forever (activity-bar-webview-provider.ts:983-1085).
SearchEnds == <>[](focus = "search" => Search!NoSpinner)

\* The pages shown are the first of one query (app.svelte.ts:672-690).
PagesContiguous == focus = "search" => Search!PagesContiguous

\* Every request for the graph is answered, and what is shown in the end answers the
\* last one, if its slice could be built (ideas-summary-panel.ts:361-381, 563-591,
\* 985-1045).
GraphSettles == <>[](focus = "graph" => Graph!NothingPending /\ Graph!LastAskedShown)

\* The gate of a rename finds the rows under the old path
\* (register-file-mutation-hooks.ts:24-29, pending-rename-paths.ts:19-54).
GateSeesRows == focus = "renaming" => Renaming!GateSeesRows

\* The store of click sessions keeps to its limit, however the evictions of several
\* processes overlap (click_sessions.rs:150-171).
WithinLimit == focus = "click" => Click!WithinLimit

\* What a session was shown as content is shown to it again neither by a revisit nor in
\* the summaries of a rope (click.rs:317-376, rope.rs:405-451, click.rq:200).
BodyOnce == focus = "click" => Click!BodyOnce
=============================================================================
