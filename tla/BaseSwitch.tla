------------------------------- MODULE BaseSwitch -------------------------------
(***************************************************************************)
(* Switching the base: the switcher of the activity bar's web view, the    *)
(* host's setActiveBaseId and activateBaseForPath, the release of the base *)
(* that is left and the catch-up of the one that is entered                 *)
(* (index-service.ts, activity-bar-webview-provider.ts, app.svelte.ts).    *)
(*                                                                         *)
(*   view    the web view: the base the user asked for and waits for, and  *)
(*           the one the last health report named                          *)
(*   toHost  the selectBase messages on their way                          *)
(*   toView  the health reports on their way, by the base they name, and   *)
(*           "refused"; a report equal to the one before it adds nothing    *)
(*   pinned  activeBaseId                                                  *)
(*   store   per base, its index: "closed"; "idle", open and not synced;    *)
(*           "syncing"; "synced", ready since a pass ended, all its files   *)
(*           or cancelled; "changed", ready since one watched change and    *)
(*           not synced since it was opened; or "error"                     *)
(*   pass    per base, the sync in flight: "live", or "broken" once its     *)
(*           index was closed under it                                     *)
(*   caught  the bases in catchUpInFlight                                  *)
(*   adrift  no catch-up is owed to the pinned base: it was released while  *)
(*           idle, its pass failed, or it was pinned while a broken pass    *)
(*           held its place.  The code keeps no such note.                 *)
(*   steps   how many times the user, the editor and the idle timer acted   *)
(***************************************************************************)
EXTENDS Naturals, Sequences

CONSTANTS
    Bases,     \* the bases registered
    GoneBase,  \* a base that the view still lists and the registry has lost
    None,      \* no base
    MaxSelects, MaxEvents   \* bounds: of the user, and of everything else

VARIABLES view, toHost, toView, pinned, store, pass, caught, adrift, steps

switchVars == <<view, toHost, toView, pinned, store, pass, caught, adrift, steps>>

Listed == Bases \cup {GoneBase}

TypeOK == /\ view \in [pending : Listed \cup {None}, shown : Bases]
          /\ toHost \in Seq(Listed)
          /\ toView \in Seq(Bases \cup {"refused"})
          /\ pinned \in Bases
          /\ store \in [Bases -> {"closed", "idle", "syncing", "synced", "changed", "error"}]
          /\ pass \in [Bases -> {"none", "live", "broken"}]
          /\ caught \in SUBSET Bases
          /\ adrift \in BOOLEAN
          /\ steps \in [selects : 0 .. MaxSelects, events : 0 .. MaxEvents]

Event == /\ steps.events < MaxEvents
         /\ steps' = [steps EXCEPT !.events = @ + 1]

\* At the start one base is pinned and synced.
Init == \E b \in Bases :
    /\ view = [pending |-> None, shown |-> b]
    /\ toHost = <<>> /\ toView = <<>>
    /\ pinned = b
    /\ store = [c \in Bases |-> IF c = b THEN "synced" ELSE "closed"]
    /\ pass = [c \in Bases |-> "none"]
    /\ caught = {} /\ adrift = FALSE
    /\ steps = [selects |-> 0, events |-> 0]

\* notifyStatus: the listener posts the health of the base pinned now.
Reported(reports, b) ==
    IF reports # <<>> /\ reports[Len(reports)] = b THEN reports ELSE Append(reports, b)

\* The stores once base b is released, unless it stays pinned; a pass that runs
\* on it goes on, on a runtime that is closed.
Released(b, next) == IF b = next THEN store ELSE [store EXCEPT ![b] = "closed"]
Broken(b, next) == IF b = next \/ pass[b] = "none" THEN pass ELSE [pass EXCEPT ![b] = "broken"]

Unsynced == {"closed", "idle", "error"}

\* Mutant of Owed: one catch-up at a time, whichever base it is for.
OwedOnce(b, open) == open[b] \in Unsynced /\ caught = {}

\* scheduleBaseCatchUp goes on for a base that is neither ready, nor syncing, nor
\* caught up.
Owed(b, open) == open[b] \in Unsynced /\ b \notin caught

\* scheduleBaseCatchUp(b), with the stores and passes as given.  ensureReady
\* opens the base and starts a pass, or joins the one in flight.
CatchUp(b, open, running) ==
    /\ caught' = IF Owed(b, open) THEN caught \cup {b} ELSE caught
    /\ IF Owed(b, open) /\ running[b] = "none"
       THEN store' = [open EXCEPT ![b] = "syncing"] /\ pass' = [running EXCEPT ![b] = "live"]
       ELSE store' = open /\ pass' = running
    /\ adrift' = (running[b] = "broken")

-----------------------------------------------------------------------------
\* The user picks a base in the switcher.
Select(b) ==
    /\ steps.selects < MaxSelects
    /\ ~ (b = view.shown /\ view.pending = None)
    /\ view' = [view EXCEPT !.pending = b]
    /\ toHost' = Append(toHost, b)
    /\ steps' = [steps EXCEPT !.selects = @ + 1]
    /\ UNCHANGED <<toView, pinned, store, pass, caught, adrift>>

\* Mutant of Refused: the view is not told.
RefusedSilently == UNCHANGED toView

\* The error message of a selectBase that found no such base.
Refused == toView' = Append(toView, "refused")

SetActiveBaseId(b) ==
    /\ pinned' = b
    /\ toView' = Reported(toView, b)
    /\ CatchUp(b, Released(pinned, b), Broken(pinned, b))

\* The host takes a selectBase message.
HostSelects ==
    /\ toHost # <<>>
    /\ toHost' = Tail(toHost)
    /\ \/ Head(toHost) \in Bases /\ SetActiveBaseId(Head(toHost))
       \/ /\ Head(toHost) = GoneBase
          /\ Refused
          /\ UNCHANGED <<pinned, store, pass, caught, adrift>>
    /\ UNCHANGED <<view, steps>>

\* activateBaseForPath: the editor shows a file of b.  Only the release reports.
Navigate(b) ==
    /\ Event
    /\ pinned' = b
    /\ toView' = IF b = pinned THEN toView ELSE Reported(toView, b)
    /\ CatchUp(b, Released(pinned, b), Broken(pinned, b))
    /\ UNCHANGED <<view, toHost>>

\* A catch-up ends: its pass is over or was cancelled, the index could not be opened
\* or the pass failed, or it ran on a closed runtime for nothing.
PassEnds(b) ==
    /\ pass[b] # "none"
    /\ \/ /\ pass[b] = "live"
          /\ store' = [store EXCEPT ![b] = "synced"]
          /\ UNCHANGED adrift
       \/ /\ pass[b] = "live"
          /\ store' = [store EXCEPT ![b] = "error"]
          /\ adrift' = (adrift \/ b = pinned)
       \/ pass[b] = "broken" /\ UNCHANGED <<store, adrift>>
    /\ pass' = [pass EXCEPT ![b] = "none"]
    /\ caught' = caught \ {b}
    /\ toView' = Reported(toView, pinned)
    /\ UNCHANGED <<view, toHost, pinned, steps>>

\* A watched change opens the base of the file.  A file that is indexed leaves it
\* ready, with no pass; one that is deleted leaves it open; or it cannot be opened.
FileChanged(b) ==
    /\ Event
    /\ store[b] \in Unsynced /\ pass[b] = "none"
    /\ \E end \in {"changed", "idle", "error"} :
          /\ store[b] = "idle" => end # "error"
          /\ store' = [store EXCEPT ![b] = end]
    /\ toView' = Reported(toView, pinned)
    /\ UNCHANGED <<view, toHost, pinned, pass, caught, adrift>>

\* The idle timer releases every base.
ReleaseUnusedArtifacts ==
    /\ Event
    /\ store' = [b \in Bases |-> "closed"]
    /\ pass' = [b \in Bases |-> IF pass[b] = "none" THEN "none" ELSE "broken"]
    /\ adrift' = TRUE
    /\ toView' = Reported(toView, pinned)
    /\ UNCHANGED <<view, toHost, pinned, caught>>

\* The window gets the focus back.
WindowFocused ==
    /\ Event
    /\ CatchUp(pinned, store, pass)
    /\ UNCHANGED <<view, toHost, toView, pinned>>

\* The web view takes a health report or a refusal.
ViewReceives ==
    /\ toView # <<>>
    /\ toView' = Tail(toView)
    /\ LET m == Head(toView)
       IN  view' = IF m = "refused" THEN [view EXCEPT !.pending = None]
                   ELSE [pending |-> IF m = view.pending THEN None ELSE view.pending,
                         shown   |-> m]
    /\ UNCHANGED <<toHost, pinned, store, pass, caught, adrift, steps>>

Program == \/ HostSelects
           \/ ViewReceives
           \/ \E b \in Bases : PassEnds(b)

Next == \/ \E b \in Listed : Select(b)
        \/ \E b \in Bases : Navigate(b) \/ FileChanged(b)
        \/ ReleaseUnusedArtifacts
        \/ WindowFocused
        \/ Program

Spec == Init /\ [][Next]_switchVars

-----------------------------------------------------------------------------
\* The switcher waits for the base the user asked for; it must not forever.
SwitchWaits == view.pending # None

\* What holds in the end: the pinned base is ready; a pass of it ended, or it was
\* ready already when it was pinned, since a watched change had opened it.  But not if
\* it was released while idle, if its pass failed, or if it was pinned again before its
\* broken pass was over.
PinnedOpen == ~ adrift => store[pinned] \in {"synced", "changed"}
=============================================================================
