------------------------------- MODULE IdeaSearch -------------------------------
(***************************************************************************)
(* The search pane: the web view of the activity bar (app.svelte.ts), which *)
(* asks for pages of hits and shows them, and the host's searchIdeas       *)
(* (activity-bar-webview-provider.ts), which gives up a search when the     *)
(* user navigates or asks for another.  Messages keep their order.          *)
(*                                                                         *)
(*   box      the draft in the box, and the query the debounce timer has    *)
(*   view     what is shown: the pages, in order; applied: their query;     *)
(*            truncated: there are more; loading, more: the two spinners;   *)
(*            id: ideaSearchRequestId                                      *)
(*   ready    whether the index is ready                                   *)
(*   toHost   requests on their way, and "openIdea"                        *)
(*   flying   searches the host has begun: each waits for its turn of the   *)
(*            event loop; live: its epoch is still ideaSearchEpoch          *)
(*   toView   progress, results, errors and seeds on their way             *)
(*   note     what the code does not keep: lost, the answer that the view   *)
(*            waits for will not come; cleared, the box was emptied while   *)
(*            the current request was out                                  *)
(*   steps    how many further pages were asked for, and other acts    *)
(*                                                                         *)
(* The path filter, which decides what a page holds, is left out.          *)
(***************************************************************************)
EXTENDS Naturals, Sequences

CONSTANTS
    Queries,     \* what the user searches for
    NoText,      \* the empty box
    Pages,       \* how many pages of hits a query has
    MaxLoads, MaxActs   \* bounds: further pages asked for, and other acts

VARIABLES box, view, ready, toHost, flying, toView, note, steps

searchVars == <<box, view, ready, toHost, flying, toView, note, steps>>

Texts    == Queries \cup {NoText}
Page     == [query : Queries, page : 0 .. Pages - 1]
Ids      == 0 .. MaxLoads + MaxActs
Requests == [id : Ids, query : Queries, page : 0 .. Pages - 1]

TypeOK == /\ box \in [query : Texts, timer : Texts]
          /\ view \in [pages : Seq(Page), applied : Texts, truncated : BOOLEAN,
                       loading : BOOLEAN, more : BOOLEAN, id : Ids]
          /\ ready \in BOOLEAN
          /\ \A i \in DOMAIN toHost : toHost[i].id = 0 \/ toHost[i] \in Requests
          /\ flying \subseteq [request : Requests, live : BOOLEAN]
          /\ \A i \in DOMAIN toView :
                /\ toView[i].kind \in {"progress", "results", "error", "seed"}
                /\ toView[i].request \in Requests
          /\ note \in [lost : BOOLEAN, cleared : BOOLEAN]
          /\ steps \in [loads : 0 .. MaxLoads, acts : 0 .. MaxActs]

OpenMessage == [id |-> 0]

NoHits == [pages |-> <<>>, applied |-> NoText, truncated |-> FALSE, loading |-> FALSE,
           more |-> FALSE, id |-> 0]

Init == /\ box = [query |-> NoText, timer |-> NoText]
        /\ view = NoHits
        /\ ready \in BOOLEAN
        /\ toHost = <<>> /\ flying = {} /\ toView = <<>>
        /\ note = [lost |-> FALSE, cleared |-> FALSE]
        /\ steps = [loads |-> 0, acts |-> 0]

Act == steps.acts < MaxActs /\ steps' = [steps EXCEPT !.acts = @ + 1]
HostAlone == UNCHANGED <<ready, flying>>

\* A request of the view is not answered yet.
Waiting == view.loading \/ view.more

-----------------------------------------------------------------------------
(* The web view *)

\* searchIdeas of the view: a new request, and the only one it waits for.
Ask(query, page) ==
    /\ view' = [view EXCEPT !.id = @ + 1, !.loading = (page = 0), !.more = (page > 0)]
    /\ toHost' = Append(toHost, [id |-> view.id + 1, query |-> query, page |-> page])
    /\ note' = [note EXCEPT !.lost = FALSE]

\* onIdeaSearchInput: the user types; the hits stay while he does.
Type(query) ==
    /\ Act
    /\ query # box.query
    /\ box' = [query |-> query, timer |-> query]
    /\ UNCHANGED <<view, toHost, toView, note>> /\ HostAlone

\* The current request may still be answered with hits.  A spinner does not say so:
\* an error of an earlier request stops it.
CurrentIsOut ==
    \/ \E i \in DOMAIN toHost : toHost[i].id = view.id
    \/ \E s \in flying : s.request.id = view.id
    \/ \E i \in DOMAIN toView : toView[i].kind = "results" /\ toView[i].request.id = view.id

\* The user empties the box: the pane is cleared, but its request stays current.
Clear ==
    /\ Act
    /\ box.query # NoText
    /\ box' = [query |-> NoText, timer |-> NoText]
    /\ view' = [NoHits EXCEPT !.id = view.id]
    /\ note' = [note EXCEPT !.cleared = @ \/ CurrentIsOut]
    /\ UNCHANGED <<toHost, toView>> /\ HostAlone

\* The debounce timer.
Search ==
    /\ box.timer # NoText
    /\ box' = [box EXCEPT !.timer = NoText]
    /\ Ask(box.timer, 0)
    /\ UNCHANGED <<toView, steps>> /\ HostAlone

MayLoadMore == view.applied # NoText /\ view.truncated /\ ~ Waiting

\* "Load more", after the pages shown.
LoadMore ==
    /\ MayLoadMore
    /\ steps.loads < MaxLoads /\ steps' = [steps EXCEPT !.loads = @ + 1]
    /\ Ask(view.applied, view.pages[Len(view.pages)].page + 1)
    /\ UNCHANGED <<box, toView>> /\ HostAlone

\* A hit is opened: the view drops its request, but for the second spinner.
OpenIdea ==
    /\ Act
    /\ view.pages # <<>>
    /\ box' = [box EXCEPT !.timer = NoText]
    /\ view' = [view EXCEPT !.id = @ + 1, !.loading = FALSE]
    /\ toHost' = Append(toHost, OpenMessage)
    /\ note' = [note EXCEPT !.lost = view.more]
    /\ UNCHANGED toView /\ HostAlone

\* Mutant of Stale: a late answer is shown.
StaleNever(r) == r.id > view.id

\* An answer to an earlier request than the current one.
Stale(r) == r.id < view.id

\* applyIdeaSearchResults: a further page of the query shown, or a new list.
Shown(r) ==
    LET page == [query |-> r.query, page |-> r.page]
    IN  IF r.page > 0 /\ r.query = view.applied THEN Append(view.pages, page) ELSE <<page>>

\* The view takes an answer.  Progress and results of an earlier request are
\* passed over; an error never is.
ViewAnswered ==
    /\ toView # <<>> /\ Head(toView).kind # "seed"
    /\ toView' = Tail(toView)
    /\ LET kind == Head(toView).kind
           r    == Head(toView).request
       IN  view' = CASE kind = "error" -> [view EXCEPT !.loading = FALSE, !.more = FALSE]
                     [] kind = "progress" /\ ~ Stale(r) -> [view EXCEPT !.loading = TRUE]
                     [] kind = "results" /\ ~ Stale(r) ->
                            [pages |-> Shown(r), applied |-> r.query,
                             truncated |-> r.page + 1 < Pages,
                             loading |-> FALSE, more |-> FALSE, id |-> view.id]
                     [] OTHER -> view
    /\ UNCHANGED <<box, toHost, note, steps>> /\ HostAlone

\* The view is seeded with a query and searches at once; its timer goes on.
ViewSeeded ==
    /\ toView # <<>> /\ Head(toView).kind = "seed"
    /\ toView' = Tail(toView)
    /\ box' = [box EXCEPT !.query = Head(toView).request.query]
    /\ Ask(Head(toView).request.query, 0)
    /\ UNCHANGED steps /\ HostAlone

-----------------------------------------------------------------------------
(* The host *)

\* ideaSearchEpoch moves: what the host has begun is given up.
GivenUp == {[s EXCEPT !.live = FALSE] : s \in flying}

Send(kind, r) == toView' = Append(toView, [kind |-> kind, request |-> r])

\* openSearch, for a command.
OpenSearch(query) ==
    /\ Act
    /\ Send("seed", [id |-> 0, query |-> query, page |-> 0])
    /\ UNCHANGED <<box, view, toHost, note>> /\ HostAlone

\* The user goes to another document: beginInteractiveNavigation gives up what the
\* host has begun, and the view is not told.
Navigate ==
    /\ Act
    /\ flying' = GivenUp
    /\ note' = [note EXCEPT !.lost = @ \/ \E s \in flying : s.request.id = view.id]
    /\ UNCHANGED <<box, view, ready, toHost, toView>>

IndexChanges == /\ Act
                /\ ready' = ~ ready
                /\ UNCHANGED <<box, view, toHost, flying, toView, note>>

\* Mutant of NotReady: a search of an index that is not ready is dropped.
NotReadySilent(r) == UNCHANGED <<flying, toView>>

NotReady(r) == Send("error", r) /\ UNCHANGED flying

\* searchIdeas of the host, up to its yield; or the opening of a hit.
HostReceives ==
    /\ toHost # <<>>
    /\ toHost' = Tail(toHost)
    /\ LET r == Head(toHost)
       IN  \/ r = OpenMessage /\ flying' = GivenUp /\ UNCHANGED toView
           \/ r # OpenMessage /\ ~ ready /\ NotReady(r)
           \/ /\ r # OpenMessage /\ ready
              /\ flying' = GivenUp \cup {[request |-> r, live |-> TRUE]}
              /\ IF r.page = 0 THEN Send("progress", r) ELSE UNCHANGED toView
    /\ UNCHANGED <<box, view, ready, note, steps>>

\* Its turn of the event loop: an answer, unless it was given up.
Answer ==
    \E s \in flying :
        /\ flying' = flying \ {s}
        /\ IF s.live THEN Send(IF ready THEN "results" ELSE "error", s.request)
                     ELSE UNCHANGED toView
        /\ UNCHANGED <<box, view, ready, toHost, note, steps>>

Program == Search \/ ViewAnswered \/ ViewSeeded \/ HostReceives \/ Answer

Next == \/ \E q \in Queries : Type(q) \/ OpenSearch(q)
        \/ Clear \/ LoadMore \/ OpenIdea \/ Navigate \/ IndexChanges
        \/ Program

Spec == Init /\ [][Next]_searchVars

-----------------------------------------------------------------------------
\* What holds in the end: neither spinner turns, unless the user navigated away from a
\* search that the host had begun, or opened a hit while a further page was on its way.
NoSpinner == Waiting => note.lost

\* The pages shown are the first pages of one query, each once and in order, unless
\* the box was emptied while the current request was out.
PagesContiguous ==
    ~ note.cleared =>
        \A i \in DOMAIN view.pages :
            view.pages[i] = [query |-> view.applied, page |-> i - 1]
=============================================================================
