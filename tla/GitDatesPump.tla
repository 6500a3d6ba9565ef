------------------------------ MODULE GitDatesPump ------------------------------
(***************************************************************************)
(* The background fill of git dates: the pump of                           *)
(* register-git-dates-background.ts and the wave it runs                   *)
(* (git-dates-background.ts).                                              *)
(*                                                                         *)
(*   ready      whether the index is ready                                 *)
(*   missing    the ideas in the store without dates                       *)
(*   attempted  attemptedIdeaIds: the ideas asked for in this session       *)
(*   active     the file of the active `.rq` editor, or NoFile             *)
(*   timer      whether scheduleTimer is set; what it was set for only      *)
(*              decides how long it takes                                  *)
(*   wave       running (pumpRunning): between two batches; processed;      *)
(*              stale: priorityEpoch is no longer the wave's, which is when *)
(*              pendingReschedule is set                                   *)
(*   events     how often the world acted                                  *)
(*                                                                         *)
(* Ideas are numbered in the order the store lists them.  The lists of the *)
(* store and git itself are synchronous calls, so a batch is one step.     *)
(***************************************************************************)
EXTENDS Naturals, FiniteSets, FiniteSetsExt

CONSTANTS
    Count,       \* how many ideas there are
    FileOf,      \* the file of each idea
    NoFile,      \* no `.rq` editor is active
    BatchSize,   \* GIT_DATES_BG_BATCH_SIZE
    MaxPerWave,  \* GIT_DATES_BG_MAX_PER_WAVE
    Ahead,       \* a list is asked for this many batches
    MaxFetch,    \* the most rows a list returns
    MaxEvents    \* bound: events of the index and of the editor

Ideas == 1 .. Count
RqFiles == {FileOf[i] : i \in Ideas}

VARIABLES ready, missing, attempted, active, timer, wave, events

pumpVars == <<ready, missing, attempted, active, timer, wave, events>>

NoWave == [running |-> FALSE, processed |-> 0, stale |-> FALSE]

TypeOK == /\ ready \in BOOLEAN
          /\ missing \in SUBSET Ideas
          /\ attempted \in SUBSET Ideas
          /\ active \in RqFiles \cup {NoFile}
          /\ timer \in BOOLEAN
          /\ wave \in [running : BOOLEAN, processed : 0 .. MaxPerWave, stale : BOOLEAN]
          /\ events \in 0 .. MaxEvents

-----------------------------------------------------------------------------
\* The first n of a set of ideas.
First(n, ideas) == {i \in ideas : Cardinality({j \in ideas : j <= i}) <= n}

Want == IF BatchSize <= MaxPerWave - wave.processed THEN BatchSize
        ELSE MaxPerWave - wave.processed

\* fetchLimit.
Fetch == Min({MaxFetch, Max({Want * Ahead, Want + Cardinality(attempted)})})

\* listMissing and listPriorityMissing, before the attempted ones are left out.
Listed(ideas) == First(Fetch, ideas)
OfActive(ideas) == {i \in ideas : FileOf[i] = active}

\* Mutant of Preferred: the lists are taken in the store's order.
PreferredLate(ideas, done) == First(Want, (Listed(OfActive(ideas)) \cup Listed(ideas)) \ done)

\* takePreferredIdeaIds: the active file's first.
Preferred(ideas, done) ==
    LET mine == Listed(OfActive(ideas)) \ done
        rest == Listed(ideas) \ (done \cup mine)
    IN  IF Cardinality(mine) >= Want THEN First(Want, mine)
        ELSE mine \cup First(Want - Cardinality(mine), rest)

\* Mutant of AfterWave: the wave for a new file is left to another event.
AfterFullWave(w, set) ==
    /\ wave' = NoWave
    /\ timer' = (set \/ (ready /\ w.processed >= MaxPerWave))

\* After wave w: again for the new file, or because the wave was full.  `set` says
\* whether the timer is set already.
AfterWave(w, set) ==
    /\ wave' = NoWave
    /\ timer' = (set \/ (ready /\ (w.stale \/ w.processed >= MaxPerWave)))

\* One turn of the wave's loop, from its start or from the end of the pause
\* between two batches: git dates some of the batch.
Turn(set) ==
    LET batch == Preferred(missing, attempted)
    IN  IF ~ ready \/ wave.stale \/ batch = {}
        THEN AfterWave(wave, set) /\ UNCHANGED <<missing, attempted>>
        ELSE \E dated \in SUBSET batch :
                LET left == missing \ dated
                    done == attempted \cup batch
                    now  == [wave EXCEPT !.running = TRUE, !.processed = @ + Cardinality(batch)]
                    more == (Listed(OfActive(left)) \cup Listed(left)) \ done # {}
                IN  /\ missing' = left /\ attempted' = done
                    /\ IF now.processed < MaxPerWave /\ more
                       THEN wave' = now /\ timer' = set
                       ELSE AfterWave(now, set)

-----------------------------------------------------------------------------
\* Registered with an index that is ready, or not yet.
Init == /\ ready \in BOOLEAN
        /\ missing \in SUBSET Ideas
        /\ attempted = {}
        /\ active \in RqFiles \cup {NoFile}
        /\ timer = ready
        /\ wave = NoWave
        /\ events = 0

Event == events < MaxEvents /\ events' = events + 1

\* A pass begins, or the base is released.
LeavesReady ==
    /\ Event
    /\ ready /\ ready' = FALSE
    /\ UNCHANGED <<missing, attempted, active, timer, wave>>

\* A pass ends.
BecomesReady ==
    /\ ~ ready /\ ready' = TRUE
    /\ timer' = TRUE
    /\ UNCHANGED <<missing, attempted, active, wave, events>>

\* A file is indexed: an idea whose row is new has no dates.
Indexed(i) ==
    /\ Event
    /\ ready
    /\ missing' = missing \cup {i}
    /\ timer' = TRUE
    /\ UNCHANGED <<ready, attempted, active, wave>>

\* Another editor becomes active.
EditorChanges(f) ==
    /\ Event
    /\ active' = f
    /\ IF ready /\ f # NoFile
       THEN timer' = TRUE /\ wave' = [wave EXCEPT !.stale = wave.running]
       ELSE UNCHANGED <<timer, wave>>
    /\ UNCHANGED <<ready, missing, attempted>>

\* The timer fires: the pump runs, unless it runs already or the index is not
\* ready.
PumpMissingGitDates ==
    /\ timer
    /\ IF wave.running \/ ~ ready
       THEN timer' = FALSE /\ UNCHANGED <<missing, attempted, wave>>
       ELSE Turn(FALSE)
    /\ UNCHANGED <<ready, active, events>>

\* The pause between two batches is over.
NextBatch ==
    /\ wave.running
    /\ Turn(timer)
    /\ UNCHANGED <<ready, active, events>>

Program == PumpMissingGitDates \/ NextBatch \/ BecomesReady

Next == \/ LeavesReady
        \/ \E i \in Ideas : Indexed(i)
        \/ \E f \in RqFiles \cup {NoFile} : EditorChanges(f)
        \/ Program

Spec == Init /\ [][Next]_pumpVars

-----------------------------------------------------------------------------
\* What holds in the end: every idea without dates was asked for once, unless git
\* could not date as many ideas as a list looks ahead.
AllAttempted ==
    ready => \/ missing \subseteq attempted
             \/ Cardinality(missing \cap attempted) >= BatchSize * Ahead

\* What holds of every step: the ideas of the active file come first, while the
\* ideas that git could not date leave room for a batch in a list.
EditorFirst ==
    \A i \in attempted' \ attempted :
        \/ FileOf[i] = active
        \/ OfActive(missing) \subseteq attempted'
        \/ Cardinality(missing \cap attempted) + BatchSize > MaxFetch
=============================================================================
