------------------------- MODULE EditorRenames_proofs -------------------------
(***************************************************************************)
(* Proofs about EditorRenames: its types, and that the gate of a rename    *)
(* finds the rows under the old path.  While a rename is under way and      *)
(* nothing crosses it, its old path is kept from the watcher, so the index  *)
(* is never asked to do anything about it.                                  *)
(***************************************************************************)
EXTENDS EditorRenames, TLAPS

\* What a sequence holds.
Held(s) == {s[i] : i \in DOMAIN s}

Events == [kind : Kinds, path : Paths]
Stages == {"none", "noted", "moved", "gate", "prompt", "queued", "over"}
RenameStates == [stage : Stages, old : Paths \cup {None}, new : Paths \cup {None},
                 indexed : BOOLEAN, crossed : BOOLEAN]

\* Under way, and nothing crossed it.
Clear(r) == UnderWay(r) /\ ~ rename[r].crossed

\* A rename that is under way has two paths, the others have none.
HasPaths ==
    \A r \in Renames :
        IF UnderWay(r) THEN PathsOf(r) \subseteq Paths /\ rename[r].old # rename[r].new
        ELSE PathsOf(r) = {None}

\* Two renames of one path are crossed.
Apart ==
    \A r, s \in Renames :
        r # s /\ Clear(r) /\ UnderWay(s) => PathsOf(r) \cap PathsOf(s) = {}

\* What the queue migrates was queued.
QueuedOnly ==
    \A t \in Held(queue) : t.op = "migrate" => rename[t.of].stage \in {"queued", "over"}

\* Of the old path of a clear rename the watcher will report nothing but its
\* deletion, which is suppressed; the queue has nothing of it, and the rows stay.
Kept ==
    \A r \in Renames : Clear(r) =>
        /\ rename[r].old \in pending.old
        /\ \A e \in Held(watcher) : e.path = rename[r].old => e.kind = "deleted"
        /\ \A t \in Held(queue) : t.op # "migrate" => t.path # rename[r].old
        /\ rename[r].indexed => rename[r].old \in rows

RenameInv == TypeOK /\ HasPaths /\ Apart /\ QueuedOnly /\ Kept

(***************************************************************************)
(* What a sequence holds after an append and a removal                     *)
(***************************************************************************)
\* An element more.
LEMMA HeldAppend ==
    ASSUME NEW S, NEW s \in Seq(S), NEW e \in S
    PROVE  Append(s, e) \in Seq(S) /\ Held(Append(s, e)) = Held(s) \cup {e}
<1>1. /\ Append(s, e) \in Seq(S) /\ DOMAIN Append(s, e) = 1 .. Len(s) + 1
      /\ \A i \in 1 .. Len(s) : Append(s, e)[i] = s[i]
      /\ Append(s, e)[Len(s) + 1] = e
      /\ DOMAIN s = 1 .. Len(s) /\ Len(s) \in Nat
  OBVIOUS
<1>2. DOMAIN Append(s, e) = DOMAIN s \cup {Len(s) + 1}
  BY <1>1
<1>. QED BY <1>1, <1>2 DEF Held

\* Two elements more.
LEMMA HeldTwo ==
    ASSUME NEW S, NEW s \in Seq(S), NEW d \in S, NEW e \in S
    PROVE  s \o <<d, e>> \in Seq(S) /\ Held(s \o <<d, e>>) = Held(s) \cup {d, e}
<1>. DEFINE t == Append(s, d)
<1>1. s \o <<d, e>> = Append(t, e)
  OBVIOUS
<1>2. t \in Seq(S) /\ Held(t) = Held(s) \cup {d}
  BY HeldAppend
<1>. HIDE DEF t
<1>3. Append(t, e) \in Seq(S) /\ Held(Append(t, e)) = Held(t) \cup {e}
  BY <1>2, HeldAppend
<1>. QED BY <1>1, <1>2, <1>3

\* Perhaps an element less.
LEMMA HeldTail ==
    ASSUME NEW S, NEW s \in Seq(S), s # <<>>
    PROVE  /\ Tail(s) \in Seq(S) /\ Held(Tail(s)) \subseteq Held(s)
           /\ Head(s) \in Held(s) /\ Head(s) \in S
<1>1. /\ Tail(s) \in Seq(S) /\ DOMAIN Tail(s) = 1 .. Len(s) - 1
      /\ \A i \in 1 .. Len(s) - 1 : Tail(s)[i] = s[i + 1]
      /\ DOMAIN s = 1 .. Len(s) /\ Len(s) \in Nat \ {0}
      /\ Head(s) = s[1] /\ Head(s) \in S
  OBVIOUS
<1>2. \A i \in 1 .. Len(s) - 1 : i + 1 \in 1 .. Len(s)
  BY <1>1
<1>. QED BY <1>1, <1>2 DEF Held

(***************************************************************************)
(* How the notes of the renames change                                     *)
(***************************************************************************)
\* Crossing changes the mark and nothing else.
LEMMA CrossedNotes ==
    ASSUME TypeOK, NEW paths
    PROVE  /\ Crossed(paths) \in [Renames -> RenameStates]
           /\ \A r \in Renames :
                /\ Crossed(paths)[r].stage = rename[r].stage
                /\ Crossed(paths)[r].old = rename[r].old
                /\ Crossed(paths)[r].new = rename[r].new
                /\ Crossed(paths)[r].indexed = rename[r].indexed
                /\ Crossed(paths)[r].crossed
                      = (rename[r].crossed \/ (UnderWay(r) /\ PathsOf(r) \cap paths # {}))
<1>. SUFFICES ASSUME NEW r \in Renames
     PROVE  /\ Crossed(paths)[r] \in RenameStates
            /\ Crossed(paths)[r].stage = rename[r].stage
            /\ Crossed(paths)[r].old = rename[r].old
            /\ Crossed(paths)[r].new = rename[r].new
            /\ Crossed(paths)[r].indexed = rename[r].indexed
            /\ Crossed(paths)[r].crossed
                  = (rename[r].crossed \/ (UnderWay(r) /\ PathsOf(r) \cap paths # {}))
  BY DEF Crossed
<1>. DEFINE mark == rename[r].crossed \/ (UnderWay(r) /\ PathsOf(r) \cap paths # {})
<1>1. rename[r] \in RenameStates
  BY DEF TypeOK, RenameStates, Stages
<1>2. mark \in BOOLEAN
  BY <1>1 DEF RenameStates
<1>3. Crossed(paths)[r] = [rename[r] EXCEPT !.crossed = mark]
  BY DEF Crossed
<1>. HIDE DEF mark
<1>4. /\ [rename[r] EXCEPT !.crossed = mark] \in RenameStates
      /\ [rename[r] EXCEPT !.crossed = mark].stage = rename[r].stage
      /\ [rename[r] EXCEPT !.crossed = mark].old = rename[r].old
      /\ [rename[r] EXCEPT !.crossed = mark].new = rename[r].new
      /\ [rename[r] EXCEPT !.crossed = mark].indexed = rename[r].indexed
      /\ [rename[r] EXCEPT !.crossed = mark].crossed = mark
  BY <1>1, <1>2 DEF RenameStates
<1>. QED BY <1>3, <1>4 DEF mark

\* A step of one rename changes its stage and nothing else.
LEMMA ToNotes ==
    ASSUME TypeOK, NEW r \in Renames, NEW stage \in Stages
    PROVE  /\ To(r, stage) \in [Renames -> RenameStates]
           /\ To(r, stage)[r].stage = stage
           /\ \A s \in Renames : s # r => To(r, stage)[s] = rename[s]
           /\ \A s \in Renames :
                /\ To(r, stage)[s].old = rename[s].old
                /\ To(r, stage)[s].new = rename[s].new
                /\ To(r, stage)[s].indexed = rename[s].indexed
                /\ To(r, stage)[s].crossed = rename[s].crossed
BY DEF To, TypeOK, RenameStates, Stages

\* A rename that is over has no paths.
LEMMA OverNotes ==
    ASSUME TypeOK, NEW r \in Renames
    PROVE  /\ Over(r) \in [Renames -> RenameStates]
           /\ Over(r)[r].stage = "over" /\ Over(r)[r].old = None /\ Over(r)[r].new = None
           /\ \A s \in Renames : s # r => Over(r)[s] = rename[s]
BY DEF Over, NotBegun, TypeOK, RenameStates, Stages

\* A step after which the same renames are under way, with the same paths and no
\* fewer marks.
LEMMA SamePaths ==
    ASSUME HasPaths, Apart,
           \A r \in Renames : /\ UnderWay(r)' <=> UnderWay(r)
                              /\ rename'[r].old = rename[r].old
                              /\ rename'[r].new = rename[r].new
                              /\ rename[r].crossed => rename'[r].crossed
    PROVE  HasPaths' /\ Apart' /\ \A r \in Renames : Clear(r)' => Clear(r)
<1>1. \A r \in Renames : PathsOf(r)' = PathsOf(r)
  BY DEF PathsOf
<1>2. \A r \in Renames : Clear(r)' => Clear(r)
  BY DEF Clear
<1>. QED BY <1>1, <1>2 DEF HasPaths, Apart

\* The same for one rename's step to a stage that is under way.
LEMMA StageStep ==
    ASSUME RenameInv, NEW r \in Renames, NEW stage \in Stages \ {"none", "over"},
           UnderWay(r), rename' = To(r, stage)
    PROVE  /\ rename' \in [Renames -> RenameStates]
           /\ HasPaths' /\ Apart' /\ \A s \in Renames : Clear(s)' => Clear(s)
           /\ rename'[r].stage = stage
           /\ \A s \in Renames : /\ rename'[s].old = rename[s].old
                                 /\ rename'[s].indexed = rename[s].indexed
                                 /\ s # r => rename'[s].stage = rename[s].stage
<1>1. /\ rename' \in [Renames -> RenameStates] /\ rename'[r].stage = stage
      /\ \A s \in Renames : s # r => rename'[s] = rename[s]
      /\ \A s \in Renames :
            /\ rename'[s].old = rename[s].old /\ rename'[s].new = rename[s].new
            /\ rename'[s].indexed = rename[s].indexed
            /\ rename'[s].crossed = rename[s].crossed
  BY ToNotes DEF RenameInv
<1>2. \A s \in Renames : UnderWay(s)' <=> UnderWay(s)
  BY <1>1 DEF UnderWay
<1>. QED BY <1>1, <1>2, SamePaths DEF RenameInv

(***************************************************************************)
(* Every step keeps the invariant                                          *)
(***************************************************************************)
\* A save, a creation or a deletion crosses the renames of its path.
LEMMA ChangesKeeps ==
    ASSUME MaxChanges \in Nat, RenameInv, NEW kind \in Kinds, NEW p \in Paths, Changes(kind, p)
    PROVE  RenameInv'
<1>. DEFINE e == [kind |-> kind, path |-> p]
<1>1. /\ watcher' = Append(watcher, e) /\ rename' = Crossed({p})
      /\ UNCHANGED <<rows, queue, pending>>
  BY DEF Changes
<1>2. /\ rename' \in [Renames -> RenameStates]
      /\ \A r \in Renames :
            /\ rename'[r].stage = rename[r].stage /\ rename'[r].old = rename[r].old
            /\ rename'[r].new = rename[r].new /\ rename'[r].indexed = rename[r].indexed
            /\ rename'[r].crossed
                  = (rename[r].crossed \/ (UnderWay(r) /\ PathsOf(r) \cap {p} # {}))
  BY <1>1, CrossedNotes DEF RenameInv
<1>3. HasPaths' /\ Apart' /\ \A r \in Renames : Clear(r)' => Clear(r)
  <2>1. \A r \in Renames : UnderWay(r)' <=> UnderWay(r)
    BY <1>2 DEF UnderWay
  <2>. QED BY <1>2, <2>1, SamePaths DEF RenameInv
<1>4. watcher' \in Seq(Events) /\ Held(watcher') = Held(watcher) \cup {e}
  <2>1. watcher \in Seq(Events) /\ e \in Events
    BY DEF RenameInv, TypeOK, Events
  <2>. HIDE DEF e
  <2>. QED BY <1>1, <2>1, HeldAppend
<1>5. TypeOK'
  <2>1. disk' \in SUBSET Paths /\ changes' \in 0 .. MaxChanges
    BY DEF Changes, RenameInv, TypeOK
  <2>. QED BY <1>1, <1>2, <1>4, <2>1
           DEF RenameInv, TypeOK, Events, RenameStates, Stages, Tasks
<1>6. QueuedOnly'
  <2>1. \A t \in Held(queue) : t.op = "migrate" => t.of \in Renames
    BY DEF RenameInv, TypeOK, Held, Tasks
  <2>. QED BY <1>1, <1>2, <2>1 DEF RenameInv, QueuedOnly
<1>7. Kept'
  <2>. SUFFICES ASSUME NEW r \in Renames, Clear(r)'
       PROVE  /\ rename'[r].old \in pending'.old
              /\ \A d \in Held(watcher') : d.path = rename'[r].old => d.kind = "deleted"
              /\ \A t \in Held(queue') : t.op # "migrate" => t.path # rename'[r].old
              /\ rename'[r].indexed => rename'[r].old \in rows'
    BY DEF Kept
  <2>1. Clear(r) /\ rename'[r].old = rename[r].old /\ rename'[r].indexed = rename[r].indexed
    BY <1>2, <1>3
  <2>2. rename[r].old # p
    BY <1>2, <2>1 DEF Clear, PathsOf
  <2>3. e.path = p
    OBVIOUS
  <2>. HIDE DEF e
  <2>4. \A d \in Held(watcher') : d.path = rename[r].old => d.kind = "deleted"
    BY <1>4, <2>1, <2>2, <2>3 DEF RenameInv, Kept
  <2>5. Held(queue') = Held(queue) /\ pending' = pending /\ rows' = rows
    BY <1>1
  <2>. QED BY <2>1, <2>4, <2>5 DEF RenameInv, Kept
<1>. QED BY <1>3, <1>5, <1>6, <1>7 DEF RenameInv

\* A rename is noted: when it is clear, nothing of its old path is on its way.
LEMMA WillRenameKeeps ==
    ASSUME RenameInv, NEW r \in Renames, NEW o \in Paths, NEW n \in Paths, WillRename(r, o, n)
    PROVE  RenameInv'
<1>. DEFINE crossed == \/ OnItsWay(o)
                       \/ \E s \in Renames : UnderWay(s) /\ PathsOf(s) \cap {o, n} # {}
<1>. DEFINE noted == [stage |-> "noted", old |-> o, new |-> n, indexed |-> o \in rows,
                      crossed |-> crossed]
<1>1. /\ rename[r].stage = "none" /\ o # n
      /\ pending' = Noted(o, n)
      /\ rename' = [Crossed({o, n}) EXCEPT ![r] = noted]
      /\ UNCHANGED <<disk, rows, watcher, queue, changes>>
  BY DEF WillRename
<1>2. crossed \in BOOLEAN
  BY DEF OnItsWay
<1>. HIDE DEF crossed
<1>3. noted \in RenameStates
  BY <1>2 DEF RenameStates, Stages
<1>4. /\ rename' \in [Renames -> RenameStates]
      /\ rename'[r] = noted
      /\ \A s \in Renames \ {r} :
            /\ rename'[s].stage = rename[s].stage /\ rename'[s].old = rename[s].old
            /\ rename'[s].new = rename[s].new /\ rename'[s].indexed = rename[s].indexed
            /\ rename'[s].crossed
                  = (rename[s].crossed \/ (UnderWay(s) /\ PathsOf(s) \cap {o, n} # {}))
  BY <1>1, <1>3, CrossedNotes DEF RenameInv
<1>5. /\ ~ UnderWay(r) /\ UnderWay(r)' /\ PathsOf(r)' = {o, n}
      /\ Clear(r)' <=> ~ crossed
      /\ \A s \in Renames \ {r} :
            /\ UnderWay(s)' <=> UnderWay(s)
            /\ PathsOf(s)' = PathsOf(s)
            /\ Clear(s)' <=> Clear(s) /\ PathsOf(s) \cap {o, n} = {}
  BY <1>1, <1>4 DEF UnderWay, PathsOf, Clear
<1>6. HasPaths'
  <2>1. rename'[r].old # rename'[r].new /\ PathsOf(r)' \subseteq Paths
    BY <1>1, <1>4, <1>5
  <2>2. \A s \in Renames \ {r} :
           IF UnderWay(s)' THEN PathsOf(s)' \subseteq Paths /\ rename'[s].old # rename'[s].new
           ELSE PathsOf(s)' = {None}
    BY <1>4, <1>5 DEF RenameInv, HasPaths
  <2>. QED BY <1>5, <2>1, <2>2 DEF HasPaths
<1>7. Apart'
  <2>. SUFFICES ASSUME NEW s \in Renames, NEW t \in Renames, s # t, Clear(s)', UnderWay(t)'
       PROVE  PathsOf(s)' \cap PathsOf(t)' = {}
    BY DEF Apart
  <2>1. CASE s = r
    BY <1>5, <2>1 DEF crossed
  <2>2. CASE t = r
    BY <1>5, <2>2
  <2>3. CASE s # r /\ t # r
    BY <1>5, <2>3 DEF RenameInv, Apart
  <2>. QED BY <2>1, <2>2, <2>3
<1>8. TypeOK'
  <2>1. pending' \in [old : SUBSET Paths, new : SUBSET Paths, timer : BOOLEAN]
    BY <1>1 DEF Noted, RenameInv, TypeOK
  <2>. QED BY <1>1, <1>4, <2>1 DEF RenameInv, TypeOK, RenameStates, Stages
<1>9. QueuedOnly'
  <2>1. \A t \in Held(queue) : t.op = "migrate" => t.of \in Renames
    BY DEF RenameInv, TypeOK, Held, Tasks
  <2>. QED BY <1>1, <1>4, <2>1 DEF RenameInv, QueuedOnly
<1>10. Kept'
  <2>. SUFFICES ASSUME NEW s \in Renames, Clear(s)'
       PROVE  /\ rename'[s].old \in pending'.old
              /\ \A d \in Held(watcher') : d.path = rename'[s].old => d.kind = "deleted"
              /\ \A t \in Held(queue') : t.op # "migrate" => t.path # rename'[s].old
              /\ rename'[s].indexed => rename'[s].old \in rows'
    BY DEF Kept
  <2>1. pending'.old = pending.old \cup {o}
    BY <1>1 DEF Noted
  <2>2. Held(watcher') = Held(watcher) /\ Held(queue') = Held(queue) /\ rows' = rows
    BY <1>1
  <2>3. CASE s = r
    <3>1. rename'[r].old = o /\ rename'[r].indexed = (o \in rows)
      BY <1>4
    <3>2. ~ OnItsWay(o)
      BY <1>5, <2>3 DEF crossed
    <3>3. /\ \A d \in Held(watcher) : d.path # o
          /\ \A t \in Held(queue) : t.op # "migrate" => t.path # o
      BY <3>2 DEF OnItsWay, Held
    <3>. QED BY <2>1, <2>2, <2>3, <3>1, <3>3
  <2>4. CASE s # r
    BY <1>4, <1>5, <2>1, <2>2, <2>4 DEF RenameInv, Kept
  <2>. QED BY <2>3, <2>4
<1>. QED BY <1>6, <1>7, <1>8, <1>9, <1>10 DEF RenameInv

\* The file moves: of the old path the watcher will report that it is gone.
LEMMA MovesKeeps ==
    ASSUME RenameInv, NEW r \in Renames, Moves(r)
    PROVE  RenameInv'
<1>. DEFINE gone == [kind |-> "deleted", path |-> rename[r].old]
<1>. DEFINE born == [kind |-> "created", path |-> rename[r].new]
<1>1. /\ rename' = To(r, "moved") /\ watcher' = watcher \o <<gone, born>>
      /\ disk' = (disk \ {rename[r].old}) \cup {rename[r].new}
      /\ UNCHANGED <<rows, queue, pending, changes>>
      /\ rename[r].stage = "noted"
  BY DEF Moves
<1>2. UnderWay(r)
  BY <1>1 DEF UnderWay
<1>3. /\ PathsOf(r) \subseteq Paths /\ rename[r].old \in Paths /\ rename[r].new \in Paths
      /\ rename[r].old # rename[r].new
  BY <1>2 DEF RenameInv, HasPaths, PathsOf
<1>4. /\ rename' \in [Renames -> RenameStates]
      /\ HasPaths' /\ Apart' /\ \A s \in Renames : Clear(s)' => Clear(s)
      /\ rename'[r].stage = "moved"
      /\ \A s \in Renames : /\ rename'[s].old = rename[s].old
                            /\ rename'[s].indexed = rename[s].indexed
                            /\ s # r => rename'[s].stage = rename[s].stage
  BY <1>1, <1>2, StageStep DEF Stages
<1>5. watcher' \in Seq(Events) /\ Held(watcher') = Held(watcher) \cup {gone, born}
  <2>1. watcher \in Seq(Events) /\ gone \in Events /\ born \in Events
    BY <1>3 DEF RenameInv, TypeOK, Events, Kinds
  <2>. HIDE DEF gone, born
  <2>. QED BY <1>1, <2>1, HeldTwo
<1>6. TypeOK'
  <2>1. disk' \in SUBSET Paths
    BY <1>1, <1>3 DEF RenameInv, TypeOK
  <2>. QED BY <1>1, <1>4, <1>5, <2>1
           DEF RenameInv, TypeOK, Events, RenameStates, Stages
<1>7. QueuedOnly'
  <2>1. \A t \in Held(queue) : t.op = "migrate" => t.of \in Renames
    BY DEF RenameInv, TypeOK, Held, Tasks
  <2>. QED BY <1>1, <1>4, <2>1 DEF RenameInv, QueuedOnly
<1>8. Kept'
  <2>. SUFFICES ASSUME NEW s \in Renames, Clear(s)'
       PROVE  /\ rename'[s].old \in pending'.old
              /\ \A d \in Held(watcher') : d.path = rename'[s].old => d.kind = "deleted"
              /\ \A t \in Held(queue') : t.op # "migrate" => t.path # rename'[s].old
              /\ rename'[s].indexed => rename'[s].old \in rows'
    BY DEF Kept
  <2>1. Clear(s) /\ rename'[s].old = rename[s].old /\ rename'[s].indexed = rename[s].indexed
    BY <1>4
  <2>2. rename[s].old # rename[r].new
    <3>1. CASE s = r
      BY <1>3, <3>1
    <3>2. CASE s # r
      <4>1. PathsOf(s) \cap PathsOf(r) = {}
        BY <1>2, <2>1, <3>2 DEF RenameInv, Apart
      <4>. QED BY <4>1 DEF PathsOf
    <3>. QED BY <3>1, <3>2
  <2>3. gone.kind = "deleted" /\ born.path = rename[r].new
    OBVIOUS
  <2>. HIDE DEF gone, born
  <2>4. \A d \in Held(watcher') : d.path = rename[s].old => d.kind = "deleted"
    BY <1>5, <2>1, <2>2, <2>3 DEF RenameInv, Kept
  <2>5. Held(queue') = Held(queue) /\ pending' = pending /\ rows' = rows
    BY <1>1
  <2>. QED BY <2>1, <2>4, <2>5 DEF RenameInv, Kept
<1>. QED BY <1>4, <1>6, <1>7, <1>8 DEF RenameInv

\* The watcher reports the head; the deletion of the old path of a clear rename is
\* suppressed.
LEMMA WatcherReportsKeeps ==
    ASSUME RenameInv, WatcherReports
    PROVE  RenameInv'
<1>. DEFINE e == Head(watcher)
<1>. DEFINE task == [op |-> IF e.kind = "deleted" THEN "delete" ELSE "index", path |-> e.path]
<1>1. /\ watcher # <<>> /\ watcher' = Tail(watcher)
      /\ queue' = IF Suppressed(e) THEN queue ELSE Append(queue, task)
      /\ UNCHANGED <<disk, rows, pending, rename, changes>>
  BY DEF WatcherReports
<1>2. /\ watcher' \in Seq(Events) /\ Held(watcher') \subseteq Held(watcher)
      /\ e \in Held(watcher) /\ e \in Events
  <2>1. watcher \in Seq(Events)
    BY DEF RenameInv, TypeOK, Events
  <2>. QED BY <1>1, <2>1, HeldTail
<1>. HIDE DEF e
<1>3. task \in Tasks /\ task.op # "migrate" /\ task.path = e.path
  BY <1>2 DEF Tasks, Events
<1>4. /\ queue' \in Seq(Tasks)
      /\ Suppressed(e) => Held(queue') = Held(queue)
      /\ ~ Suppressed(e) => Held(queue') = Held(queue) \cup {task}
  <2>1. queue \in Seq(Tasks)
    BY DEF RenameInv, TypeOK
  <2>. HIDE DEF task
  <2>2. Append(queue, task) \in Seq(Tasks) /\ Held(Append(queue, task)) = Held(queue) \cup {task}
    BY <1>3, <2>1, HeldAppend
  <2>. QED BY <1>1, <2>1, <2>2
<1>. HIDE DEF task
<1>5. TypeOK'
  BY <1>1, <1>2, <1>4 DEF RenameInv, TypeOK, Events
<1>6. HasPaths' /\ Apart' /\ \A r \in Renames : Clear(r)' <=> Clear(r)
  BY <1>1 DEF RenameInv, HasPaths, Apart, Clear, UnderWay, PathsOf
<1>7. QueuedOnly'
  BY <1>1, <1>3, <1>4 DEF RenameInv, QueuedOnly
<1>8. Kept'
  <2>. SUFFICES ASSUME NEW r \in Renames, Clear(r)
       PROVE  /\ rename[r].old \in pending.old
              /\ \A d \in Held(watcher') : d.path = rename[r].old => d.kind = "deleted"
              /\ \A t \in Held(queue') : t.op # "migrate" => t.path # rename[r].old
              /\ rename[r].indexed => rename[r].old \in rows
    BY <1>1, <1>6 DEF Kept
  <2>1. /\ rename[r].old \in pending.old
        /\ \A d \in Held(watcher) : d.path = rename[r].old => d.kind = "deleted"
        /\ \A t \in Held(queue) : t.op # "migrate" => t.path # rename[r].old
        /\ rename[r].indexed => rename[r].old \in rows
    BY DEF RenameInv, Kept
  <2>2. ~ Suppressed(e) => e.path # rename[r].old
    BY <1>2, <2>1 DEF Suppressed
  <2>. QED BY <1>2, <1>3, <1>4, <2>1, <2>2
<1>. QED BY <1>5, <1>6, <1>7, <1>8 DEF RenameInv

\* A step of the hooks: to another stage, and to the queue if that is where it goes.
LEMMA HookStepKeeps ==
    ASSUME RenameInv, NEW r \in Renames, NEW stage \in {"gate", "prompt", "queued"},
           UnderWay(r), rename[r].stage # "queued", rename' = To(r, stage),
           queue' = IF stage = "queued" THEN Append(queue, [op |-> "migrate", of |-> r])
                    ELSE queue,
           UNCHANGED <<disk, rows, watcher, pending, changes>>
    PROVE  RenameInv'
<1>1. /\ rename' \in [Renames -> RenameStates]
      /\ HasPaths' /\ Apart' /\ \A s \in Renames : Clear(s)' => Clear(s)
      /\ rename'[r].stage = stage
      /\ \A s \in Renames : /\ rename'[s].old = rename[s].old
                            /\ rename'[s].indexed = rename[s].indexed
                            /\ s # r => rename'[s].stage = rename[s].stage
  BY StageStep DEF Stages
<1>. DEFINE task == [op |-> "migrate", of |-> r]
<1>2. task \in Tasks /\ task.op = "migrate" /\ task.of = r
  BY DEF Tasks
<1>3. /\ queue' \in Seq(Tasks)
      /\ Held(queue') = Held(queue) \/ (stage = "queued" /\ Held(queue') = Held(queue) \cup {task})
  <2>1. queue \in Seq(Tasks)
    BY DEF RenameInv, TypeOK
  <2>2. queue' = IF stage = "queued" THEN Append(queue, task) ELSE queue
    OBVIOUS
  <2>. HIDE DEF task
  <2>3. Append(queue, task) \in Seq(Tasks) /\ Held(Append(queue, task)) = Held(queue) \cup {task}
    BY <1>2, <2>1, HeldAppend
  <2>. QED BY <2>1, <2>2, <2>3
<1>. HIDE DEF task
<1>4. TypeOK'
  BY <1>1, <1>3 DEF RenameInv, TypeOK, RenameStates, Stages
<1>5. QueuedOnly'
  <2>1. \A t \in Held(queue) : t.op = "migrate" =>
           t.of \in Renames /\ rename[t.of].stage \in {"queued", "over"} /\ t.of # r
    <3>1. \A t \in Held(queue) : t.op = "migrate" => t.of \in Renames
      BY DEF RenameInv, TypeOK, Held, Tasks
    <3>. QED BY <3>1 DEF RenameInv, QueuedOnly, UnderWay
  <2>. QED BY <1>1, <1>2, <1>3, <2>1 DEF QueuedOnly
<1>6. Kept'
  <2>. SUFFICES ASSUME NEW s \in Renames, Clear(s)
       PROVE  /\ rename[s].old \in pending.old
              /\ \A d \in Held(watcher) : d.path = rename[s].old => d.kind = "deleted"
              /\ \A t \in Held(queue') : t.op # "migrate" => t.path # rename[s].old
              /\ rename[s].indexed => rename[s].old \in rows
    BY <1>1 DEF Kept
  <2>. QED BY <1>2, <1>3 DEF RenameInv, Kept
<1>. QED BY <1>1, <1>4, <1>5, <1>6 DEF RenameInv

\* The handler goes to the gate, or past it.
LEMMA HandlerBeginsKeeps ==
    ASSUME RenameInv, NEW r \in Renames, HandlerBegins(r)
    PROVE  RenameInv'
<1>1. UnderWay(r) /\ rename[r].stage # "queued"
  BY DEF HandlerBegins, UnderWay
<1>2. CASE rename' = To(r, "gate") /\ UNCHANGED queue
  BY <1>1, <1>2, HookStepKeeps DEF HandlerBegins
<1>3. CASE rename' = To(r, "queued") /\ queue' = Append(queue, [op |-> "migrate", of |-> r])
  BY <1>1, <1>3, HookStepKeeps DEF HandlerBegins
<1>. QED BY <1>2, <1>3 DEF HandlerBegins

\* The gate goes to the prompt, or past it.
LEMMA GateKeeps ==
    ASSUME RenameInv, NEW r \in Renames, Gate(r)
    PROVE  RenameInv'
<1>1. UnderWay(r) /\ rename[r].stage # "queued"
  BY DEF Gate, UnderWay
<1>2. CASE rename' = To(r, "prompt") /\ UNCHANGED queue
  BY <1>1, <1>2, HookStepKeeps DEF Gate
<1>3. CASE rename' = To(r, "queued") /\ queue' = Append(queue, [op |-> "migrate", of |-> r])
  BY <1>1, <1>3, HookStepKeeps DEF Gate
<1>. QED BY <1>2, <1>3 DEF Gate

\* The prompt goes to the queue.
LEMMA PromptedKeeps ==
    ASSUME RenameInv, NEW r \in Renames, Prompted(r)
    PROVE  RenameInv'
<1>1. UnderWay(r) /\ rename[r].stage # "queued"
  BY DEF Prompted, UnderWay
<1>. QED BY <1>1, HookStepKeeps DEF Prompted

\* A rename that is over is in nobody's way.
LEMMA OverStep ==
    ASSUME RenameInv, NEW r \in Renames, rename' = Over(r)
    PROVE  /\ rename' \in [Renames -> RenameStates]
           /\ HasPaths' /\ Apart' /\ rename'[r].stage = "over"
           /\ \A s \in Renames : s # r => rename'[s] = rename[s]
           /\ \A s \in Renames : Clear(s)' => Clear(s) /\ s # r
<1>1. /\ rename' \in [Renames -> RenameStates]
      /\ rename'[r].stage = "over" /\ rename'[r].old = None /\ rename'[r].new = None
      /\ \A s \in Renames : s # r => rename'[s] = rename[s]
  BY OverNotes DEF RenameInv
<1>2. /\ ~ UnderWay(r)' /\ PathsOf(r)' = {None}
      /\ \A s \in Renames : s # r => /\ UnderWay(s)' <=> UnderWay(s)
                                     /\ PathsOf(s)' = PathsOf(s)
                                     /\ Clear(s)' <=> Clear(s)
  BY <1>1 DEF UnderWay, PathsOf, Clear
<1>3. HasPaths'
  BY <1>1, <1>2 DEF RenameInv, HasPaths
<1>4. \A s \in Renames : Clear(s)' => Clear(s) /\ s # r
  BY <1>2 DEF Clear
<1>5. Apart'
  BY <1>2, <1>4 DEF RenameInv, Apart
<1>. QED BY <1>1, <1>3, <1>4, <1>5

\* A rename that is not carried out.
LEMMA CancelledKeeps ==
    ASSUME RenameInv, NEW r \in Renames, Cancelled(r)
    PROVE  RenameInv'
<1>1. rename' = Over(r) /\ UNCHANGED <<disk, rows, watcher, queue, pending, changes>>
  BY DEF Cancelled
<1>2. /\ rename' \in [Renames -> RenameStates]
      /\ HasPaths' /\ Apart' /\ rename'[r].stage = "over"
      /\ \A s \in Renames : s # r => rename'[s] = rename[s]
      /\ \A s \in Renames : Clear(s)' => Clear(s) /\ s # r
  BY <1>1, OverStep
<1>3. TypeOK'
  BY <1>1, <1>2 DEF RenameInv, TypeOK, RenameStates, Stages
<1>4. QueuedOnly'
  <2>1. \A t \in Held(queue) : t.op = "migrate" => t.of \in Renames
    BY DEF RenameInv, TypeOK, Held, Tasks
  <2>. QED BY <1>1, <1>2, <2>1 DEF RenameInv, QueuedOnly
<1>5. Kept'
  BY <1>1, <1>2 DEF RenameInv, Kept
<1>. QED BY <1>2, <1>3, <1>4, <1>5 DEF RenameInv

\* The head of the queue runs: it is of another path, or of the rename itself,
\* which is over then.
LEMMA QueueRunsKeeps ==
    ASSUME None \notin Paths, RenameInv, QueueRuns
    PROVE  RenameInv'
<1>. DEFINE t == Head(queue)
<1>1. /\ queue # <<>> /\ queue' = Tail(queue) /\ UNCHANGED <<disk, watcher, changes>>
      /\ \/ t.op = "index"  /\ rows' = Indexed(t.path) /\ UNCHANGED <<pending, rename>>
         \/ t.op = "delete" /\ rows' = rows \ {t.path} /\ UNCHANGED <<pending, rename>>
         \/ /\ t.op = "migrate"
            /\ rows' = Indexed(rename[t.of].new) \ {rename[t.of].old}
            /\ pending' = ClearedOf(t.of)
            /\ rename' = Over(t.of)
  BY DEF QueueRuns
<1>2. /\ queue' \in Seq(Tasks) /\ Held(queue') \subseteq Held(queue)
      /\ t \in Held(queue) /\ t \in Tasks
  <2>1. queue \in Seq(Tasks)
    BY DEF RenameInv, TypeOK
  <2>. QED BY <1>1, <2>1, HeldTail
<1>. HIDE DEF t
<1>3. disk \in SUBSET Paths /\ rows \in SUBSET Paths
  BY DEF RenameInv, TypeOK
<1>4. CASE t.op # "migrate"
  <2>1. UNCHANGED <<pending, rename>> /\ (rows' = Indexed(t.path) \/ rows' = rows \ {t.path})
    BY <1>1, <1>4
  <2>2. rows' \in SUBSET Paths /\ \A p \in rows : p # t.path => p \in rows'
    BY <1>3, <2>1 DEF Indexed
  <2>3. TypeOK'
    BY <1>1, <1>2, <2>1, <2>2 DEF RenameInv, TypeOK
  <2>4. HasPaths' /\ Apart' /\ \A r \in Renames : Clear(r)' <=> Clear(r)
    BY <2>1 DEF RenameInv, HasPaths, Apart, Clear, UnderWay, PathsOf
  <2>5. QueuedOnly'
    BY <1>2, <2>1 DEF RenameInv, QueuedOnly
  <2>6. Kept'
    BY <1>1, <1>2, <1>4, <2>1, <2>2, <2>4 DEF RenameInv, Kept
  <2>. QED BY <2>3, <2>4, <2>5, <2>6 DEF RenameInv
<1>5. CASE t.op = "migrate"
  <2>. DEFINE m == t.of
  <2>1. m \in Renames
    BY <1>2, <1>5 DEF Tasks
  <2>2. /\ rows' = Indexed(rename[m].new) \ {rename[m].old} /\ pending' = ClearedOf(m)
        /\ rename' = Over(m)
    BY <1>1, <1>5
  <2>. HIDE DEF m
  <2>3. /\ rename' \in [Renames -> RenameStates]
        /\ HasPaths' /\ Apart' /\ rename'[m].stage = "over"
        /\ \A s \in Renames : s # m => rename'[s] = rename[s]
        /\ \A s \in Renames : Clear(s)' => Clear(s) /\ s # m
    BY <2>1, <2>2, OverStep
  <2>4. TypeOK'
    <3>1. rows' \in SUBSET Paths
      BY <1>3, <2>2 DEF Indexed
    <3>2. pending' \in [old : SUBSET Paths, new : SUBSET Paths, timer : BOOLEAN]
      BY <2>2 DEF ClearedOf, RenameInv, TypeOK
    <3>. QED BY <1>1, <1>2, <2>3, <3>1, <3>2 DEF RenameInv, TypeOK, RenameStates, Stages
  <2>5. QueuedOnly'
    <3>1. \A u \in Held(queue) : u.op = "migrate" => u.of \in Renames
      BY DEF RenameInv, TypeOK, Held, Tasks
    <3>. QED BY <1>2, <2>3, <3>1 DEF RenameInv, QueuedOnly
  <2>6. Kept'
    <3>. SUFFICES ASSUME NEW s \in Renames, Clear(s)'
         PROVE  /\ rename'[s].old \in pending'.old
                /\ \A d \in Held(watcher') : d.path = rename'[s].old => d.kind = "deleted"
                /\ \A u \in Held(queue') : u.op # "migrate" => u.path # rename'[s].old
                /\ rename'[s].indexed => rename'[s].old \in rows'
      BY DEF Kept
    <3>1. Clear(s) /\ s # m /\ rename'[s] = rename[s]
      BY <2>3
    <3>2. rename[s].old # rename[m].old /\ rename[s].old # rename[m].new
      <4>1. rename[s].old \in Paths
        BY <3>1 DEF RenameInv, HasPaths, PathsOf, Clear
      <4>2. CASE UnderWay(m)
        <5>1. PathsOf(s) \cap PathsOf(m) = {}
          BY <2>1, <3>1, <4>2 DEF RenameInv, Apart
        <5>. QED BY <5>1 DEF PathsOf
      <4>3. CASE ~ UnderWay(m)
        <5>1. PathsOf(m) = {None}
          BY <2>1, <4>3 DEF RenameInv, HasPaths
        <5>. QED BY <4>1, <5>1 DEF PathsOf
      <4>. QED BY <4>2, <4>3
    <3>3. rename[s].old \in rows => rename[s].old \in rows'
      BY <2>2, <3>2 DEF Indexed
    <3>4. rename[s].old \in pending.old => rename[s].old \in pending'.old
      BY <2>2, <3>2 DEF ClearedOf
    <3>. QED BY <1>1, <1>2, <3>1, <3>3, <3>4 DEF RenameInv, Kept
  <2>. QED BY <2>3, <2>4, <2>5, <2>6 DEF RenameInv
<1>. QED BY <1>4, <1>5

\* The timer fires: it crosses the renames whose paths it forgets.
LEMMA ClearTimerKeeps ==
    ASSUME RenameInv, ClearTimer
    PROVE  RenameInv'
<1>. DEFINE paths == pending.old \cup pending.new
<1>1. /\ pending' = [old |-> {}, new |-> {}, timer |-> FALSE]
      /\ rename' = Crossed(paths)
      /\ UNCHANGED <<disk, rows, watcher, queue, changes>>
  BY DEF ClearTimer
<1>2. /\ rename' \in [Renames -> RenameStates]
      /\ \A r \in Renames :
            /\ rename'[r].stage = rename[r].stage /\ rename'[r].old = rename[r].old
            /\ rename'[r].new = rename[r].new /\ rename'[r].indexed = rename[r].indexed
            /\ rename'[r].crossed
                  = (rename[r].crossed \/ (UnderWay(r) /\ PathsOf(r) \cap paths # {}))
  <2>. HIDE DEF paths
  <2>. QED BY <1>1, CrossedNotes DEF RenameInv
<1>3. HasPaths' /\ Apart' /\ \A r \in Renames : Clear(r)' => Clear(r)
  <2>1. \A r \in Renames : UnderWay(r)' <=> UnderWay(r)
    BY <1>2 DEF UnderWay
  <2>. QED BY <1>2, <2>1, SamePaths DEF RenameInv
<1>4. TypeOK'
  BY <1>1, <1>2 DEF RenameInv, TypeOK, RenameStates, Stages
<1>5. QueuedOnly'
  <2>1. \A t \in Held(queue) : t.op = "migrate" => t.of \in Renames
    BY DEF RenameInv, TypeOK, Held, Tasks
  <2>. QED BY <1>1, <1>2, <2>1 DEF RenameInv, QueuedOnly
<1>6. \A r \in Renames : ~ Clear(r)'
  <2>. SUFFICES ASSUME NEW r \in Renames, Clear(r)' PROVE FALSE
    OBVIOUS
  <2>1. Clear(r) /\ rename[r].old \in pending.old
    BY <1>3 DEF RenameInv, Kept
  <2>2. PathsOf(r) \cap paths # {}
    BY <2>1 DEF PathsOf
  <2>. QED BY <1>2, <2>1, <2>2 DEF Clear
<1>7. Kept'
  BY <1>6 DEF Kept
<1>. QED BY <1>3, <1>4, <1>5, <1>7 DEF RenameInv

(***************************************************************************)
(* The theorems                                                            *)
(***************************************************************************)
\* The initial states.
LEMMA InitRenameInv ==
    ASSUME MaxChanges \in Nat, Synced \subseteq Paths, Init
    PROVE  RenameInv
<1>1. /\ disk = Synced /\ rows = Synced /\ watcher = <<>> /\ queue = <<>>
      /\ pending = [old |-> {}, new |-> {}, timer |-> FALSE]
      /\ rename = [r \in Renames |-> NotBegun] /\ changes = 0
  BY DEF Init
<1>2. NotBegun \in RenameStates
  BY DEF NotBegun, RenameStates, Stages
<1>3. rename \in [Renames -> RenameStates]
  BY <1>1, <1>2
<1>4. watcher \in Seq(Events) /\ queue \in Seq(Tasks) /\ Held(queue) = {}
  BY <1>1 DEF Held
<1>5. TypeOK
  BY <1>1, <1>3, <1>4 DEF TypeOK, Events, RenameStates, Stages
<1>6. \A r \in Renames : ~ UnderWay(r) /\ PathsOf(r) = {None}
  BY <1>1 DEF UnderWay, PathsOf, NotBegun
<1>7. HasPaths /\ Apart /\ Kept
  BY <1>6 DEF HasPaths, Apart, Kept, Clear
<1>. QED BY <1>4, <1>5, <1>7 DEF RenameInv, QueuedOnly

\* The invariant holds throughout.
THEOREM RenameInvariant ==
    ASSUME MaxChanges \in Nat, Synced \subseteq Paths, None \notin Paths
    PROVE  Spec => []RenameInv
<1>1. Init => RenameInv
  BY InitRenameInv
<1>2. RenameInv /\ [Next]_renameVars => RenameInv'
  <2>. SUFFICES ASSUME RenameInv, [Next]_renameVars PROVE RenameInv'
    OBVIOUS
  <2>1. CASE \E k \in Kinds, p \in Paths : Changes(k, p)
    BY <2>1, ChangesKeeps
  <2>2. ASSUME NEW r \in Renames,
               \/ \E o, n \in Paths : WillRename(r, o, n)
               \/ Cancelled(r) \/ Moves(r) \/ Prompted(r)
               \/ HandlerBegins(r) \/ Gate(r)
        PROVE  RenameInv'
    BY <2>2, WillRenameKeeps, CancelledKeeps, MovesKeeps, PromptedKeeps, HandlerBeginsKeeps,
       GateKeeps
  <2>3. CASE WatcherReports
    BY <2>3, WatcherReportsKeeps
  <2>4. CASE QueueRuns
    BY <2>4, QueueRunsKeeps
  <2>5. CASE ClearTimer
    BY <2>5, ClearTimerKeeps
  <2>6. CASE UNCHANGED renameVars
    BY <2>6 DEF renameVars, RenameInv, TypeOK, HasPaths, Apart, QueuedOnly, Kept, Clear,
                UnderWay, PathsOf
  <2>. QED BY <2>1, <2>2, <2>3, <2>4, <2>5, <2>6 DEF Next
<1>. QED BY <1>1, <1>2, PTL DEF Spec

\* The variables have their types, whatever the paths, the renames and the bound.
THEOREM RenamesTyped ==
    ASSUME MaxChanges \in Nat, Synced \subseteq Paths, None \notin Paths
    PROVE  Spec => []TypeOK
<1>1. RenameInv => TypeOK
  BY DEF RenameInv
<1>. QED BY <1>1, RenameInvariant, PTL

\* The gate of a rename finds the rows under the old path, whatever the paths and
\* however many renames (register-file-mutation-hooks.ts:24-29,
\* pending-rename-paths.ts:19-54).
THEOREM GateAlwaysSees ==
    ASSUME MaxChanges \in Nat, Synced \subseteq Paths, None \notin Paths
    PROVE  Spec => []GateSeesRows
<1>1. RenameInv => GateSeesRows
  BY DEF RenameInv, Kept, Clear, UnderWay, GateSeesRows
<1>. QED BY <1>1, RenameInvariant, PTL
=============================================================================
