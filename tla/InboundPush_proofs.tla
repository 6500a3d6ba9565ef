-------------------------- MODULE InboundPush_proofs --------------------------
(***************************************************************************)
(* Proofs about InboundPush: its types, and that nothing is forgotten.  A  *)
(* change that finds a run under way leaves a mark that its end looks at,  *)
(* one that finds the index not ready leaves another that the status       *)
(* listener looks at, so that at rest the server has the last rows.        *)
(***************************************************************************)
EXTENDS InboundPush, TLAPS

Runners == [stage : {"idle", "refreshing"}, queued : BOOLEAN]
Wires == UNION {[ds -> Snapshots] : ds \in SUBSET Docs}
Pushings == [deferred : BOOLEAN, wasReady : BOOLEAN, runner : Runners, wire : Wires]
Indexes == [active : Bases, ready : SUBSET Bases,
            version : [Bases -> 0 .. MaxChanges]]

(***************************************************************************)
(* What the push decides                                                   *)
(***************************************************************************)
\* A batch built from an index.
LEMMA BuiltTyped ==
    ASSUME NEW ix \in Indexes, NEW shown \in SUBSET Docs
    PROVE  Built(ix, shown) \in Wires
<1>. DEFINE snapshot == [base |-> ix.active, version |-> ix.version[ix.active]]
<1>1. ix.active \in Bases /\ ix.version[ix.active] \in 0 .. MaxChanges
  BY DEF Indexes
<1>2. snapshot \in Snapshots
  BY <1>1 DEF Snapshots
<1>3. Built(ix, shown) = [d \in shown |-> snapshot]
  BY DEF Built
<1>. QED BY <1>2, <1>3 DEF Wires

\* pushSnapshots.
LEMMA PushSnapshotsTyped ==
    ASSUME NEW p, NEW ix, NEW shown \in SUBSET Docs,
           p \in Pushings, ix \in Indexes
    PROVE  PushSnapshots(p, ix, shown) \in Pushings
<1>1. CASE ~ IsReady(ix)
  BY <1>1 DEF PushSnapshots, Pushings, Runners
<1>2. CASE IsReady(ix)
  <2>1. Built(ix, shown) \in Wires
    BY <1>2, BuiltTyped
  <2>. QED BY <1>2, <2>1 DEF PushSnapshots, Pushings, Runners
<1>. QED BY <1>1, <1>2

\* The coalesced runner.
LEMMA SchedulePushTyped ==
    ASSUME NEW p, NEW ix, NEW shown \in SUBSET Docs,
           p \in Pushings, ix \in Indexes
    PROVE  SchedulePush(p, ix, shown) \in Pushings
<1>1. PushSnapshots(p, ix, shown) \in Pushings
  BY PushSnapshotsTyped
<1>2. [p EXCEPT !.runner.queued = TRUE] \in Pushings
  BY DEF Pushings, Runners
<1>. QED BY <1>1, <1>2 DEF SchedulePush

\* The catalog listener.
LEMMA FlushTyped ==
    ASSUME NEW p, NEW ix, NEW shown \in SUBSET Docs,
           p \in Pushings, ix \in Indexes
    PROVE  Flush(p, ix, shown) \in Pushings
<1>1. SchedulePush(p, ix, shown) \in Pushings
  BY SchedulePushTyped
<1>2. [p EXCEPT !.deferred = TRUE] \in Pushings
  BY DEF Pushings
<1>. QED BY <1>1, <1>2 DEF Flush

\* The status listener.
LEMMA OnStatusTyped ==
    ASSUME NEW p, NEW ix, NEW shown \in SUBSET Docs,
           p \in Pushings, ix \in Indexes
    PROVE  OnStatus(p, ix, shown) \in Pushings
<1>1. SchedulePush(p, ix, shown) \in Pushings
  BY SchedulePushTyped
<1>2. ASSUME NEW q, q \in Pushings PROVE [q EXCEPT !.wasReady = IsReady(ix)] \in Pushings
  <2>1. IsReady(ix) \in BOOLEAN
    BY DEF IsReady
  <2>. QED BY <1>2, <2>1 DEF Pushings
<1>3. CASE IsReady(ix) /\ (~ p.wasReady \/ p.deferred)
  BY <1>1, <1>2, <1>3 DEF OnStatus
<1>4. CASE ~ (IsReady(ix) /\ (~ p.wasReady \/ p.deferred))
  BY <1>2, <1>4 DEF OnStatus
<1>. QED BY <1>3, <1>4

\* Both, in the order of most changes.
LEMMA OnChangeTyped ==
    ASSUME NEW p, NEW ix,
           visible \in SUBSET Docs, p \in Pushings, ix \in Indexes
    PROVE  OnChange(p, ix) \in Pushings
BY FlushTyped, OnStatusTyped DEF OnChange

(***************************************************************************)
(* The invariant                                                           *)
(***************************************************************************)
PushInv == /\ TypeOK
           /\ \A b \in Bases : index.version[b] <= changes
           /\ opening <= changes + 1

\* What the parts of a typed push say of the variables.
LEMMA SetTyped ==
    ASSUME NEW ACTION p, p \in Pushings, Set(p)
    PROVE  /\ deferred' \in BOOLEAN /\ wasReady' \in BOOLEAN
           /\ runner' \in [stage : {"idle", "refreshing"}, queued : BOOLEAN]
           /\ wire' \in UNION {[ds -> Snapshots] : ds \in SUBSET Docs}
BY DEF Set, Pushings, Runners, Wires

\* The variables themselves are a typed push.
LEMMA PushingTyped == PushInv => Pushing \in Pushings /\ index \in Indexes
BY DEF PushInv, TypeOK, Pushing, Pushings, Runners, Wires, Indexes

\* The initial states.
LEMMA InitPushInv ==
    ASSUME MaxChanges \in Nat, Init
    PROVE  PushInv
<1>. DEFINE first == [deferred |-> FALSE, wasReady |-> TRUE, wire |-> EmptyWire,
                      runner |-> [stage |-> "idle", queued |-> FALSE]]
<1>. DEFINE p == PushSnapshots(first, index, visible)
<1>1. /\ index \in Indexes /\ visible \in SUBSET Docs
      /\ \A b \in Bases : index.version[b] = 0
      /\ wasReady \in BOOLEAN
      /\ IF IsReady(index)
         THEN deferred = p.deferred /\ runner = p.runner /\ wire = p.wire /\ opening = 0
         ELSE /\ deferred = TRUE /\ opening = 1 /\ wire = EmptyWire
              /\ runner = [stage |-> "idle", queued |-> FALSE]
  <2>1. PICK ready \in SUBSET Bases, active \in Bases, shown \in SUBSET Docs :
      /\ index = [active |-> active, ready |-> ready, version |-> [b \in Bases |-> 0]]
      /\ visible = shown
      /\ wasReady = IsReady(index)
      /\ IF IsReady(index)
         THEN /\ deferred = PushSnapshots(first, index, shown).deferred
              /\ runner = PushSnapshots(first, index, shown).runner
              /\ wire = PushSnapshots(first, index, shown).wire
              /\ opening = 0
         ELSE /\ deferred = TRUE /\ opening = 1 /\ wire = EmptyWire
              /\ runner = [stage |-> "idle", queued |-> FALSE]
    BY Zenon DEF Init
  <2>2. [b \in Bases |-> 0] \in [Bases -> 0 .. MaxChanges]
    OBVIOUS
  <2>3. index \in Indexes /\ \A b \in Bases : index.version[b] = 0
    BY <2>1, <2>2 DEF Indexes
  <2>4. wasReady \in BOOLEAN
    BY <2>1 DEF IsReady
  <2>. HIDE DEF first
  <2>. QED BY <2>1, <2>3, <2>4
<1>2. server = [d \in Docs |-> NoSnapshot] /\ changes = 0
  BY DEF Init
<1>3. EmptyWire \in Wires
  <2>1. EmptyWire \in [{} -> Snapshots]
    BY DEF EmptyWire
  <2>. QED BY <2>1 DEF Wires
<1>4. first \in Pushings
  BY <1>3 DEF Pushings, Runners
<1>5. p \in Pushings
  <2>. HIDE DEF first
  <2>. QED BY <1>1, <1>4, PushSnapshotsTyped
<1>6. deferred \in BOOLEAN /\ runner \in Runners /\ wire \in Wires
  <2>1. CASE IsReady(index)
    <3>. HIDE DEF p
    <3>. QED BY <1>1, <1>5, <2>1 DEF Pushings
  <2>2. CASE ~ IsReady(index)
    <3>. HIDE DEF p
    <3>1. deferred = TRUE /\ wire = EmptyWire /\ runner = [stage |-> "idle", queued |-> FALSE]
      BY <1>1, <2>2
    <3>2. [stage |-> "idle", queued |-> FALSE] \in Runners
      BY DEF Runners
    <3>. QED BY <1>3, <3>1, <3>2
  <2>. QED BY <2>1, <2>2
<1>7. opening = 0 \/ opening = 1
  BY <1>1
<1>. HIDE DEF p, first
<1>8. server \in [Docs -> Snapshots \cup {NoSnapshot}]
  BY <1>2
<1>9. TypeOK
  BY <1>1, <1>2, <1>6, <1>7, <1>8 DEF TypeOK, Indexes, Runners, Wires
<1>. QED BY <1>1, <1>2, <1>6, <1>7, <1>9 DEF PushInv

(***************************************************************************)
(* Every step keeps it                                                     *)
(***************************************************************************)
\* There are no more flushes that wait than changes, and one.
LEMMA OpeningBound ==
    ASSUME NEW most \in Nat, NEW count \in 0 .. most, NEW waiting \in Nat,
           waiting <= count + 1
    PROVE  waiting \in 0 .. most + 1
OBVIOUS

\* One more flush that waits, for one more change.
LEMMA OpeningGrows ==
    ASSUME NEW count \in Nat, NEW waiting \in Nat, waiting + 1 <= count + 1
    PROVE  waiting + 1 \in Nat /\ waiting <= count + 1
OBVIOUS

\* A step that leaves the server alone, counts what it changes, and sets the
\* push from a typed one.
LEMMA StepKeeps ==
    ASSUME MaxChanges \in Nat, PushInv, NEW ACTION p, p \in Pushings, Set(p),
           index' \in Indexes,
           changes' \in 0 .. MaxChanges, changes <= changes',
           \A b \in Bases : index'.version[b] <= changes',
           opening' \in Nat, opening' <= changes' + 1,
           visible' \in SUBSET Docs, UNCHANGED server
    PROVE  PushInv'
<1>1. /\ deferred' \in BOOLEAN /\ wasReady' \in BOOLEAN
      /\ runner' \in [stage : {"idle", "refreshing"}, queued : BOOLEAN]
      /\ wire' \in UNION {[ds -> Snapshots] : ds \in SUBSET Docs}

  BY SetTyped
<1>2. opening' \in 0 .. MaxChanges + 1
  BY OpeningBound
<1>3. server' \in [Docs -> Snapshots \cup {NoSnapshot}]
  BY DEF PushInv, TypeOK
<1>4. TypeOK'
  BY <1>1, <1>2, <1>3 DEF TypeOK, Indexes
<1>. QED BY <1>1, <1>4 DEF PushInv

\* The same for a step that changes the index, and not what waits for it.
LEMMA IndexStepKeeps ==
    ASSUME MaxChanges \in Nat, PushInv, NEW ACTION p, p \in Pushings, Set(p),
           index' \in Indexes,
           changes' \in 0 .. MaxChanges, changes <= changes',
           \A b \in Bases : index'.version[b] <= changes',
           UNCHANGED <<visible, opening, server>>
    PROVE  PushInv'
<1>1. opening' \in Nat /\ opening' <= changes' + 1 /\ visible' \in SUBSET Docs
    <2>1. opening \in Nat /\ changes \in Nat /\ opening <= changes + 1 /\ visible \in SUBSET Docs
    BY DEF PushInv, TypeOK
  <2>. QED BY <2>1
<1>. QED BY <1>1, StepKeeps

\* The index after a version of the active base, and after a base is no longer ready.
LEMMA Versioned ==
    ASSUME MaxChanges \in Nat, PushInv, Change
    PROVE  LET ix == [index EXCEPT !.version[index.active] = @ + 1]
           IN  /\ ix \in Indexes /\ ix.ready = index.ready
               /\ ix.active = index.active
               /\ \A b \in Bases : ix.version[b] <= changes'
<1>1. /\ index \in Indexes /\ changes \in Nat /\ changes' = changes + 1 /\ changes < MaxChanges
      /\ \A b \in Bases : index.version[b] <= changes
  BY DEF PushInv, TypeOK, Change, Indexes
<1>2. index.active \in Bases /\ index.version \in [Bases -> 0 .. MaxChanges]
  BY <1>1 DEF Indexes
<1>. DEFINE v == [index.version EXCEPT ![index.active] = @ + 1]
<1>3. v \in [Bases -> 0 .. MaxChanges] /\ \A b \in Bases : v[b] <= changes'
  BY <1>1, <1>2
<1>4. [index EXCEPT !.version[index.active] = @ + 1] = [index EXCEPT !.version = v]
  BY <1>1 DEF Indexes
<1>. HIDE DEF v
<1>. QED BY <1>1, <1>3, <1>4 DEF Indexes

LEMMA CountsOne ==
    ASSUME MaxChanges \in Nat, PushInv, Change
    PROVE  /\ changes' \in 0 .. MaxChanges /\ changes <= changes'
           /\ \A b \in Bases : index.version[b] <= changes'
           /\ opening + 1 <= changes' + 1
BY DEF PushInv, TypeOK, Change

\* A pass begins, or a switch of base: no more bases are ready than were.
LEMMA LeavesReadyKeeps ==
    ASSUME MaxChanges \in Nat, PushInv, LeavesReady
    PROVE  PushInv'
<1>1. /\ index' \in Indexes
      /\ \A b \in Bases : index'.version[b] = index.version[b]
  BY DEF PushInv, TypeOK, LeavesReady, Indexes
<1>2. OnStatus(Pushing, index', visible) \in Pushings
  <2>1. visible \in SUBSET Docs
    BY DEF PushInv, TypeOK
  <2>. QED BY <1>1, <2>1, PushingTyped, OnStatusTyped
<1>3. Change /\ UNCHANGED <<visible, opening, server>>
  BY DEF LeavesReady
<1>. QED BY <1>1, <1>2, <1>3, CountsOne, IndexStepKeeps DEF LeavesReady

\* A file is indexed while the index is not ready: nothing is sent.
LEMMA RowsChangeMidPassKeeps ==
    ASSUME MaxChanges \in Nat, PushInv, RowsChangeMidPass
    PROVE  PushInv'
<1>1. /\ index' \in Indexes
      /\ \A b \in Bases : index'.version[b] <= changes'
  BY Versioned DEF PushInv, RowsChangeMidPass
<1>2. Flush(Pushing, index', visible) \in Pushings
  <2>1. visible \in SUBSET Docs
    BY DEF PushInv, TypeOK
  <2>. QED BY <1>1, <2>1, PushingTyped, FlushTyped
<1>. QED BY <1>1, <1>2, CountsOne, IndexStepKeeps DEF RowsChangeMidPass

\* A pass ends: the active base is ready.
LEMMA BecomesReadyKeeps ==
    ASSUME MaxChanges \in Nat, PushInv, BecomesReady
    PROVE  PushInv'
<1>1. /\ index' \in Indexes
      /\ \A b \in Bases : index'.version[b] = index.version[b]
  BY DEF PushInv, TypeOK, BecomesReady, Indexes
<1>2. OnChange(Pushing, index') \in Pushings
  <2>1. visible \in SUBSET Docs
    BY DEF PushInv, TypeOK
  <2>. QED BY <1>1, <2>1, PushingTyped, OnChangeTyped
<1>3. /\ changes' \in 0 .. MaxChanges /\ changes <= changes'
      /\ \A b \in Bases : index'.version[b] <= changes'
  BY <1>1 DEF PushInv, TypeOK, BecomesReady
<1>. QED BY <1>1, <1>2, <1>3, IndexStepKeeps DEF BecomesReady

\* Rows of a ready index change.
LEMMA RowsChangeKeeps ==
    ASSUME MaxChanges \in Nat, PushInv, RowsChange
    PROVE  PushInv'
<1>1. /\ index' \in Indexes
      /\ \A b \in Bases : index'.version[b] <= changes'
  BY Versioned DEF PushInv, RowsChange
<1>2. OnChange(Pushing, index') \in Pushings
  <2>1. visible \in SUBSET Docs
    BY DEF PushInv, TypeOK
  <2>. QED BY <1>1, <2>1, PushingTyped, OnChangeTyped
<1>. QED BY <1>1, <1>2, CountsOne, IndexStepKeeps DEF RowsChange

\* A rebuild sends what it has just cleared; then the base is not ready.
LEMMA ClearedKeeps ==
    ASSUME MaxChanges \in Nat, PushInv, Cleared
    PROVE  PushInv'
<1>. DEFINE empty == [index EXCEPT !.version[index.active] = @ + 1]
<1>. DEFINE told == OnChange(Pushing, empty)
<1>1. /\ Change /\ index' = [empty EXCEPT !.ready = @ \ {index.active}]
      /\ Set(OnStatus(told, index', visible))
      /\ UNCHANGED <<visible, opening, server>>
  BY DEF Cleared
<1>2. /\ empty \in Indexes /\ empty.ready = index.ready
      /\ \A b \in Bases : empty.version[b] <= changes'
  BY <1>1, Versioned
<1>. HIDE DEF empty
<1>3. /\ index' \in Indexes
      /\ \A b \in Bases : index'.version[b] <= changes'
  BY <1>1, <1>2 DEF Indexes
<1>4. visible \in SUBSET Docs
  BY DEF PushInv, TypeOK
<1>5. told \in Pushings
  BY <1>2, <1>4, PushingTyped, OnChangeTyped
<1>. HIDE DEF told
<1>6. OnStatus(told, index', visible) \in Pushings
  BY <1>3, <1>4, <1>5, OnStatusTyped
<1>. QED BY <1>1, <1>3, <1>6, CountsOne, IndexStepKeeps

\* The active base is another one.
LEMMA SwitchBaseKeeps ==
    ASSUME MaxChanges \in Nat, PushInv, NEW b \in Bases, SwitchBase(b) \/ FollowBase(b)
    PROVE  PushInv'
<1>1. /\ index' \in Indexes
      /\ \A c \in Bases : index'.version[c] = index.version[c]
  <2>1. index \in Indexes
    BY DEF PushInv, TypeOK, Indexes
  <2>2. index' = [index EXCEPT !.active = b, !.ready = @ \ {index.active}]
    BY DEF SwitchBase, FollowBase
  <2>. QED BY <2>1, <2>2 DEF Indexes
<1>2. visible \in SUBSET Docs
  BY DEF PushInv, TypeOK
<1>. DEFINE told == OnStatus(Pushing, index', visible)
<1>3. told \in Pushings
  BY <1>1, <1>2, PushingTyped, OnStatusTyped
<1>4. Flush(told, index', visible) \in Pushings
  <2>. HIDE DEF told
  <2>. QED BY <1>1, <1>2, <1>3, FlushTyped
<1>5. Change /\ UNCHANGED <<visible, opening, server>>
  BY DEF SwitchBase, FollowBase
<1>6. Set(told) \/ Set(Flush(told, index', visible))
  BY DEF SwitchBase, FollowBase
<1>. HIDE DEF told
<1>. QED BY <1>1, <1>3, <1>4, <1>5, <1>6, CountsOne, IndexStepKeeps

\* The editors change: they are flushed to, or wait for the index to open.
LEMMA EditorsChangeKeeps ==
    ASSUME MaxChanges \in Nat, PushInv, NEW shown \in SUBSET Docs, EditorsChange(shown)
    PROVE  PushInv'
<1>1. /\ index' \in Indexes
      /\ \A b \in Bases : index'.version[b] <= changes'
      /\ changes' \in 0 .. MaxChanges /\ changes <= changes' /\ opening + 1 <= changes' + 1
      /\ visible' \in SUBSET Docs /\ UNCHANGED server /\ opening \in Nat
  <2>1. UNCHANGED <<index, server>> /\ visible' = shown /\ Change
    BY DEF EditorsChange
  <2>. QED BY <2>1, CountsOne DEF PushInv, TypeOK, Indexes
<1>. /\ opening + 1 \in Nat /\ opening <= changes' + 1
  <2>1. changes' \in Nat
    BY <1>1
  <2>. QED BY <1>1, <2>1, OpeningGrows
<1>2. CASE IsReady(index)
  <2>1. Flush(Pushing, index, shown) \in Pushings
    BY PushingTyped, FlushTyped
  <2>2. Set(Flush(Pushing, index, shown)) /\ UNCHANGED opening
    BY <1>2 DEF EditorsChange
  <2>3. opening' \in Nat /\ opening' <= changes' + 1
    BY <1>1, <2>2
  <2>. QED BY <1>1, <2>1, <2>2, <2>3, StepKeeps
<1>3. CASE ~ IsReady(index)
  <2>1. opening' = opening + 1 /\ UNCHANGED <<deferred, wasReady, runner, wire>>
    BY <1>3 DEF EditorsChange
  <2>2. Set(Pushing) /\ Pushing \in Pushings
    BY <2>1, PushingTyped DEF Set, Pushing
  <2>3. opening' \in Nat /\ opening' <= changes' + 1
    BY <1>1, <2>1
  <2>. QED BY <1>1, <2>2, <2>3, StepKeeps
<1>. QED BY <1>2, <1>3

\* ensureOpenForUse is over.
LEMMA OpenedKeeps ==
    ASSUME MaxChanges \in Nat, PushInv, Opened
    PROVE  PushInv'
<1>. DEFINE told == OnStatus(Pushing, index, visible)
<1>. DEFINE flushed == Flush(told, index, visible)
<1>. DEFINE all == Flush(flushed, index, visible)
<1>1. visible \in SUBSET Docs
  BY DEF PushInv, TypeOK
<1>2. told \in Pushings
  BY <1>1, PushingTyped, OnStatusTyped
<1>3. flushed \in Pushings
  <2>. HIDE DEF told
  <2>. QED BY <1>1, <1>2, PushingTyped, FlushTyped
<1>4. all \in Pushings
  <2>. HIDE DEF flushed
  <2>. QED BY <1>1, <1>3, PushingTyped, FlushTyped
<1>5. Set(all) /\ UNCHANGED <<index, visible, server, changes>>
  BY DEF Opened
<1>. HIDE DEF all
<1>6. /\ index' \in Indexes
      /\ \A b \in Bases : index'.version[b] <= changes'
      /\ changes' \in 0 .. MaxChanges /\ changes <= changes' /\ visible' \in SUBSET Docs
  BY <1>5 DEF PushInv, TypeOK, Indexes
<1>7. opening' \in Nat /\ opening' <= changes' + 1
  <2>1. opening \in Nat /\ opening > 0 /\ opening' = opening - 1 /\ opening <= changes + 1
    BY DEF Opened, PushInv, TypeOK
  <2>2. changes' = changes /\ changes \in Nat
    BY <1>5 DEF PushInv, TypeOK
  <2>. QED BY <2>1, <2>2
<1>. QED BY <1>4, <1>5, <1>6, <1>7, StepKeeps

\* The server takes a batch: what is on the wire is the empty one.
LEMMA NoteSnapshotKeeps ==
    ASSUME PushInv, NoteSnapshot
    PROVE  PushInv'
<1>1. /\ UNCHANGED <<index, visible, deferred, wasReady, runner, opening, changes>>
      /\ wire' = EmptyWire
      /\ server' = [d \in Docs |-> IF d \in DOMAIN wire THEN wire[d] ELSE server[d]]
  BY DEF NoteSnapshot
<1>2. EmptyWire \in Wires
  <2>1. EmptyWire \in [{} -> Snapshots]
    BY DEF EmptyWire
  <2>. QED BY <2>1 DEF Wires
<1>3. PICK ds \in SUBSET Docs : wire \in [ds -> Snapshots]
  BY DEF PushInv, TypeOK
<1>4. server' \in [Docs -> Snapshots \cup {NoSnapshot}]
  BY <1>1, <1>3 DEF PushInv, TypeOK
<1>5. TypeOK'
  BY <1>1, <1>2, <1>4 DEF PushInv, TypeOK, Wires
<1>. QED BY <1>1, <1>2, <1>5 DEF PushInv

\* The refresh requests are answered: the runner goes again, or stops.
LEMMA RefreshedKeeps ==
    ASSUME MaxChanges \in Nat, PushInv, Refreshed
    PROVE  PushInv'
<1>1. UNCHANGED <<index, visible, opening, server, changes>>
  BY DEF Refreshed
<1>2. visible \in SUBSET Docs
  BY DEF PushInv, TypeOK
<1>3. PushSnapshots(Pushing, index, visible) \in Pushings
  BY <1>2, PushingTyped, PushSnapshotsTyped
<1>4. [Pushing EXCEPT !.runner.stage = "idle"] \in Pushings
  BY PushingTyped DEF Pushings, Runners
<1>5. /\ index' \in Indexes
      /\ \A b \in Bases : index'.version[b] <= changes'
      /\ changes' \in 0 .. MaxChanges /\ changes <= changes'
  BY <1>1 DEF PushInv, TypeOK, Indexes
<1>6. \/ Set(PushSnapshots(Pushing, index, visible))
      \/ Set([Pushing EXCEPT !.runner.stage = "idle"])
  BY DEF Refreshed
<1>. QED BY <1>1, <1>3, <1>4, <1>5, <1>6, IndexStepKeeps

(***************************************************************************)
(* The theorems                                                            *)
(***************************************************************************)
\* The invariant holds throughout.
THEOREM PushInvariant == ASSUME MaxChanges \in Nat PROVE Spec => []PushInv
<1>1. Init => PushInv
  BY InitPushInv
<1>2. PushInv /\ [Next]_pushVars => PushInv'
  <2>. SUFFICES ASSUME PushInv, [Next]_pushVars PROVE PushInv'
    OBVIOUS
  <2>1. CASE LeavesReady
    BY <2>1, LeavesReadyKeeps
  <2>2. CASE RowsChangeMidPass
    BY <2>2, RowsChangeMidPassKeeps
  <2>3. CASE RowsChange
    BY <2>3, RowsChangeKeeps
  <2>4. CASE Cleared
    BY <2>4, ClearedKeeps
  <2>5. CASE \E b \in Bases : SwitchBase(b) \/ FollowBase(b)
    BY <2>5, SwitchBaseKeeps
  <2>6. CASE \E shown \in SUBSET Docs : EditorsChange(shown)
    BY <2>6, EditorsChangeKeeps
  <2>7. CASE NoteSnapshot
    BY <2>7, NoteSnapshotKeeps
  <2>8. CASE Refreshed
    BY <2>8, RefreshedKeeps
  <2>9. CASE Opened
    BY <2>9, OpenedKeeps
  <2>10. CASE BecomesReady
    BY <2>10, BecomesReadyKeeps
  <2>11. CASE UNCHANGED pushVars
    BY <2>11 DEF pushVars, PushInv, TypeOK
  <2>. QED BY <2>1, <2>2, <2>3, <2>4, <2>5, <2>6, <2>7, <2>8, <2>9, <2>10, <2>11
           DEF Next, Program
<1>. QED BY <1>1, <1>2, PTL DEF Spec

\* The variables have their types, whatever the documents, their bases and the bound.
THEOREM PushTyped == ASSUME MaxChanges \in Nat PROVE Spec => []TypeOK
<1>1. PushInv => TypeOK
  BY DEF PushInv
<1>. QED BY <1>1, PushInvariant, PTL

(***************************************************************************)
(* At rest                                                                 *)
(***************************************************************************)
\* What the server has of a document, or will have when it has taken the batch.
Latest(w, d) == IF d \in DOMAIN w THEN w[d] ELSE server[d]

\* A snapshot with the rows its base has now, all of them.
Current(s, ix) == /\ s # NoSnapshot
                  /\ s.version = ix.version[s.base]

\* An idle runner has nothing on the wire and nothing to do again.
Quiet(p) == p.runner.stage = "idle" => p.wire = EmptyWire /\ ~ p.runner.queued

\* A ready index has been pushed to all that is shown, or will be when the run under
\* way is over.
Reaches(p, ix, shown) ==
    IsReady(ix) /\ ~ p.runner.queued => \A d \in shown : Current(Latest(p.wire, d), ix)

\* Nothing on the wire, and no run under way.
PushAtRest == wire = EmptyWire /\ runner.stage = "idle"

RestInv ==
    /\ runner.stage = "idle" => wire = EmptyWire /\ ~ runner.queued
    /\ IsReady(index) /\ ~ runner.queued =>
           \A d \in visible : Current(Latest(wire, d), index)
    /\ wasReady = IsReady(index)

\* pushSnapshots ends the run or begins one.
LEMMA PushSnapshotsQuiet ==
    ASSUME NEW p, NEW ix, NEW shown, p \in Pushings, p.wire = EmptyWire
    PROVE  /\ Quiet(PushSnapshots(p, ix, shown))
           /\ PushSnapshots(p, ix, shown).wasReady = p.wasReady
<1>1. Built(ix, {}) = EmptyWire
  BY DEF Built, EmptyWire
<1>2. CASE IsReady(ix)
  <2>. DEFINE w == Built(ix, shown)
              r == [stage |-> IF shown = {} THEN "idle" ELSE "refreshing", queued |-> FALSE]
  <2>1. PushSnapshots(p, ix, shown)
           = [p EXCEPT !.deferred = FALSE, !.wire = w, !.runner = r]
    BY <1>2 DEF PushSnapshots
  <2>2. r.stage = "idle" => w = EmptyWire
    BY <1>1
  <2>3. r.queued = FALSE
    OBVIOUS
  <2>. HIDE DEF w, r
  <2>. QED BY <2>1, <2>2, <2>3 DEF Quiet, Pushings
<1>3. CASE ~ IsReady(ix)
  BY <1>3 DEF PushSnapshots, Quiet, Pushings
<1>. QED BY <1>2, <1>3

\* It sends what a ready index has of all that is shown.
LEMMA PushSnapshotsReaches ==
    ASSUME NEW p, NEW ix, NEW shown \in SUBSET Docs,
           NoSnapshot \notin Snapshots, p \in Pushings, ix \in Indexes
    PROVE  Reaches(PushSnapshots(p, ix, shown), ix, shown)
<1>. SUFFICES ASSUME IsReady(ix), NEW d \in shown
     PROVE  Current(Latest(PushSnapshots(p, ix, shown).wire, d), ix)
  BY DEF Reaches
<1>. DEFINE w == Built(ix, shown)
<1>1. PushSnapshots(p, ix, shown).wire = w
  BY DEF PushSnapshots, Pushings
<1>2. /\ DOMAIN w = shown /\ w[d].base = ix.active
      /\ w[d].version = ix.version[ix.active]
  BY DEF Built
<1>3. w \in Wires
  BY BuiltTyped
<1>4. w[d] \in Snapshots
  BY <1>2, <1>3 DEF Wires
<1>. HIDE DEF w
<1>. QED BY <1>1, <1>2, <1>4 DEF Latest, Current

\* The coalesced runner: a run under way is asked to go again.
LEMMA SchedulePushRest ==
    ASSUME NEW p, NEW ix, NEW shown \in SUBSET Docs,
           NoSnapshot \notin Snapshots, p \in Pushings, Quiet(p), ix \in Indexes
    PROVE  /\ Quiet(SchedulePush(p, ix, shown))
           /\ SchedulePush(p, ix, shown).wasReady = p.wasReady
           /\ Reaches(SchedulePush(p, ix, shown), ix, shown)
<1>1. CASE p.runner.stage # "idle"
  <2>. DEFINE q == [p EXCEPT !.runner.queued = TRUE]
  <2>1. q.runner.stage = p.runner.stage /\ q.runner.queued = TRUE /\ q.wasReady = p.wasReady
    BY DEF Pushings, Runners
  <2>2. SchedulePush(p, ix, shown) = q
    BY <1>1 DEF SchedulePush
  <2>. HIDE DEF q
  <2>. QED BY <1>1, <2>1, <2>2 DEF Quiet, Reaches
<1>2. CASE p.runner.stage = "idle"
  <2>1. SchedulePush(p, ix, shown) = PushSnapshots(p, ix, shown)
    BY <1>2 DEF SchedulePush
  <2>2. p.wire = EmptyWire /\ p \in Pushings
    BY <1>2 DEF Quiet
  <2>3. Reaches(PushSnapshots(p, ix, shown), ix, shown)
    BY <2>2, PushSnapshotsReaches
  <2>4. /\ Quiet(PushSnapshots(p, ix, shown))
        /\ PushSnapshots(p, ix, shown).wasReady = p.wasReady
    BY <2>2, PushSnapshotsQuiet
  <2>. QED BY <2>1, <2>3, <2>4
<1>. QED BY <1>1, <1>2

\* The catalog listener.
LEMMA FlushRest ==
    ASSUME NEW p, NEW ix, NEW shown \in SUBSET Docs,
           NoSnapshot \notin Snapshots, p \in Pushings, Quiet(p), ix \in Indexes
    PROVE  /\ Quiet(Flush(p, ix, shown))
           /\ Flush(p, ix, shown).wasReady = p.wasReady
           /\ Reaches(Flush(p, ix, shown), ix, shown)
<1>1. CASE IsReady(ix)
  BY <1>1, SchedulePushRest DEF Flush
<1>2. CASE ~ IsReady(ix)
  <2>. DEFINE q == [p EXCEPT !.deferred = TRUE]
  <2>1. q.runner = p.runner /\ q.wire = p.wire /\ q.wasReady = p.wasReady
    BY DEF Pushings
  <2>2. Flush(p, ix, shown) = q
    BY <1>2 DEF Flush
  <2>. HIDE DEF q
  <2>. QED BY <1>2, <2>1, <2>2 DEF Quiet, Reaches
<1>. QED BY <1>1, <1>2

\* The status listener: it need not push to an index that was ready before and is
\* ready now, if that was pushed to.
LEMMA OnStatusRest ==
    ASSUME NEW p, NEW ix, NEW shown \in SUBSET Docs,
           NoSnapshot \notin Snapshots, p \in Pushings, Quiet(p), ix \in Indexes
    PROVE  /\ Quiet(OnStatus(p, ix, shown))
           /\ OnStatus(p, ix, shown).wasReady = IsReady(ix)
           /\ (p.wasReady => Reaches(p, ix, shown))
              => Reaches(OnStatus(p, ix, shown), ix, shown)
<1>. DEFINE due == IsReady(ix) /\ (~ p.wasReady \/ p.deferred)
            s == SchedulePush(p, ix, shown)
            q == IF due THEN s ELSE p
            r == [q EXCEPT !.wasReady = IsReady(ix)]
<1>1. OnStatus(p, ix, shown) = r
  BY DEF OnStatus
<1>2. s \in Pushings /\ Quiet(s) /\ Reaches(s, ix, shown)
  BY SchedulePushTyped, SchedulePushRest
<1>. HIDE DEF s
<1>3. /\ q \in Pushings /\ Quiet(q)
      /\ (p.wasReady => Reaches(p, ix, shown)) => Reaches(q, ix, shown)
  <2>1. CASE due
    BY <1>2, <2>1
  <2>2. CASE ~ due
    <3>1. q = p
      BY <2>2
    <3>2. p.wasReady \/ Reaches(p, ix, shown)
      BY <2>2 DEF Reaches
    <3>. HIDE DEF q, due
    <3>. QED BY <3>1, <3>2
  <2>. QED BY <2>1, <2>2
<1>. HIDE DEF q
<1>4. r.runner = q.runner /\ r.wire = q.wire /\ r.wasReady = IsReady(ix)
  BY <1>3 DEF Pushings
<1>. HIDE DEF r
<1>. QED BY <1>1, <1>3, <1>4 DEF Quiet, Reaches

\* The invariant says it of the variables.
LEMMA PushingRests ==
    ASSUME RestInv
    PROVE  Quiet(Pushing) /\ Reaches(Pushing, index, visible) /\ Pushing.wasReady = IsReady(index)
BY DEF RestInv, Pushing, Quiet, Reaches

\* A step that leaves the server alone and sets the push from one that reaches all.
LEMMA SetRests ==
    ASSUME NEW ACTION p, Set(p), UNCHANGED server, Quiet(p), Reaches(p, index', visible'),
           p.wasReady = IsReady(index')
    PROVE  RestInv'
<1>1. /\ wasReady' = p.wasReady /\ runner' = p.runner /\ wire' = p.wire
  BY DEF Set
<1>2. runner'.stage = "idle" => wire' = EmptyWire /\ ~ runner'.queued
  BY <1>1 DEF Quiet
<1>3. index'.active \in index'.ready /\ ~ runner'.queued =>
         \A d \in visible' :
            LET s == IF d \in DOMAIN wire' THEN wire'[d] ELSE server'[d]
            IN  s # NoSnapshot /\ s.version = index'.version[s.base]
  BY <1>1 DEF Reaches, IsReady, Current, Latest
<1>4. wasReady' = (index'.active \in index'.ready)
  BY <1>1 DEF IsReady
<1>. QED BY <1>2, <1>3, <1>4 DEF RestInv, IsReady, Current, Latest, EmptyWire

\* The listeners tell the runner of a change.
LEMMA OnChangeRest ==
    ASSUME NEW p, NEW ix, visible \in SUBSET Docs,
           NoSnapshot \notin Snapshots, p \in Pushings, Quiet(p), ix \in Indexes
    PROVE  /\ Quiet(OnChange(p, ix))
           /\ OnChange(p, ix).wasReady = IsReady(ix)
           /\ Reaches(OnChange(p, ix), ix, visible)
<1>. DEFINE f == Flush(p, ix, visible)
<1>1. f \in Pushings /\ Quiet(f) /\ Reaches(f, ix, visible)
  BY FlushTyped, FlushRest
<1>2. OnChange(p, ix) = OnStatus(f, ix, visible)
  BY DEF OnChange
<1>. HIDE DEF f
<1>. DEFINE s == OnStatus(f, ix, visible)
<1>3. Quiet(s) /\ s.wasReady = IsReady(ix) /\ Reaches(s, ix, visible)
  BY <1>1, OnStatusRest
<1>. HIDE DEF s
<1>. QED BY <1>2, <1>3 DEF s

\* Every step keeps it.
LEMMA RestStep ==
    ASSUME MaxChanges \in Nat, NoSnapshot \notin Snapshots, PushInv, RestInv, PushInv',
           [Next]_pushVars
    PROVE  RestInv'
<1>0. /\ visible \in SUBSET Docs /\ visible' \in SUBSET Docs
      /\ Pushing \in Pushings /\ index \in Indexes /\ index' \in Indexes
      /\ index \in Indexes /\ index' \in Indexes
  BY PushingTyped DEF PushInv, TypeOK, Indexes
<1>1. Quiet(Pushing) /\ Reaches(Pushing, index, visible) /\ Pushing.wasReady = IsReady(index)
  BY PushingRests
<1>2. CASE LeavesReady
  <2>. DEFINE p == OnStatus(Pushing, index', visible)
  <2>1. Set(p) /\ UNCHANGED <<visible, server>>
    BY <1>2 DEF LeavesReady
  <2>2. ~ IsReady(index')
    BY <1>0, <1>2 DEF LeavesReady, IsReady, Indexes
  <2>3. Quiet(p) /\ p.wasReady = IsReady(index') /\ Reaches(p, index', visible')
    BY <1>0, <1>1, <2>2, OnStatusRest DEF Reaches
  <2>. HIDE DEF p
  <2>. QED BY <2>1, <2>3, SetRests
<1>3. CASE RowsChangeMidPass
  <2>. DEFINE p == Flush(Pushing, index', visible)
  <2>1. Set(p) /\ UNCHANGED <<visible, server>>
    BY <1>3 DEF RowsChangeMidPass
  <2>2. ~ IsReady(index') /\ ~ IsReady(index)
    BY <1>0, <1>3 DEF RowsChangeMidPass, IsReady, Indexes
  <2>3. Quiet(p) /\ p.wasReady = Pushing.wasReady
    BY <1>0, <1>1, FlushRest
  <2>4. Reaches(p, index', visible')
    BY <2>2 DEF Reaches
  <2>5. p.wasReady = IsReady(index')
    <3>1. IsReady(index) = IsReady(index')
      BY <2>2 DEF IsReady
    <3>. HIDE DEF p
    <3>. QED BY Zenon, <1>1, <2>3, <3>1
  <2>. HIDE DEF p
  <2>. QED BY <2>1, <2>3, <2>4, <2>5, SetRests
<1>4. CASE BecomesReady \/ RowsChange
  <2>. DEFINE p == OnChange(Pushing, index')
  <2>1. Set(p) /\ UNCHANGED <<visible, server>>
    BY <1>4 DEF BecomesReady, RowsChange
  <2>2. Quiet(p) /\ p.wasReady = IsReady(index') /\ Reaches(p, index', visible')
    BY <1>0, <1>1, <2>1, OnChangeRest
  <2>. HIDE DEF p
  <2>. QED BY <2>1, <2>2, SetRests
<1>5. CASE Cleared
  <2>. DEFINE empty == [index EXCEPT !.version[index.active] = @ + 1]
              told == OnChange(Pushing, empty)
              p == OnStatus(told, index', visible)
  <2>1. /\ Set(p) /\ UNCHANGED <<visible, server>>
        /\ index' = [empty EXCEPT !.ready = @ \ {index.active}]
    BY <1>5 DEF Cleared
  <2>2. Change
    BY <1>5 DEF Cleared
  <2>3. empty \in Indexes
    BY <2>2, Versioned
  <2>4. ~ IsReady(index')
    BY <1>0, <2>1 DEF IsReady, Indexes
  <2>. HIDE DEF empty
  <2>5. told \in Pushings /\ Quiet(told)
    BY <1>0, <1>1, <2>3, OnChangeTyped, OnChangeRest
  <2>. HIDE DEF told
  <2>6. Quiet(p) /\ p.wasReady = IsReady(index') /\ Reaches(p, index', visible')
    BY <1>0, <2>4, <2>5, OnStatusRest DEF Reaches
  <2>. HIDE DEF p
  <2>. QED BY <2>1, <2>6, SetRests
<1>6. ASSUME NEW b \in Bases, SwitchBase(b) \/ FollowBase(b)
      PROVE  RestInv'
  <2>. DEFINE told == OnStatus(Pushing, index', visible)
              all == Flush(told, index', visible)
  <2>1. UNCHANGED <<visible, server>> /\ (Set(told) \/ Set(all))
    BY <1>6 DEF SwitchBase, FollowBase
  <2>2. index'.version = index.version
    BY <1>0, <1>6 DEF SwitchBase, FollowBase, Indexes
  <2>3. Pushing.wasReady => Reaches(Pushing, index', visible)
    BY <1>1, <2>2 DEF Reaches, Current
  <2>4. told \in Pushings /\ Quiet(told) /\ told.wasReady = IsReady(index') /\ Reaches(told, index', visible)
    BY <1>0, <1>1, <2>3, OnStatusTyped, OnStatusRest
  <2>. HIDE DEF told
  <2>5. Quiet(all) /\ all.wasReady = IsReady(index') /\ Reaches(all, index', visible)
    BY <1>0, <2>4, FlushRest
  <2>. HIDE DEF all
  <2>. QED BY <2>1, <2>4, <2>5, SetRests
<1>7. ASSUME NEW shown \in SUBSET Docs, EditorsChange(shown)
      PROVE  RestInv'
  <2>1. visible' = shown /\ UNCHANGED <<index, server>>
    BY <1>7 DEF EditorsChange
  <2>2. CASE IsReady(index)
    <3>. DEFINE p == Flush(Pushing, index, shown)
    <3>1. Set(p)
      BY <1>7, <2>2 DEF EditorsChange
    <3>2. Quiet(p) /\ p.wasReady = IsReady(index) /\ Reaches(p, index, shown)
      BY <1>0, <1>1, FlushRest
    <3>. HIDE DEF p
    <3>. QED BY <2>1, <3>1, <3>2, SetRests
  <2>3. CASE ~ IsReady(index)
    <3>1. UNCHANGED <<deferred, wasReady, runner, wire>>
      BY <1>7, <2>3 DEF EditorsChange
    <3>2. Set(Pushing)
      BY <3>1 DEF Set, Pushing
    <3>3. Reaches(Pushing, index', visible') /\ Pushing.wasReady = IsReady(index')
      BY <1>1, <2>1, <2>3 DEF Reaches
    <3>. QED BY <1>1, <2>1, <3>2, <3>3, SetRests
  <2>. QED BY <2>2, <2>3
<1>8. CASE Opened
  <2>. DEFINE told == OnStatus(Pushing, index, visible)
              flushed == Flush(told, index, visible)
              all == Flush(flushed, index, visible)
  <2>1. Set(all) /\ UNCHANGED <<index, visible, server>>
    BY <1>8 DEF Opened
  <2>2. told \in Pushings /\ Quiet(told) /\ told.wasReady = IsReady(index)
    BY <1>0, <1>1, OnStatusTyped, OnStatusRest
  <2>. HIDE DEF told
  <2>3. flushed \in Pushings /\ Quiet(flushed) /\ flushed.wasReady = IsReady(index)
    BY <1>0, <2>2, FlushTyped, FlushRest
  <2>. HIDE DEF flushed
  <2>4. Quiet(all) /\ all.wasReady = IsReady(index) /\ Reaches(all, index, visible)
    BY <1>0, <2>3, FlushRest
  <2>. HIDE DEF all
  <2>. QED BY <2>1, <2>4, SetRests
<1>9. CASE NoteSnapshot
  <2>1. /\ UNCHANGED <<index, visible, runner, wasReady>> /\ wire' = EmptyWire
        /\ server' = [d \in Docs |-> IF d \in DOMAIN wire THEN wire[d] ELSE server[d]]
    BY <1>9 DEF NoteSnapshot
  <2>2. \A d \in visible : IF d \in DOMAIN wire' THEN FALSE ELSE server'[d] = Latest(wire, d)
    BY <1>0, <2>1 DEF EmptyWire, Latest
  <2>. QED BY <2>1, <2>2 DEF RestInv, IsReady, Current, Latest, EmptyWire
<1>10. CASE Refreshed
  <2>1. UNCHANGED <<index, visible, server>> /\ wire = EmptyWire
    BY <1>10 DEF Refreshed
  <2>2. Pushing \in Pushings /\ Pushing.wire = EmptyWire
    BY <1>0, <2>1 DEF Pushing
  <2>3. CASE runner.queued
    <3>. DEFINE p == PushSnapshots(Pushing, index, visible)
    <3>1. Set(p)
      BY <1>10, <2>3 DEF Refreshed
    <3>2. Quiet(p) /\ p.wasReady = IsReady(index)
      BY <1>1, <2>2, PushSnapshotsQuiet
    <3>3. Reaches(p, index, visible)
      BY <1>0, <2>2, PushSnapshotsReaches
    <3>. HIDE DEF p
    <3>. QED BY <2>1, <3>1, <3>2, <3>3, SetRests
  <2>4. CASE ~ runner.queued
    <3>. DEFINE p == [Pushing EXCEPT !.runner.stage = "idle"]
    <3>1. Set(p)
      BY <1>10, <2>4 DEF Refreshed
    <3>2. /\ p.wire = Pushing.wire /\ p.wasReady = Pushing.wasReady
          /\ p.runner.queued = Pushing.runner.queued /\ ~ Pushing.runner.queued
      BY <2>2, <2>4 DEF Pushings, Runners, Pushing
    <3>. HIDE DEF p
    <3>3. Quiet(p) /\ Reaches(p, index, visible) /\ p.wasReady = IsReady(index)
      BY <1>1, <2>2, <3>2 DEF Quiet, Reaches
    <3>. QED BY <2>1, <3>1, <3>3, SetRests
  <2>. QED BY <2>3, <2>4
<1>11. CASE UNCHANGED pushVars
  BY <1>11 DEF pushVars, RestInv, IsReady, Current, Latest, EmptyWire
<1>. QED BY <1>2, <1>3, <1>4, <1>5, <1>6, <1>7, <1>8, <1>9, <1>10, <1>11 DEF Next, Program

\* When the wire is empty and no run is under way, the server has the last rows of every
\* visible document of a ready base (register-inbound-sqlite-sync.ts:39-98), whatever
\* the documents, their bases and the changes: no change that came during a push, and
\* none that came while the index was not ready, is forgotten.
THEOREM PushRests ==
    ASSUME MaxChanges \in Nat, NoSnapshot \notin Snapshots
    PROVE  Spec => [](PushAtRest => LastRowsThere)
<1>1. ASSUME Init PROVE RestInv
  <2>. DEFINE first == [deferred |-> FALSE, wasReady |-> TRUE, wire |-> EmptyWire,
                        runner |-> [stage |-> "idle", queued |-> FALSE]]
  <2>1. PICK ready \in SUBSET Bases, active \in Bases, shown \in SUBSET Docs :
      /\ index = [active |-> active, ready |-> ready, version |-> [b \in Bases |-> 0]]
      /\ visible = shown
      /\ wasReady = IsReady(index)
      /\ IF IsReady(index)
         THEN /\ deferred = PushSnapshots(first, index, shown).deferred
              /\ runner = PushSnapshots(first, index, shown).runner
              /\ wire = PushSnapshots(first, index, shown).wire
              /\ opening = 0
         ELSE /\ deferred = TRUE /\ opening = 1 /\ wire = EmptyWire
              /\ runner = [stage |-> "idle", queued |-> FALSE]
    BY Zenon, <1>1 DEF Init
  <2>2. PushInv
    BY <1>1, InitPushInv
  <2>3. index \in Indexes
    BY <2>2, PushingTyped
  <2>4. first \in Pushings
    <3>1. EmptyWire \in [{} -> Snapshots]
      BY DEF EmptyWire
    <3>. QED BY <3>1 DEF Pushings, Runners, Wires
  <2>5. first.wire = EmptyWire
    OBVIOUS
  <2>. HIDE DEF first
  <2>6. CASE IsReady(index)
    <3>. DEFINE p == PushSnapshots(first, index, shown)
    <3>1. Quiet(p) /\ Reaches(p, index, shown)
      BY <2>3, <2>4, <2>5, PushSnapshotsQuiet, PushSnapshotsReaches
    <3>2. runner = p.runner /\ wire = p.wire
      BY <2>1, <2>6
    <3>. HIDE DEF p
    <3>. QED BY <2>1, <3>1, <3>2 DEF RestInv, Quiet, Reaches
  <2>7. CASE ~ IsReady(index)
    BY <2>1, <2>7 DEF RestInv
  <2>. QED BY <2>6, <2>7
<1>2. PushInv /\ RestInv /\ PushInv' /\ [Next]_pushVars => RestInv'
  BY RestStep
<1>3. PushInv /\ RestInv => (PushAtRest => LastRowsThere)
  <2>. SUFFICES ASSUME PushInv, RestInv, PushAtRest, IsReady(index), NEW d \in visible
       PROVE  /\ server[d] # NoSnapshot
              /\ server[d].base = index.active =>
                    server[d].version = index.version[index.active]
    BY DEF LastRowsThere
  <2>1. Current(Latest(wire, d), index) /\ d \notin DOMAIN wire
    BY DEF RestInv, PushAtRest, EmptyWire
  <2>. QED BY <2>1 DEF Current, Latest
<1>. QED BY <1>1, <1>2, <1>3, PushInvariant, PTL DEF Spec
=============================================================================
