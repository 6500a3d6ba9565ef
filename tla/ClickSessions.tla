------------------------------ MODULE ClickSessions ------------------------------
(***************************************************************************)
(* The sessions of `reqlan click` and `reqlan rope`.  Agents call them from *)
(* processes of their own, which share click-sessions.sqlite: a session     *)
(* remembers which targets were clicked, which were only listed, and whose  *)
(* content was shown, so that an agent is not told twice.  (The candidates  *)
(* of a rope, a search or an ambiguous name come with a summary, which is   *)
(* the same text, but no session remembers it as content.)  The store keeps *)
(* MaxSessions of them; each statement is a transaction of its own.         *)
(*                                                                         *)
(* `print` stands for the ideas index: the fingerprint of each idea, or     *)
(* Gone.  Lists[t] are the neighbours of target t in the order of an answer *)
(* (outbound, backlinks, comment references, siblings), each list without   *)
(* duplicates.  Others are names that match nothing, or several targets;    *)
(* Asked is what agents ask for.                                           *)
(***************************************************************************)
EXTENDS Integers, FiniteSets, SequencesExt

CONSTANTS Callers, Keys, Ideas, FileTargets, Others, Asked, Lists, Limit, Gone, None,
          MaxSessions, MaxCalls, MaxUpsets

VARIABLES sessions,   \* the keys that are stored, the one touched last at the end
          entries,    \* the rows [key, id, role, hash] of session_entries
          print,      \* the ideas index
          call,       \* the call under way of each process
          spent,      \* how many calls have begun, and how many upsets came between
          cut,        \* a call was killed before it had evicted, and none has evicted since
          shown,      \* for each key, the content its session has shown, as last shown,
                      \* of the ideas that have not changed since
          crossed     \* the keys for which calls have overlapped

clickVars == <<sessions, entries, print, call, spent, cut, shown, crossed>>

Targets == Ideas \cup FileTargets
Prints  == {0, 1}

\* What the constants are: normalize_max_sessions makes a limit of 0 one of 1.
Parameters == /\ MaxSessions \in Nat \ {0}
              /\ Asked \subseteq Targets \cup Others

\* The hash of a file's row, and that of a row without one.
FileHash == -1
NoHash   == -2

Rows == [key : Keys, id : Targets, role : {"clicked", "listed", "content"},
         hash : Prints \cup {FileHash, NoHash}]

\* A call: its next statement, and where it goes after an eviction; what it asks for;
\* the eviction under way; what it has read, to go on with; its answer, with what it
\* records, the bodies it shows as content and the ideas it shows the summaries of; and,
\* once it has recorded, whether the session has been there ever since.
Calls == [pc : {"idle", "insert", "count", "select", "delete", "resolve", "listed", "content",
                "record", "answer"},
          then : {"resolve", "answer"},
          key : Keys \cup {None}, target : Asked \cup {None}, rope : BOOLEAN,
          excess : Nat, victims : Seq(Keys),
          hash : Prints \cup {FileHash, NoHash}, listed : SUBSET Targets,
          kind : {"none", "search", "unique", "rope", "revisit"},
          record : SUBSET Rows, bodies : SUBSET (Ideas \X Prints),
          summaries : SUBSET Ideas, lives : BOOLEAN]

NoCall == [pc |-> "idle", then |-> "resolve", key |-> None, target |-> None, rope |-> FALSE,
           excess |-> 0, victims |-> <<>>, hash |-> NoHash, listed |-> {},
           kind |-> "none", record |-> {}, bodies |-> {},
           summaries |-> {}, lives |-> FALSE]

\* Two rows with one primary key.
SameRow(e, f) == e.key = f.key /\ e.id = f.id /\ e.role = f.role

TypeOK ==
    /\ sessions \in Seq(Keys) /\ IsInjective(sessions)
    /\ entries \subseteq Rows
    /\ \A e, f \in entries : SameRow(e, f) => e = f
    /\ \A e \in entries : e.key \in ToSet(sessions)
    /\ print \in [Ideas -> Prints \cup {Gone}]
    /\ call \in [Callers -> Calls]
    /\ spent \in [calls : [Callers -> Nat], upsets : Nat] /\ cut \in BOOLEAN
    /\ shown \in [Keys -> SUBSET (Ideas \X Prints)] /\ crossed \subseteq Keys

Init ==
    /\ sessions = <<>> /\ entries = {}
    /\ print = [i \in Ideas |-> 0]
    /\ call = [c \in Callers |-> NoCall]
    /\ spent = [calls |-> [c \in Callers |-> 0], upsets |-> 0] /\ cut = FALSE
    /\ shown = [k \in Keys |-> {}] /\ crossed = {}

-----------------------------------------------------------------------------
Goes(c, pc) == call' = [call EXCEPT ![c].pc = pc]
Over(c)     == call' = [call EXCEPT ![c] = NoCall]

Hashes(k, role) == {<<e.id, e.hash>> : e \in {f \in entries : f.key = k /\ f.role = role}}
IdsOf(k, role)  == {e.id : e \in {f \in entries : f.key = k /\ f.role = role}}

Stored(k) == k \in ToSet(sessions)

Without(k) ==
    LET at == CHOOSE n \in DOMAIN sessions : sessions[n] = k
    IN  IF Stored(k) THEN RemoveAt(sessions, at) ELSE sessions

Touched(k) == Append(Without(k), k)

\* ensure_session: a stored session is touched, another key has to be inserted.  A
\* key that nobody used before stands for the one made when none is given.
EnsureSession(c, k, t, rope) ==
    /\ call[c].pc = "idle" /\ spent.calls[c] < MaxCalls[c]
    /\ spent' = [spent EXCEPT !.calls[c] = @ + 1]
    /\ call' = [call EXCEPT ![c] =
          [NoCall EXCEPT !.pc = IF Stored(k) THEN "count" ELSE "insert",
                         !.key = k, !.target = t, !.rope = rope]]
    /\ sessions' = IF Stored(k) THEN Touched(k) ELSE sessions
    /\ crossed' = IF \E d \in Callers : call[d].key = k THEN crossed \cup {k} ELSE crossed
    /\ UNCHANGED <<entries, print, cut, shown>>

\* The insertion of a key that another process has inserted meanwhile fails the call.
Insert(c) ==
    /\ call[c].pc = "insert"
    /\ IF Stored(call[c].key) THEN Over(c) /\ UNCHANGED sessions
       ELSE Goes(c, "count") /\ sessions' = Append(sessions, call[c].key)
    /\ UNCHANGED <<entries, print, spent, cut, shown, crossed>>

-----------------------------------------------------------------------------
\* Mutant of Excess: one session too many.
ExcessLess == Len(sessions) - MaxSessions - 1

\* evict_excess, one statement at a time.
Excess == Len(sessions) - MaxSessions

Count(c) ==
    /\ call[c].pc = "count"
    /\ IF Excess <= 0 THEN Goes(c, call[c].then)
       ELSE call' = [call EXCEPT ![c] = [@ EXCEPT !.pc = "select", !.excess = Excess]]
    /\ cut' = FALSE
    /\ UNCHANGED <<sessions, entries, print, spent, shown, crossed>>

\* The least recently touched ones but for the caller's own.
Select(c) ==
    /\ call[c].pc = "select"
    /\ LET others == Without(call[c].key)
           n      == IF call[c].excess < Len(others) THEN call[c].excess ELSE Len(others)
       IN call' = [call EXCEPT ![c] = [@ EXCEPT !.pc = "delete", !.excess = 0,
                                                 !.victims = SubSeq(others, 1, n)]]
    /\ UNCHANGED <<sessions, entries, print, spent, cut, shown, crossed>>

\* The eviction has deleted what it chose.
Evicted(c) ==
    /\ call[c].pc = "delete" /\ call[c].victims = <<>>
    /\ Goes(c, call[c].then)
    /\ UNCHANGED <<sessions, entries, print, spent, cut, shown, crossed>>

\* A session goes with its entries; what it has shown is forgotten.
Delete(c) ==
    /\ call[c].pc = "delete" /\ call[c].victims # <<>>
    /\ LET k == Head(call[c].victims)
       IN /\ sessions' = Without(k)
          /\ entries' = {e \in entries : e.key # k}
          /\ shown' = [shown EXCEPT ![k] = {}]
          /\ call' = [d \in Callers |->
                [call[d] EXCEPT !.victims = IF d = c THEN Tail(@) ELSE @,
                                !.lives = @ /\ call[d].key # k]]
    /\ UNCHANGED <<print, spent, cut, crossed>>

-----------------------------------------------------------------------------
Siblings == 4

Fingerprint(t) == IF t \in Ideas THEN print[t] ELSE FileHash
Present(t)     == t \in Ideas => print[t] # Gone

\* The links of an idea go with it; its siblings are those of its file.
Neighbours(t) ==
    [n \in DOMAIN Lists[t] |->
        IF Present(t) \/ n = Siblings THEN SelectSeq(Lists[t][n], Present) ELSE <<>>]

Row(k, id, role, hash) == [key |-> k, id |-> id, role |-> role, hash |-> hash]

\* What a call on one target records: the click, and the content if it is an idea.
Centre(k, t) ==
    {Row(k, t, "clicked", Fingerprint(t))}
      \cup {Row(k, i, "content", Fingerprint(i)) : i \in {t} \cap Ideas}

\* The kind of the answer, the entries to record, and the contents and summaries that it
\* shows.
Prepared(c, kind, record, bodies, summaries) ==
    call' = [call EXCEPT ![c] =
        [NoCall EXCEPT !.pc = "record", !.key = call[c].key,
                       !.kind = kind, !.record = record, !.bodies = bodies,
                       !.summaries = summaries]]

Body(i) == <<i, print[i]>>

CentreBody(t) == {Body(i) : i \in {t} \cap Ideas}

\* unique_result: each list is cut at the limit, what is left counts as listed.
UniqueResult(c, k, t) ==
    LET first(l) == SubSeq(l, 1, IF Len(l) < Limit THEN Len(l) ELSE Limit)
        ids == {i \in Targets : \E n \in DOMAIN Lists[t] : i \in ToSet(first(Neighbours(t)[n]))}
    IN Prepared(c, "unique", Centre(k, t) \cup {Row(k, i, "listed", NoHash) : i \in ids},
                CentreBody(t), {})

\* Nothing or several things match: nothing is recorded but the touch, whatever the
\* summaries of the candidates tell, which are left out here.
Search(c) ==
    /\ call[c].pc = "resolve"
    /\ call[c].target \in Others \/ ~ Present(call[c].target)
    /\ Prepared(c, "search", {}, {}, {})
    /\ UNCHANGED <<sessions, entries, print, spent, cut, shown, crossed>>

\* click: a target that was clicked with the fingerprint it has is a revisit.
Resolve(c) ==
    /\ call[c].pc = "resolve" /\ ~ call[c].rope
    /\ LET k == call[c].key  t == call[c].target
       IN /\ t \notin Others /\ Present(t)
          /\ IF <<t, Fingerprint(t)>> \in Hashes(k, "clicked")
             THEN call' = [call EXCEPT ![c] =
                             [@ EXCEPT !.pc = "listed", !.hash = Fingerprint(t)]]
             ELSE UniqueResult(c, k, t)
    /\ UNCHANGED <<sessions, entries, print, spent, cut, shown, crossed>>

\* rope: any ideas may rank; those that the session knows are left out, the others shown
\* with their summaries, which count as listed.  A file that is roped is recorded without
\* a fingerprint.
Rope(c) ==
    /\ call[c].pc = "resolve" /\ call[c].rope
    /\ LET k == call[c].key  t == call[c].target
       IN /\ t \notin Others /\ Present(t)
          /\ \E ranked \in SUBSET {i \in Ideas \ {t} : Present(i)} :
               LET ids    == ranked \ (IdsOf(k, "clicked") \cup IdsOf(k, "listed"))
                   centre == IF t \in Ideas THEN Centre(k, t) ELSE {Row(k, t, "clicked", NoHash)}
               IN Prepared(c, "rope", centre \cup {Row(k, i, "listed", NoHash) : i \in ids},
                           CentreBody(t), ids)
    /\ UNCHANGED <<sessions, entries, print, spent, cut, shown, crossed>>

\* revisit_result: two queries of the session, then the index.
Listed(c) ==
    /\ call[c].pc = "listed"
    /\ call' = [call EXCEPT ![c] =
          [@ EXCEPT !.pc = "content", !.listed = IdsOf(call[c].key, "listed")]]
    /\ UNCHANGED <<sessions, entries, print, spent, cut, shown, crossed>>

\* Of equal neighbours in a row only one is kept, which counts for the cap.
Connected(t, listed) ==
    LET ids == SelectSeq(FlattenSeq(Neighbours(t)), LAMBDA i : i \in Ideas \cap listed)
        one == FoldLeft(LAMBDA s, i : IF s # <<>> /\ Last(s) = i THEN s ELSE Append(s, i), <<>>, ids)
    IN SubSeq(one, 1, IF Len(one) < 3 * Limit THEN Len(one) ELSE 3 * Limit)

\* Mutant of Revisited: the bodies it shows are not recorded.
RevisitedOnly(c, k, new) ==
    Prepared(c, "revisit", {Row(k, call[c].target, "clicked", call[c].hash)},
             {Body(i) : i \in new}, {})

\* What a revisit does once it knows which contents are new to the session.
Revisited(c, k, new) ==
    Prepared(c, "revisit",
             {Row(k, call[c].target, "clicked", call[c].hash)}
                \cup {Row(k, i, "content", print[i]) : i \in new},
             {Body(i) : i \in new}, {})

RevisitResult(c) ==
    /\ call[c].pc = "content"
    /\ LET k == call[c].key
           connected == ToSet(Connected(call[c].target, call[c].listed))
       IN Revisited(c, k, {i \in Ideas \cap call[c].listed :
                              /\ i \in connected /\ Present(i)
                              /\ Body(i) \notin Hashes(k, "content")})
    /\ UNCHANGED <<sessions, entries, print, spent, cut, shown, crossed>>

-----------------------------------------------------------------------------
\* record_entries, one transaction: rows need their session, or the call fails.
RecordEntries(c) ==
    /\ call[c].pc = "record"
    /\ LET k == call[c].key  new == call[c].record
       IN IF ~ Stored(k) /\ new # {}
          THEN Over(c) /\ UNCHANGED <<sessions, entries>>
          ELSE /\ sessions' = IF Stored(k) THEN Touched(k) ELSE sessions
               /\ entries' = new \cup {e \in entries : ~ \E f \in new : SameRow(e, f)}
               /\ call' = [call EXCEPT ![c] =
                    [@ EXCEPT !.pc = "count", !.then = "answer", !.record = {},
                              !.lives = Stored(k)]]
    /\ UNCHANGED <<print, spent, cut, shown, crossed>>

\* The answer reaches the agent.
Answer(c) ==
    /\ call[c].pc = "answer"
    /\ LET k == call[c].key  bodies == call[c].bodies
       IN shown' = IF ~ call[c].lives THEN shown
                   ELSE [shown EXCEPT ![k] =
                           bodies \cup {s \in @ : \A b \in bodies : b[1] # s[1]}]
    /\ Over(c)
    /\ UNCHANGED <<sessions, entries, print, spent, cut, crossed>>

\* A process is killed; the statements it has executed stay.
Dies(c) ==
    /\ call[c].pc # "idle" /\ spent.upsets < MaxUpsets
    /\ spent' = [spent EXCEPT !.upsets = @ + 1]
    /\ cut' = (cut \/ call[c].pc \in {"count", "select", "delete"})
    /\ Over(c)
    /\ UNCHANGED <<sessions, entries, print, shown, crossed>>

\* The index takes up an edit, or drops or finds an idea (outside).
Reindexed(i, p) ==
    /\ print[i] # p /\ spent.upsets < MaxUpsets
    /\ spent' = [spent EXCEPT !.upsets = @ + 1]
    /\ print' = [print EXCEPT ![i] = p]
    /\ shown' = [k \in Keys |-> {s \in shown[k] : s[1] # i}]
    /\ UNCHANGED <<sessions, entries, call, cut, crossed>>

Next ==
    \/ \E c \in Callers :
         \/ \E k \in Keys, t \in Asked, rope \in BOOLEAN : EnsureSession(c, k, t, rope)
         \/ Insert(c) \/ Count(c) \/ Select(c) \/ Evicted(c) \/ Delete(c)
         \/ Search(c) \/ Resolve(c) \/ Rope(c) \/ Listed(c) \/ RevisitResult(c)
         \/ RecordEntries(c) \/ Answer(c) \/ Dies(c)
    \/ \E i \in Ideas, p \in Prints \cup {Gone} : Reindexed(i, p)

Spec == Init /\ [][Next]_clickVars

-----------------------------------------------------------------------------
\* When no call is under way, the store is within its limit, however the evictions
\* of several processes overlapped; unless one of them was killed.
WithinLimit ==
    (\A c \in Callers : call[c].pc = "idle") /\ ~ cut => Len(sessions) <= MaxSessions

\* Of what its session has shown as content and has not changed since, a revisit shows no
\* body again, nor a rope a summary, if the calls of the session came one after the other.
BodyOnce ==
    \A c \in Callers :
        call[c].pc = "answer" /\ call[c].lives /\ call[c].key \notin crossed =>
            \A s \in shown[call[c].key] :
                /\ call[c].kind = "revisit" => s \notin call[c].bodies
                /\ call[c].kind = "rope" => s[1] \notin call[c].summaries
=============================================================================
