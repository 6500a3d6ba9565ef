-------------------------- MODULE ClickSessions_proofs --------------------------
(***************************************************************************)
(* Proofs about ClickSessions, for any number of processes, sessions and   *)
(* calls: its types, its limit, and that a body is shown once.             *)
(*                                                                         *)
(* The limit rests on the calls in their eviction: while there are too     *)
(* many sessions, some call has yet to count them, or was to delete as     *)
(* many as there are too many, whatever the others have deleted since.     *)
(*                                                                         *)
(* That a body is shown once rests on what a session has recorded: what it *)
(* has shown and has not changed is among its entries, from the answer of  *)
(* one call to the reading of the next; and its idea among those that were *)
(* clicked or listed, which is what a rope leaves out.                     *)
(***************************************************************************)
EXTENDS ClickSessions, SequenceTheorems, FiniteSetTheorems, TLAPS

(***************************************************************************)
(* The list of sessions                                                    *)
(***************************************************************************)
\* A list without the one at a place.
LEMMA OneOut ==
    ASSUME NEW S, NEW s \in Seq(S), IsInjective(s), NEW n \in DOMAIN s
    PROVE  /\ RemoveAt(s, n) \in Seq(S) /\ IsInjective(RemoveAt(s, n))
           /\ ToSet(RemoveAt(s, n)) = ToSet(s) \ {s[n]}
<1>. DEFINE out == RemoveAt(s, n)
<1>1. Len(s) \in Nat /\ DOMAIN s = 1 .. Len(s) /\ n \in 1 .. Len(s)
  OBVIOUS
<1>2. /\ out \in Seq(S) /\ Len(out) = Len(s) - 1
      /\ \A i \in 1 .. Len(out) : out[i] = IF i < n THEN s[i] ELSE s[i + 1]
  <2>. DEFINE l == SubSeq(s, 1, n - 1)
              r == SubSeq(s, n + 1, Len(s))
  <2>1. l \in Seq(S) /\ Len(l) = n - 1 /\ \A i \in 1 .. n - 1 : l[i] = s[i]
    <3>1. \A i \in 1 .. n - 1 : s[i] \in S
      BY <1>1
    <3>2. \A i \in 1 .. n - 1 : 1 + i - 1 = i
      OBVIOUS
    <3>. QED BY <1>1, <3>1, <3>2, SubSeqProperties
  <2>2. r \in Seq(S) /\ Len(r) = Len(s) - n /\ \A i \in 1 .. Len(s) - n : r[i] = s[i + n]
    <3>1. \A i \in n + 1 .. Len(s) : s[i] \in S
      BY <1>1
    <3>2. /\ \A i \in 1 .. Len(s) - n : n + 1 + i - 1 = i + n
          /\ Len(s) - (n + 1) + 1 = Len(s) - n /\ n + 1 \in Int
          /\ n + 1 <= Len(s) <=> Len(s) - n # 0
      BY <1>1
    <3>. QED BY <1>1, <3>1, <3>2, SubSeqProperties, SMTT(30)
  <2>3. out = l \o r
    BY DEF RemoveAt
  <2>. HIDE DEF l, r, out
  <2>4. /\ out \in Seq(S) /\ Len(out) = Len(l) + Len(r)
        /\ \A i \in 1 .. Len(l) + Len(r) : out[i] = IF i <= Len(l) THEN l[i] ELSE r[i - Len(l)]
    BY <2>1, <2>2, <2>3, ConcatProperties
  <2>5. Len(out) = Len(s) - 1
    BY <1>1, <2>1, <2>2, <2>4
  <2>6. ASSUME NEW i \in 1 .. Len(s) - 1
        PROVE  out[i] = IF i < n THEN s[i] ELSE s[i + 1]
    <3>1. CASE i < n
      <4>1. i \in 1 .. n - 1 /\ i \in 1 .. Len(l) + Len(r) /\ i <= Len(l)
        BY <1>1, <2>1, <2>2, <3>1
      <4>. QED BY <2>1, <2>4, <3>1, <4>1
    <3>2. CASE i >= n
      <4>1. i - (n - 1) \in 1 .. Len(s) - n /\ (i - (n - 1)) + n = i + 1
        BY <1>1, <3>2
      <4>2. r[i - (n - 1)] = s[i + 1]
        BY <2>2, <4>1
      <4>3. i \in 1 .. Len(l) + Len(r) /\ ~ (i <= Len(l)) /\ ~ (i < n)
        BY <1>1, <2>1, <2>2, <3>2
      <4>. QED BY <2>1, <2>4, <4>2, <4>3
    <3>. QED BY <1>1, <3>1, <3>2
  <2>. QED BY <2>4, <2>5, <2>6
<1>3. DOMAIN out = 1 .. Len(s) - 1
  BY <1>2
<1>. HIDE DEF out
<1>4. IsInjective(out)
  <2>. DEFINE from(i) == IF i < n THEN i ELSE i + 1
  <2>1. \A i \in DOMAIN out : from(i) \in DOMAIN s /\ out[i] = s[from(i)]
    BY <1>1, <1>2, <1>3
  <2>2. \A i, j \in DOMAIN out : from(i) = from(j) => i = j
    BY <1>1, <1>3
  <2>. HIDE DEF from
  <2>. QED BY <2>1, <2>2 DEF IsInjective
<1>5. ToSet(out) \subseteq ToSet(s) \ {s[n]}
  BY <1>1, <1>2, <1>3 DEF ToSet, IsInjective
<1>6. ASSUME NEW i \in 1 .. Len(s), i # n
      PROVE  s[i] \in ToSet(out)
  <2>1. CASE i < n
    BY <1>1, <1>2, <1>3, <2>1 DEF ToSet
  <2>2. CASE i > n
    <3>1. i - 1 \in DOMAIN out /\ out[i - 1] = s[i]
      BY <1>1, <1>2, <1>3, <2>2
    <3>. QED BY <3>1 DEF ToSet
  <2>. QED BY <1>1, <1>6, <2>1, <2>2
<1>. QED BY <1>1, <1>2, <1>4, <1>5, <1>6 DEF out, ToSet

\* A list with one more at the end.
LEMMA OneMore ==
    ASSUME NEW S, NEW s \in Seq(S), IsInjective(s), NEW k \in S \ ToSet(s)
    PROVE  /\ Append(s, k) \in Seq(S) /\ IsInjective(Append(s, k))
           /\ ToSet(Append(s, k)) = ToSet(s) \cup {k}
<1>. DEFINE more == Append(s, k)
<1>1. /\ more \in Seq(S) /\ Len(more) = Len(s) + 1 /\ Len(s) \in Nat
      /\ \A i \in 1 .. Len(s) : more[i] = s[i]
      /\ more[Len(s) + 1] = k
  BY AppendProperties
<1>2. DOMAIN more = 1 .. Len(s) + 1 /\ DOMAIN s = 1 .. Len(s)
  BY <1>1
<1>. HIDE DEF more
<1>3. IsInjective(more)
  BY <1>1, <1>2 DEF IsInjective, ToSet
<1>4. ToSet(more) = ToSet(s) \cup {k}
  BY <1>1, <1>2 DEF ToSet
<1>. QED BY <1>1, <1>3, <1>4 DEF more

\* Without, of a list of different keys.
LEMMA WithoutOne ==
    ASSUME sessions \in Seq(Keys), IsInjective(sessions), NEW k
    PROVE  /\ Without(k) \in Seq(Keys) /\ IsInjective(Without(k))
           /\ ToSet(Without(k)) = ToSet(sessions) \ {k}
<1>1. CASE Stored(k)
  <2>. DEFINE at == CHOOSE n \in DOMAIN sessions : sessions[n] = k
  <2>1. at \in DOMAIN sessions /\ sessions[at] = k
    BY <1>1 DEF Stored, ToSet
  <2>. QED BY <1>1, <2>1, OneOut DEF Without
<1>2. CASE ~ Stored(k)
  BY <1>2 DEF Without, Stored
<1>. QED BY <1>1, <1>2

LEMMA TouchedLast ==
    ASSUME sessions \in Seq(Keys), IsInjective(sessions), NEW k, Stored(k)
    PROVE  /\ Touched(k) \in Seq(Keys) /\ IsInjective(Touched(k))
           /\ ToSet(Touched(k)) = ToSet(sessions)
<1>1. k \in Keys
  BY DEF Stored, ToSet
<1>2. /\ Without(k) \in Seq(Keys) /\ IsInjective(Without(k))
      /\ ToSet(Without(k)) = ToSet(sessions) \ {k}
  BY WithoutOne
<1>3. k \in Keys \ ToSet(Without(k))
  BY <1>1, <1>2
<1>4. ToSet(Without(k)) \cup {k} = ToSet(sessions)
  BY <1>2 DEF Stored
<1>. DEFINE rest == Without(k)
<1>5. rest \in Seq(Keys) /\ IsInjective(rest) /\ k \in Keys \ ToSet(rest)
  BY <1>2, <1>3
<1>. HIDE DEF rest
<1>6. /\ Append(rest, k) \in Seq(Keys) /\ IsInjective(Append(rest, k))
      /\ ToSet(Append(rest, k)) = ToSet(rest) \cup {k}
  BY <1>5, OneMore
<1>. QED BY <1>4, <1>6 DEF Touched, rest

\* As many sessions as places.
LEMMA Counted ==
    ASSUME NEW S, NEW s \in Seq(S), IsInjective(s)
    PROVE  IsFiniteSet(ToSet(s)) /\ Cardinality(ToSet(s)) = Len(s)
<1>1. Len(s) \in Nat /\ DOMAIN s = 1 .. Len(s)
  OBVIOUS
<1>2. s \in Bijection(1 .. Len(s), ToSet(s))
  BY <1>1 DEF ToSet, IsInjective, Bijection, Injection, Surjection
<1>3. IsFiniteSet(1 .. Len(s)) /\ Cardinality(1 .. Len(s)) = Len(s)
  BY <1>1, FS_Interval, SMTT(30)
<1>. QED BY <1>2, <1>3, FS_Bijection DEF ExistsBijection

(***************************************************************************)
(* Calls and rows                                                          *)
(***************************************************************************)
\* Rows for one session, each under a primary key of its own.
OfSession(k, rows) == /\ \A e \in rows : e.key = k
                      /\ \A e, f \in rows : SameRow(e, f) => e = f

\* A call under way knows its session, and what was asked for until that is resolved.
CallOK(r) ==
    /\ r.pc # "idle" => r.key \in Keys
    /\ r.pc = "resolve" => r.target \in Asked
    /\ r.pc \in {"insert", "count", "select", "delete"} /\ r.then = "resolve" => r.target \in Asked
    /\ r.pc \in {"listed", "content"} => r.target \in Targets
    /\ OfSession(r.key, r.record)

CallsOK == \A c \in Callers : CallOK(call[c])

TypeInv == TypeOK /\ CallsOK

Hashed == Prints \cup {FileHash, NoHash}

LEMMA NoCallOK == NoCall \in Calls /\ CallOK(NoCall)
<1>1. 0 \in Nat /\ <<>> \in Seq(Keys)
  OBVIOUS
<1>. QED BY <1>1 DEF NoCall, Calls, CallOK, OfSession, NoHash, FileHash, Prints

\* What a call on target t records: the click with fingerprint h, the contents of
\* `shows`, and the ids in `lists`.
Made(k, t, h, shows, lists) ==
    {Row(k, t, "clicked", h)} \cup {Row(k, i, "content", print[i]) : i \in shows}
        \cup {Row(k, i, "listed", NoHash) : i \in lists}

\* The ids of rows that were clicked or listed: what a rope leaves out.
Told(rows) == {e.id : e \in {f \in rows : f.role \in {"clicked", "listed"}}}

LEMMA MadeRows ==
    ASSUME print \in [Ideas -> Prints \cup {Gone}], NEW k \in Keys, NEW t \in Targets, NEW h \in Hashed,
           NEW shows \in SUBSET {i \in Ideas : print[i] # Gone}, NEW lists \in SUBSET Targets
    PROVE  /\ Made(k, t, h, shows, lists) \subseteq Rows
           /\ OfSession(k, Made(k, t, h, shows, lists))
           /\ \A e \in Made(k, t, h, shows, lists) :
                 e.role = "content" => e.id \in shows /\ e.hash = print[e.id]
           /\ \A i \in shows : Row(k, i, "content", print[i]) \in Made(k, t, h, shows, lists)
<1>1. \A i \in shows : i \in Targets /\ print[i] \in Hashed
  BY DEF Targets, Hashed
<1>2. NoHash \in Hashed
  BY DEF Hashed
<1>3. Rows = [key : Keys, id : Targets, role : {"clicked", "listed", "content"}, hash : Hashed]
  BY DEF Rows, Hashed
<1>4. \A e \in Made(k, t, h, shows, lists) :
          \/ e = Row(k, t, "clicked", h)
          \/ \E i \in shows : e = Row(k, i, "content", print[i])
          \/ \E i \in lists : e = Row(k, i, "listed", NoHash)
  BY DEF Made
<1>5. Made(k, t, h, shows, lists) \subseteq Rows
  BY <1>1, <1>2, <1>3, <1>4 DEF Row
<1>6. \A e \in Made(k, t, h, shows, lists) :
          /\ e.key = k
          /\ e.role = "clicked" => e = Row(k, t, "clicked", h)
          /\ e.role = "content" => e.id \in shows /\ e = Row(k, e.id, "content", print[e.id])
          /\ e.role = "listed" => e = Row(k, e.id, "listed", NoHash)
          /\ e.role \in {"clicked", "content", "listed"}
  BY <1>4 DEF Row
<1>7. OfSession(k, Made(k, t, h, shows, lists))
  BY <1>6 DEF OfSession, SameRow
<1>8. \A e \in Made(k, t, h, shows, lists) :
          e.role = "content" => e.id \in shows /\ e.hash = print[e.id]
  BY <1>6 DEF Row
<1>. QED BY <1>5, <1>7, <1>8 DEF Made

LEMMA MadeTold ==
    ASSUME NEW k, NEW t, NEW h, NEW shows, NEW lists
    PROVE  Told(Made(k, t, h, shows, lists)) = {t} \cup lists
<1>. DEFINE rows == Made(k, t, h, shows, lists)
<1>1. ASSUME NEW x \in {t} \cup lists
      PROVE  \E e \in rows : e.role \in {"clicked", "listed"} /\ e.id = x
  <2>1. Row(k, t, "clicked", h) \in rows /\ \A i \in lists : Row(k, i, "listed", NoHash) \in rows
    BY DEF Made
  <2>. HIDE DEF rows
  <2>. QED BY <2>1 DEF Row
<1>2. \A e \in rows :
          \/ e = Row(k, t, "clicked", h)
          \/ \E i \in shows : e = Row(k, i, "content", print[i])
          \/ \E i \in lists : e = Row(k, i, "listed", NoHash)
  BY DEF Made
<1>. HIDE DEF rows
<1>3. \A e \in rows : e.role \in {"clicked", "listed"} => e.id \in {t} \cup lists
  BY <1>2 DEF Row
<1>4. Told(rows) = {t} \cup lists
  BY <1>1, <1>3 DEF Told
<1>. QED BY <1>4 DEF rows

\* An answer, with the bodies of `shows` and the summaries of `sums`: what is recorded
\* holds them, as they are now, and a revisit shows nothing that the session has recorded
\* so, and a rope nothing that it was told of.
Answers(c, kind, record, shows, sums) ==
    /\ Prepared(c, kind, record, {Body(i) : i \in shows}, sums)
    /\ OfSession(call[c].key, record)
    /\ \A e \in record : e.role = "content" => e.id \in Ideas /\ e.hash = print[e.id]
    /\ \A i \in shows : Row(call[c].key, i, "content", print[i]) \in record
    /\ kind = "revisit" => \A i \in shows : Body(i) \notin Hashes(call[c].key, "content")
    /\ \A i \in shows : i \in Told(record) \/ (call[c].pc = "content" /\ i \in call[c].listed)
    /\ kind = "rope" => \A i \in sums : i \notin IdsOf(call[c].key, "clicked")
                                               \cup IdsOf(call[c].key, "listed")

Prepares(c) ==
    \E kind \in {"search", "unique", "rope", "revisit"}, record \in SUBSET Rows,
       shows \in SUBSET {i \in Ideas : print[i] # Gone}, sums \in SUBSET Ideas :
          Answers(c, kind, record, shows, sums)

LEMMA Unique ==
    ASSUME TypeInv, NEW c \in Callers, NEW t \in Targets, Present(t), call[c].key \in Keys,
           UniqueResult(c, call[c].key, t)
    PROVE  Prepares(c)
<1>. DEFINE k == call[c].key
            shows == {t} \cap Ideas
<1>1. PICK lists \in SUBSET Targets :
         Prepared(c, "unique", Centre(k, t) \cup {Row(k, i, "listed", NoHash) : i \in lists},
                  CentreBody(t), {})
  BY DEF UniqueResult
<1>2. shows \subseteq {i \in Ideas : print[i] # Gone} /\ Fingerprint(t) \in Hashed
  BY DEF Present, TypeInv, TypeOK, Fingerprint, Hashed
<1>3. /\ Centre(k, t) \cup {Row(k, i, "listed", NoHash) : i \in lists}
           = Made(k, t, Fingerprint(t), shows, lists)
      /\ CentreBody(t) = {Body(i) : i \in shows}
  BY DEF Centre, Made, Fingerprint, CentreBody
<1>. HIDE DEF shows
<1>. DEFINE record == Made(k, t, Fingerprint(t), shows, lists)
<1>4. /\ record \subseteq Rows /\ OfSession(k, record)
      /\ \A e \in record : e.role = "content" => e.id \in shows /\ e.hash = print[e.id]
      /\ \A i \in shows : Row(k, i, "content", print[i]) \in record
  BY <1>2, MadeRows, SMTT(30) DEF TypeInv, TypeOK
<1>5. Prepared(c, "unique", record, {Body(i) : i \in shows}, {})
  BY <1>1, <1>2, <1>3
<1>7. \A i \in shows : i \in Told(record)
  BY MadeTold DEF shows
<1>. HIDE DEF record
<1>6. Answers(c, "unique", record, shows, {})
  BY <1>2, <1>4, <1>5, <1>7 DEF Answers
<1>. QED BY <1>2, <1>4, <1>6 DEF Prepares

\* A roped file has no fingerprint.
LEMMA Roped ==
    ASSUME TypeInv, Parameters, NEW c \in Callers, Rope(c)
    PROVE  Prepares(c)
<1>. DEFINE k == call[c].key
            t == call[c].target
            shows == {t} \cap Ideas
            h == IF t \in Ideas THEN Fingerprint(t) ELSE NoHash
<1>1. t \in Targets /\ Present(t) /\ k \in Keys
  BY DEF Rope, Parameters, TypeInv, CallsOK, CallOK
<1>2. PICK lists \in SUBSET Ideas :
      /\ \A i \in lists : i \notin IdsOf(k, "clicked") \cup IdsOf(k, "listed")
      /\ Prepared(c, "rope", (IF t \in Ideas THEN Centre(k, t) ELSE {Row(k, t, "clicked", NoHash)})
                               \cup {Row(k, i, "listed", NoHash) : i \in lists},
                  CentreBody(t), lists)
  BY DEF Rope
<1>3. shows \subseteq {i \in Ideas : print[i] # Gone} /\ h \in Hashed /\ lists \subseteq Targets
  BY <1>1 DEF Targets, Present, TypeInv, TypeOK, Fingerprint, Hashed
<1>4. /\ (IF t \in Ideas THEN Centre(k, t) ELSE {Row(k, t, "clicked", NoHash)})
             \cup {Row(k, i, "listed", NoHash) : i \in lists}
           = Made(k, t, h, shows, lists)
      /\ CentreBody(t) = {Body(i) : i \in shows}
  BY DEF Centre, Made, Fingerprint, CentreBody
<1>8. shows \subseteq {t}
  OBVIOUS
<1>. HIDE DEF shows, h, t
<1>. DEFINE record == Made(k, t, h, shows, lists)
<1>5. /\ record \subseteq Rows /\ OfSession(k, record)
      /\ \A e \in record : e.role = "content" => e.id \in shows /\ e.hash = print[e.id]
      /\ \A i \in shows : Row(k, i, "content", print[i]) \in record
  BY <1>1, <1>3, MadeRows, SMTT(30) DEF TypeInv, TypeOK
<1>6. Prepared(c, "rope", record, {Body(i) : i \in shows}, lists)
  BY <1>1, <1>2, <1>3, <1>4
<1>9. \A i \in shows : i \in Told(record)
  BY <1>8, MadeTold
<1>. HIDE DEF record
<1>7. Answers(c, "rope", record, shows, lists)
  BY <1>2, <1>3, <1>5, <1>6, <1>9 DEF Answers
<1>. QED BY <1>3, <1>5, <1>7 DEF Prepares

LEMMA Revisit ==
    ASSUME TypeInv, NEW c \in Callers, RevisitResult(c)
    PROVE  Prepares(c)
<1>. DEFINE k == call[c].key
            t == call[c].target
            h == call[c].hash
<1>1. t \in Targets /\ k \in Keys /\ h \in Hashed
  BY DEF RevisitResult, TypeInv, TypeOK, Calls, CallsOK, CallOK, Hashed
<1>2. PICK shows \in SUBSET {i \in Ideas : print[i] # Gone} :
         /\ Revisited(c, k, shows) /\ \A i \in shows : Body(i) \notin Hashes(k, "content")
         /\ \A i \in shows : i \in call[c].listed
  BY DEF RevisitResult, Present
<1>7. call[c].pc = "content" /\ \A i \in shows : i \in call[c].listed
  BY <1>2 DEF RevisitResult
<1>3. Prepared(c, "revisit", Made(k, t, h, shows, {}), {Body(i) : i \in shows}, {})
  <2>1. {Row(k, t, "clicked", h)} \cup {Row(k, i, "content", print[i]) : i \in shows}
          = Made(k, t, h, shows, {})
    BY DEF Made
  <2>. QED BY <1>2, <2>1 DEF Revisited
<1>. HIDE DEF h, t
<1>. DEFINE record == Made(k, t, h, shows, {})
<1>4. /\ record \subseteq Rows /\ OfSession(k, record)
      /\ \A e \in record : e.role = "content" => e.id \in shows /\ e.hash = print[e.id]
      /\ \A i \in shows : Row(k, i, "content", print[i]) \in record
  BY <1>1, MadeRows, SMTT(30) DEF TypeInv, TypeOK
<1>5. Prepared(c, "revisit", record, {Body(i) : i \in shows}, {})
  BY <1>1, <1>2, <1>3
<1>. HIDE DEF record
<1>6. Answers(c, "revisit", record, shows, {})
  BY <1>2, <1>4, <1>5, <1>7 DEF Answers
<1>. QED BY <1>2, <1>4, <1>6 DEF Prepares

LEMMA NothingFound ==
    ASSUME TypeInv, NEW c \in Callers, Search(c)
    PROVE  Prepares(c)
<1>1. {Body(i) : i \in {}} = {}
  OBVIOUS
<1>2. Answers(c, "search", {}, {}, {})
  BY <1>1 DEF Search, Answers, OfSession
<1>. QED BY <1>2 DEF Prepares

(***************************************************************************)
(* Types                                                                   *)
(***************************************************************************)
SessionType == sessions \in Seq(Keys) /\ IsInjective(sessions)
EntryType   == /\ entries \subseteq Rows
               /\ \A e, f \in entries : SameRow(e, f) => e = f
               /\ \A e \in entries : e.key \in ToSet(sessions)
CallType    == call \in [Callers -> Calls] /\ CallsOK
ShownType   == shown \in [Keys -> SUBSET (Ideas \X Prints)] /\ crossed \subseteq Keys
RestType    == /\ print \in [Ideas -> Prints \cup {Gone}]
               /\ spent \in [calls : [Callers -> Nat], upsets : Nat] /\ cut \in BOOLEAN

\* The type invariant, by what changes together.
LEMMA TypeParts == TypeInv <=> SessionType /\ EntryType /\ CallType /\ ShownType /\ RestType
  BY DEF TypeInv, TypeOK, SessionType, EntryType, CallType, ShownType, RestType

LEMMA TypePartsNext ==
    TypeInv' <=> SessionType' /\ EntryType' /\ CallType' /\ ShownType' /\ RestType'
  BY DEF TypeInv, TypeOK, SessionType, EntryType, CallType, ShownType, RestType

LEMMA TypeInit ==
    ASSUME Init
    PROVE  TypeInv
<1>1. SessionType
  BY DEF Init, SessionType, IsInjective
<1>2. EntryType
  BY DEF Init, EntryType
<1>3. CallType
  BY NoCallOK DEF Init, CallType, CallsOK
<1>4. ShownType /\ RestType
  BY DEF Init, ShownType, RestType, Prints
<1>. QED BY <1>1, <1>2, <1>3, <1>4, TypeParts

\* One call goes on.
LEMMA OneGoesOn ==
    ASSUME CallType, NEW c \in Callers, NEW r \in Calls, CallOK(r), call' = [call EXCEPT ![c] = r]
    PROVE  CallType'
  BY DEF CallType, CallsOK

LEMMA Goto ==
    ASSUME CallType, NEW c \in Callers,
           NEW pc \in {"count", "resolve", "answer", "select", "delete"}, Goes(c, pc),
           call[c].pc # "idle", call[c].then = "resolve" => call[c].target \in Asked,
           pc = "resolve" => call[c].then = "resolve"
    PROVE  CallType'
<1>. DEFINE r == [call[c] EXCEPT !.pc = pc]
<1>1. call[c] \in Calls /\ CallOK(call[c])
  BY DEF CallType, CallsOK
<1>2. r \in Calls
  BY <1>1 DEF Calls
<1>3. CallOK(r)
  BY <1>1 DEF Calls, CallOK
<1>4. call' = [call EXCEPT ![c] = r]
  BY DEF Goes, CallType
<1>. HIDE DEF r
<1>. QED BY <1>2, <1>3, <1>4, OneGoesOn

LEMMA Ended ==
    ASSUME CallType, NEW c \in Callers, Over(c)
    PROVE  CallType'
  BY NoCallOK, OneGoesOn DEF Over

LEMMA PreparedType ==
    ASSUME CallType, NEW c \in Callers, call[c].pc # "idle", Prepares(c), print \in [Ideas -> Prints \cup {Gone}]
    PROVE  CallType'
<1>1. call[c] \in Calls /\ CallOK(call[c])
  BY DEF CallType, CallsOK
<1>2. PICK kind \in {"search", "unique", "rope", "revisit"}, record \in SUBSET Rows,
           shows \in SUBSET {i \in Ideas : print[i] # Gone}, sums \in SUBSET Ideas :
              Answers(c, kind, record, shows, sums)
  BY DEF Prepares
<1>. DEFINE bodies == {Body(i) : i \in shows}
            r == [NoCall EXCEPT !.pc = "record", !.key = call[c].key,
                                !.kind = kind, !.record = record, !.bodies = bodies,
                                !.summaries = sums]
<1>3. bodies \in SUBSET (Ideas \X Prints)
  BY DEF Body
<1>4. call' = [call EXCEPT ![c] = r] /\ OfSession(call[c].key, record)
  BY <1>2 DEF Answers, Prepared
<1>. HIDE DEF bodies
<1>5. call[c].key \in Keys
  BY <1>1 DEF CallOK
<1>6. r \in Calls
  BY <1>3, <1>5, NoCallOK DEF Calls
<1>7. CallOK(r)
  <2>1. r.pc = "record" /\ r.key = call[c].key /\ r.record = record
    BY NoCallOK DEF Calls
  <2>. HIDE DEF r
  <2>. QED BY <1>4, <1>5, <2>1 DEF CallOK
<1>. HIDE DEF r
<1>. QED BY <1>4, <1>6, <1>7, OneGoesOn

LEMMA TypeStep ==
    ASSUME Parameters, TypeInv, [Next]_clickVars
    PROVE  TypeInv'
<1>0. SessionType /\ EntryType /\ CallType /\ ShownType /\ RestType
  BY TypeParts
<1>. USE DEF RestType
<1>1. ASSUME NEW c \in Callers, NEW k \in Keys, NEW t \in Asked, NEW rope \in BOOLEAN,
             EnsureSession(c, k, t, rope)
      PROVE  TypeInv'
  <2>1. SessionType' /\ EntryType'
    BY <1>0, <1>1, TouchedLast DEF EnsureSession, SessionType, EntryType
  <2>. DEFINE pc == IF Stored(k) THEN "count" ELSE "insert"
              r  == [NoCall EXCEPT !.pc = pc, !.key = k, !.target = t, !.rope = rope]
  <2>. pc \in {"count", "insert"}
    OBVIOUS
  <2>. HIDE DEF pc
  <2>2. r \in Calls /\ r.key = k /\ r.target = t /\ r.record = {} /\ r.pc = pc
    <3>1. r \in Calls
      BY NoCallOK DEF Calls
    <3>2. r.key = k /\ r.target = t /\ r.record = {} /\ r.pc = pc
      BY DEF NoCall
    <3>. QED BY <3>1, <3>2
  <2>3. CallOK(r)
    BY <2>2 DEF CallOK, OfSession
  <2>. HIDE DEF r
  <2>4. CallType'
    BY <1>0, <1>1, <2>2, <2>3, OneGoesOn DEF EnsureSession, r, pc
  <2>5. ShownType' /\ RestType'
    BY <1>0, <1>1 DEF EnsureSession, ShownType
  <2>. QED BY <2>1, <2>4, <2>5, TypePartsNext
<1>2. ASSUME NEW c \in Callers, Insert(c)
      PROVE  TypeInv'
  <2>1. call[c] \in Calls /\ CallOK(call[c])
    BY <1>0 DEF CallType, CallsOK
  <2>2. CASE Stored(call[c].key)
    BY <1>0, <1>2, <2>2, Ended, TypePartsNext DEF Insert, SessionType, EntryType, ShownType
  <2>3. CASE ~ Stored(call[c].key)
    <3>1. SessionType' /\ ToSet(sessions) \subseteq ToSet(sessions')
      <4>1. call[c].key \in Keys \ ToSet(sessions) /\ sessions' = Append(sessions, call[c].key)
        BY <1>2, <2>1, <2>3 DEF Insert, CallOK, Stored
      <4>. QED BY <1>0, <4>1, OneMore DEF SessionType
    <3>2. CallType'
      BY <1>0, <1>2, <2>1, <2>3, Goto DEF Insert, CallOK
    <3>. QED BY <1>0, <1>2, <3>1, <3>2, TypePartsNext DEF Insert, EntryType, ShownType
  <2>. QED BY <2>2, <2>3
<1>3. ASSUME NEW c \in Callers, Count(c) \/ Evicted(c)
      PROVE  TypeInv'
  <2>1. call[c] \in Calls /\ CallOK(call[c])
    BY <1>0 DEF CallType, CallsOK
  <2>2. CallType'
    <3>1. CASE Goes(c, call[c].then)
      BY <1>0, <1>3, <2>1, <3>1, Goto DEF Count, Evicted, CallOK, Calls
    <3>2. CASE Count(c) /\ ~ (Excess <= 0)
      <4>. DEFINE r == [call[c] EXCEPT !.pc = "select", !.excess = Excess]
      <4>1. Excess \in Nat
        BY <1>0, <3>2 DEF Excess, Parameters, SessionType
      <4>2. r \in Calls
        BY <2>1, <4>1 DEF Calls
      <4>3. CallOK(r)
        BY <2>1, <3>2 DEF Calls, CallOK, Count
      <4>. HIDE DEF r
      <4>. QED BY <1>0, <3>2, <4>2, <4>3, OneGoesOn DEF Count, r
    <3>. QED BY <1>3, <3>1, <3>2 DEF Count, Evicted
  <2>3. SessionType' /\ EntryType' /\ ShownType' /\ RestType'
    BY <1>0, <1>3 DEF Count, Evicted, SessionType, EntryType, ShownType
  <2>. QED BY <2>2, <2>3, TypePartsNext
<1>4. ASSUME NEW c \in Callers, Select(c)
      PROVE  TypeInv'
  <2>1. call[c] \in Calls /\ CallOK(call[c])
    BY <1>0 DEF CallType, CallsOK
  <2>. DEFINE others == Without(call[c].key)
              n      == IF call[c].excess < Len(others) THEN call[c].excess ELSE Len(others)
              r      == [call[c] EXCEPT !.pc = "delete", !.excess = 0,
                                        !.victims = SubSeq(others, 1, n)]
  <2>2. others \in Seq(Keys)
    BY <1>0, WithoutOne DEF SessionType
  <2>3. SubSeq(others, 1, n) \in Seq(Keys)
    <3>1. call[c].excess \in Nat
      BY <2>1 DEF Calls
    <3>. HIDE DEF others
    <3>2. n \in 0 .. Len(others)
      BY <2>2, <3>1
    <3>. HIDE DEF n
    <3>. QED BY <2>2, <3>2
  <2>. HIDE DEF others, n
  <2>4. r \in Calls
    BY <2>1, <2>3 DEF Calls
  <2>5. CallOK(r)
    BY <1>4, <2>1 DEF Calls, CallOK, Select
  <2>6. call' = [call EXCEPT ![c] = r]
    BY <1>4 DEF Select, others, n
  <2>. HIDE DEF r
  <2>7. CallType'
    BY <1>0, <2>4, <2>5, <2>6, OneGoesOn
  <2>8. SessionType' /\ EntryType' /\ ShownType' /\ RestType'
    BY <1>0, <1>4 DEF Select, SessionType, EntryType, ShownType
  <2>. QED BY <2>7, <2>8, TypePartsNext
<1>5. ASSUME NEW c \in Callers, Delete(c)
      PROVE  TypeInv'
  <2>. DEFINE k == Head(call[c].victims)
  <2>1. call[c] \in Calls /\ \A d \in Callers : call[d] \in Calls /\ CallOK(call[d])
    BY <1>0 DEF CallType, CallsOK
  <2>2. call[c].victims \in Seq(Keys) /\ call[c].victims # <<>>
    BY <1>5, <2>1 DEF Delete, Calls
  <2>3. k \in Keys /\ Tail(call[c].victims) \in Seq(Keys)
    BY <2>2, HeadTailProperties
  <2>4. SessionType' /\ ToSet(sessions') = ToSet(sessions) \ {k}
    BY <1>0, <1>5, WithoutOne DEF Delete, SessionType
  <2>5. EntryType'
    BY <1>0, <1>5, <2>4 DEF Delete, EntryType
  <2>6. CallType'
    <3>1. ASSUME NEW d \in Callers
          PROVE  call'[d] \in Calls /\ CallOK(call'[d])
      <4>. DEFINE vs == IF d = c THEN Tail(call[d].victims) ELSE call[d].victims
                  alive == call[d].lives /\ call[d].key # k
      <4>1. call'[d] = [call[d] EXCEPT !.victims = vs, !.lives = alive]
        BY <1>5 DEF Delete
      <4>2. vs \in Seq(Keys) /\ alive \in BOOLEAN
        BY <2>1, <2>3 DEF Calls
      <4>. HIDE DEF vs, alive
      <4>3. call'[d] \in Calls
        <5>. DEFINE q == [call[d] EXCEPT !.victims = vs]
        <5>0. call[d] \in Calls
          BY <2>1
        <5>1. q \in Calls
          BY <4>2, <5>0 DEF Calls
        <5>2. call'[d] = [q EXCEPT !.lives = alive]
          BY <2>1, <4>1 DEF Calls
        <5>. HIDE DEF q
        <5>. QED BY <4>2, <5>1, <5>2 DEF Calls
      <4>4. CallOK(call'[d])
        BY <2>1, <4>1 DEF Calls, CallOK
      <4>. QED BY <4>3, <4>4
    <3>2. call' = [d \in Callers |-> call'[d]]
      BY <1>5 DEF Delete
    <3>. QED BY <3>1, <3>2 DEF CallType, CallsOK
  <2>7. ShownType' /\ RestType'
    BY <1>0, <1>5, <2>3 DEF Delete, ShownType
  <2>. QED BY <2>4, <2>5, <2>6, <2>7, TypePartsNext
<1>6. ASSUME NEW c \in Callers, Search(c) \/ Rope(c) \/ RevisitResult(c)
      PROVE  TypeInv'
  <2>1. Prepares(c) /\ call[c].pc # "idle"
    BY <1>6, NothingFound, Roped, Revisit DEF Search, Rope, RevisitResult
  <2>2. CallType'
    BY <1>0, <2>1, PreparedType
  <2>3. SessionType' /\ EntryType' /\ ShownType' /\ RestType'
    BY <1>0, <1>6 DEF Search, Rope, RevisitResult, SessionType, EntryType, ShownType
  <2>. QED BY <2>2, <2>3, TypePartsNext
<1>7. ASSUME NEW c \in Callers, Resolve(c)
      PROVE  TypeInv'
  <2>. DEFINE k == call[c].key
              t == call[c].target
  <2>1. call[c] \in Calls /\ CallOK(call[c])
    BY <1>0 DEF CallType, CallsOK
  <2>2. t \in Targets /\ Present(t) /\ k \in Keys
    BY <1>7, <2>1 DEF Resolve, CallOK, Parameters
  <2>3. ASSUME UniqueResult(c, k, t)
        PROVE  CallType'
    BY <1>0, <1>7, <2>2, <2>3, Unique, PreparedType DEF Resolve
  <2>4. ASSUME call' = [call EXCEPT ![c] = [@ EXCEPT !.pc = "listed", !.hash = Fingerprint(t)]]
        PROVE  CallType'
    <3>. DEFINE r == [call[c] EXCEPT !.pc = "listed", !.hash = Fingerprint(t)]
    <3>1. Fingerprint(t) \in Hashed
      BY <1>0, <2>2 DEF Fingerprint, Present, Hashed
    <3>2. r \in Calls
      BY <2>1, <3>1 DEF Calls, Hashed
    <3>3. CallOK(r)
      BY <2>1, <2>2 DEF Calls, CallOK
    <3>4. call' = [call EXCEPT ![c] = r]
      BY <2>4
    <3>. HIDE DEF r
    <3>. QED BY <1>0, <3>2, <3>3, <3>4, OneGoesOn
  <2>5. CallType'
    BY <1>7, <2>3, <2>4 DEF Resolve
  <2>6. SessionType' /\ EntryType' /\ ShownType' /\ RestType'
    BY <1>0, <1>7 DEF Resolve, SessionType, EntryType, ShownType
  <2>. QED BY <2>5, <2>6, TypePartsNext
<1>8. ASSUME NEW c \in Callers, Listed(c)
      PROVE  TypeInv'
  <2>. DEFINE ids == IdsOf(call[c].key, "listed")
              r   == [call[c] EXCEPT !.pc = "content", !.listed = ids]
  <2>1. call[c] \in Calls /\ CallOK(call[c])
    BY <1>0 DEF CallType, CallsOK
  <2>2. ids \in SUBSET Targets
    BY <1>0 DEF EntryType, IdsOf, Rows
  <2>3. call' = [call EXCEPT ![c] = r]
    BY <1>8 DEF Listed
  <2>. HIDE DEF ids
  <2>4. r \in Calls
    BY <2>1, <2>2 DEF Calls
  <2>5. CallOK(r)
    BY <1>8, <2>1 DEF Calls, CallOK, Listed
  <2>. HIDE DEF r
  <2>6. CallType'
    BY <1>0, <2>3, <2>4, <2>5, OneGoesOn
  <2>7. SessionType' /\ EntryType' /\ ShownType' /\ RestType'
    BY <1>0, <1>8 DEF Listed, SessionType, EntryType, ShownType
  <2>. QED BY <2>6, <2>7, TypePartsNext
<1>9. ASSUME NEW c \in Callers, RecordEntries(c)
      PROVE  TypeInv'
  <2>. DEFINE k   == call[c].key
              new == call[c].record
  <2>1. call[c] \in Calls /\ CallOK(call[c])
    BY <1>0 DEF CallType, CallsOK
  <2>2. CASE ~ Stored(k) /\ new # {}
    BY <1>0, <1>9, <2>2, Ended, TypePartsNext DEF RecordEntries, SessionType, EntryType, ShownType
  <2>3. CASE Stored(k) \/ new = {}
    <3>1. SessionType' /\ ToSet(sessions') = ToSet(sessions)
      BY <1>0, <1>9, <2>3, TouchedLast DEF RecordEntries, SessionType
    <3>2. new \subseteq Rows /\ OfSession(k, new)
      BY <2>1 DEF Calls, CallOK
    <3>3. entries' = new \cup {e \in entries : ~ \E f \in new : SameRow(e, f)}
      BY <1>9, <2>3 DEF RecordEntries
    <3>4. EntryType'
      <4>1. \A e, f \in entries' : SameRow(e, f) => e = f
        BY <1>0, <3>2, <3>3 DEF EntryType, OfSession, SameRow
      <4>2. \A e \in entries' : e.key \in ToSet(sessions')
        BY <1>0, <2>3, <3>1, <3>2, <3>3 DEF EntryType, OfSession, Stored
      <4>. QED BY <1>0, <3>2, <3>3, <4>1, <4>2 DEF EntryType
    <3>5. CallType'
      <4>. DEFINE r == [call[c] EXCEPT !.pc = "count", !.then = "answer", !.record = {},
                                       !.lives = Stored(k)]
      <4>1. Stored(k) \in BOOLEAN
        BY DEF Stored
      <4>2. r \in Calls
        BY <2>1, <4>1 DEF Calls
      <4>3. CallOK(r)
        BY <1>9, <2>1 DEF Calls, CallOK, OfSession, RecordEntries
      <4>4. call' = [call EXCEPT ![c] = r]
        BY <1>9, <2>3 DEF RecordEntries
      <4>. HIDE DEF r
      <4>. QED BY <1>0, <4>2, <4>3, <4>4, OneGoesOn
    <3>6. ShownType' /\ RestType'
      BY <1>0, <1>9 DEF RecordEntries, ShownType
    <3>. QED BY <3>1, <3>4, <3>5, <3>6, TypePartsNext
  <2>. QED BY <2>2, <2>3
<1>10. ASSUME NEW c \in Callers, Answer(c)
       PROVE  TypeInv'
  <2>1. call[c] \in Calls
    BY <1>0 DEF CallType
  <2>2. ShownType'
    BY <1>0, <1>10, <2>1 DEF Answer, ShownType, Calls
  <2>. QED BY <1>0, <1>10, <2>2, Ended, TypePartsNext DEF Answer, SessionType, EntryType
<1>11. ASSUME NEW c \in Callers, Dies(c)
       PROVE  TypeInv'
  BY <1>0, <1>11, Ended, TypePartsNext DEF Dies, SessionType, EntryType, ShownType
<1>12. ASSUME NEW i \in Ideas, NEW p \in Prints \cup {Gone}, Reindexed(i, p)
       PROVE  TypeInv'
  <2>1. ShownType' /\ RestType'
    BY <1>0, <1>12 DEF Reindexed, ShownType
  <2>. QED BY <1>0, <1>12, <2>1, TypePartsNext
           DEF Reindexed, SessionType, EntryType, CallType, CallsOK
<1>13. CASE UNCHANGED clickVars
  BY <1>0, <1>13, TypePartsNext
     DEF clickVars, SessionType, EntryType, CallType, CallsOK, ShownType
<1>. QED
  BY <1>1, <1>2, <1>3, <1>4, <1>5, <1>6, <1>7, <1>8, <1>9, <1>10, <1>11, <1>12, <1>13 DEF Next

\* Every variable keeps its type, however the calls of the processes interleave and
\* whoever is killed.
THEOREM TypeCorrect ==
    ASSUME Parameters
    PROVE  Spec => []TypeOK
<1>1. TypeInv => TypeOK
  BY DEF TypeInv
<1>. QED BY <1>1, TypeInit, TypeStep, PTL DEF Spec

(***************************************************************************)
(* The limit                                                               *)
(***************************************************************************)
\* A call will see to it that the sessions are few enough: it has yet to count them, or
\* to choose as many as were too many, or has chosen them.
Covers(c) ==
    \/ call[c].pc = "count"
    \/ call[c].pc = "select" /\ Len(sessions) - call[c].excess <= MaxSessions
    \/ /\ call[c].pc = "delete"
       /\ Cardinality(ToSet(sessions) \ ToSet(call[c].victims)) <= MaxSessions

LimitInv == cut \/ Len(sessions) <= MaxSessions \/ \E c \in Callers : Covers(c)

\* A part of the sessions is no more than they are.
LEMMA Fewer ==
    ASSUME NEW S, NEW s \in Seq(S), IsInjective(s), NEW T \in SUBSET ToSet(s)
    PROVE  IsFiniteSet(T) /\ Cardinality(T) \in Nat /\ Cardinality(T) <= Len(s)
  BY Counted, FS_Subset, FS_CardinalityType

LEMMA NotLonger ==
    ASSUME SessionType, SessionType', ToSet(sessions') \subseteq ToSet(sessions)
    PROVE  Len(sessions') <= Len(sessions) /\ Len(sessions) \in Nat /\ Len(sessions') \in Nat
  BY Counted, Fewer DEF SessionType

LEMMA StillCovers ==
    ASSUME Parameters, TypeInv, TypeInv', NEW d \in Callers, Covers(d),
           ToSet(sessions') \subseteq ToSet(sessions),
           call'[d].pc = call[d].pc, call'[d].excess = call[d].excess,
           ToSet(sessions') \ ToSet(call'[d].victims) \subseteq ToSet(sessions) \ ToSet(call[d].victims)
    PROVE  Covers(d)'
<1>1. SessionType /\ SessionType' /\ CallType
  BY TypeParts, TypePartsNext
<1>2. Len(sessions') <= Len(sessions) /\ Len(sessions) \in Nat /\ Len(sessions') \in Nat
  BY <1>1, NotLonger
<1>3. call[d].excess \in Nat
  BY <1>1 DEF CallType, Calls
<1>4. CASE call[d].pc = "count"
  BY <1>4 DEF Covers
<1>5. CASE call[d].pc = "select"
  BY <1>2, <1>3, <1>5 DEF Covers, Parameters
<1>6. CASE call[d].pc = "delete"
  <2>. DEFINE left == ToSet(sessions) \ ToSet(call[d].victims)
              rest == ToSet(sessions') \ ToSet(call'[d].victims)
  <2>1. Cardinality(left) <= MaxSessions
    BY <1>6 DEF Covers
  <2>2. IsFiniteSet(left) /\ Cardinality(left) \in Nat
    BY <1>1, Fewer DEF SessionType
  <2>3. rest \in SUBSET left
    OBVIOUS
  <2>. HIDE DEF left, rest
  <2>4. Cardinality(rest) <= Cardinality(left) /\ Cardinality(rest) \in Nat
    BY <2>2, <2>3, FS_Subset, FS_CardinalityType
  <2>5. Cardinality(rest) <= MaxSessions
    BY <2>1, <2>2, <2>4 DEF Parameters
  <2>. QED BY <1>6, <2>5 DEF Covers, rest
<1>. QED BY <1>4, <1>5, <1>6 DEF Covers

\* A call of its own leaves the covers of the others.
LEMMA OthersCover ==
    ASSUME Parameters, TypeInv, TypeInv', LimitInv, NEW c \in Callers, ~ Covers(c) \/ Covers(c)' \/ cut',
           NEW r, call' = [call EXCEPT ![c] = r], ToSet(sessions') = ToSet(sessions), cut => cut'
    PROVE  LimitInv'
<1>1. SessionType /\ SessionType'
  BY TypeParts, TypePartsNext
<1>2. Len(sessions') <= Len(sessions) /\ Len(sessions) \in Nat /\ Len(sessions') \in Nat
  BY <1>1, NotLonger
<1>3. CASE Len(sessions) <= MaxSessions
  BY <1>2, <1>3 DEF Parameters, LimitInv
<1>4. ASSUME NEW d \in Callers, Covers(d)
      PROVE  LimitInv'
  <2>1. CASE d = c
    BY <1>4, <2>1 DEF LimitInv
  <2>2. CASE d # c
    <3>1. call'[d] = call[d]
      BY <2>2 DEF TypeInv, TypeOK
    <3>. QED BY <1>4, <3>1, StillCovers DEF LimitInv
  <2>. QED BY <2>1, <2>2
<1>. QED BY <1>3, <1>4 DEF LimitInv

\* What is chosen is as much as was too much, or all but the caller's own.
LEMMA ChosenEnough ==
    ASSUME Parameters, TypeInv, NEW c \in Callers, Select(c),
           Len(sessions) - call[c].excess <= MaxSessions
    PROVE  Cardinality(ToSet(sessions) \ ToSet(call'[c].victims)) <= MaxSessions
<1>. DEFINE k      == call[c].key
            others == Without(k)
            n      == IF call[c].excess < Len(others) THEN call[c].excess ELSE Len(others)
            chosen == SubSeq(others, 1, n)
<1>1. SessionType /\ CallType
  BY TypeParts
<1>2. call[c].excess \in Nat
  BY <1>1 DEF CallType, Calls
<1>3. call'[c].victims = chosen
  BY <1>1 DEF Select, CallType, Calls
<1>4. others \in Seq(Keys) /\ IsInjective(others) /\ ToSet(others) = ToSet(sessions) \ {k}
  BY <1>1, WithoutOne DEF SessionType
<1>. HIDE DEF others
<1>5. /\ n \in 0 .. Len(others) /\ Len(others) \in Nat /\ DOMAIN others = 1 .. Len(others)
      /\ n = call[c].excess \/ n = Len(others)
  BY <1>2, <1>4
<1>6. /\ chosen \in Seq(Keys) /\ Len(chosen) = n /\ DOMAIN chosen = 1 .. n
      /\ \A i \in 1 .. n : chosen[i] = others[i]
  BY <1>4, <1>5
<1>. HIDE DEF chosen, n
<1>7. IsInjective(chosen) /\ ToSet(chosen) \subseteq ToSet(others)
  BY <1>4, <1>5, <1>6 DEF IsInjective, ToSet
<1>8. /\ IsFiniteSet(ToSet(sessions)) /\ Cardinality(ToSet(sessions)) = Len(sessions)
      /\ IsFiniteSet(ToSet(chosen)) /\ Cardinality(ToSet(chosen)) = n
  BY <1>1, <1>6, <1>7, Counted DEF SessionType
<1>9. CASE n = call[c].excess
  <2>1. ToSet(chosen) \subseteq ToSet(sessions)
    BY <1>4, <1>7
  <2>2. ToSet(sessions) \cap ToSet(chosen) = ToSet(chosen)
    BY <2>1
  <2>3. Cardinality(ToSet(sessions) \ ToSet(chosen)) = Len(sessions) - n
    <3>1. Cardinality(ToSet(sessions) \ ToSet(chosen))
            = Cardinality(ToSet(sessions)) - Cardinality(ToSet(sessions) \cap ToSet(chosen))
      BY <1>8, FS_Difference
    <3>. QED BY <1>8, <2>2, <3>1
  <2>. QED BY <1>3, <1>9, <2>3
<1>10. CASE n = Len(others)
  <2>1. ToSet(chosen) = ToSet(others)
    BY <1>5, <1>6, <1>10 DEF ToSet
  <2>2. ToSet(sessions) \ ToSet(chosen) \subseteq {k}
    BY <1>4, <2>1
  <2>3. IsFiniteSet({k}) /\ Cardinality({k}) = 1
    BY FS_Singleton
  <2>4. /\ Cardinality(ToSet(sessions) \ ToSet(chosen)) <= 1
        /\ Cardinality(ToSet(sessions) \ ToSet(chosen)) \in Nat
    BY <2>2, <2>3, FS_Subset, FS_CardinalityType
  <2>. QED BY <1>3, <2>4 DEF Parameters
<1>. QED BY <1>5, <1>9, <1>10

LEMMA LimitStep ==
    ASSUME Parameters, TypeInv, TypeInv', LimitInv, [Next]_clickVars
    PROVE  LimitInv'
<1>0. SessionType /\ SessionType' /\ CallType /\ CallType'
  BY TypeParts, TypePartsNext
<1>1. ASSUME NEW c \in Callers, NEW k \in Keys, NEW t \in Asked, NEW rope \in BOOLEAN,
             EnsureSession(c, k, t, rope)
      PROVE  LimitInv'
  <2>1. ~ Covers(c) /\ UNCHANGED cut
    BY <1>1 DEF EnsureSession, Covers
  <2>2. ToSet(sessions') = ToSet(sessions)
    BY <1>0, <1>1, TouchedLast DEF EnsureSession, SessionType
  <2>3. \E r : call' = [call EXCEPT ![c] = r]
    BY <1>1 DEF EnsureSession
  <2>. QED BY <2>1, <2>2, <2>3, OthersCover
<1>2. ASSUME NEW c \in Callers, Insert(c)
      PROVE  LimitInv'
  <2>1. CASE Stored(call[c].key)
    <3>1. call' = [call EXCEPT ![c] = NoCall] /\ ~ Covers(c) /\ UNCHANGED <<sessions, cut>>
      BY <1>2, <2>1 DEF Insert, Over, Covers
    <3>. QED BY <3>1, OthersCover
  <2>2. CASE ~ Stored(call[c].key)
    <3>1. call'[c].pc = "count"
      BY <1>0, <1>2, <2>2 DEF Insert, Goes, CallType, Calls
    <3>. QED BY <3>1 DEF LimitInv, Covers
  <2>. QED BY <2>1, <2>2
<1>3. ASSUME NEW c \in Callers, Count(c)
      PROVE  LimitInv'
  <2>1. Len(sessions) \in Nat /\ MaxSessions \in Nat /\ Len(sessions') = Len(sessions)
    BY <1>0, <1>3 DEF SessionType, Parameters, Count
  <2>2. CASE Excess <= 0
    BY <2>1, <2>2 DEF LimitInv, Excess
  <2>3. CASE ~ (Excess <= 0)
    <3>1. call[c] \in Calls /\ call'[c] = [call[c] EXCEPT !.pc = "select", !.excess = Excess]
      BY <1>0, <1>3, <2>3 DEF Count, CallType
    <3>2. call'[c].pc = "select" /\ call'[c].excess = Excess
      BY <3>1 DEF Calls
    <3>3. Len(sessions') - call'[c].excess <= MaxSessions
      BY <2>1, <3>2 DEF Excess
    <3>. QED BY <3>2, <3>3 DEF LimitInv, Covers
  <2>. QED BY <2>2, <2>3
<1>4. ASSUME NEW c \in Callers, Select(c)
      PROVE  LimitInv'
  <2>1. ~ Covers(c) \/ Covers(c)'
    <3>1. ASSUME Covers(c)
          PROVE  Covers(c)'
      <4>1. Len(sessions) - call[c].excess <= MaxSessions
        BY <1>4, <3>1 DEF Covers, Select
      <4>2. call'[c].pc = "delete" /\ UNCHANGED sessions
        BY <1>0, <1>4 DEF Select, CallType, Calls
      <4>. QED BY <1>4, <4>1, <4>2, ChosenEnough DEF Covers
    <3>. QED BY <3>1
  <2>. QED BY <1>4, <2>1, OthersCover DEF Select
<1>5. ASSUME NEW c \in Callers, Evicted(c)
      PROVE  LimitInv'
  <2>1. CASE Covers(c)
    <3>1. ToSet(sessions) \ ToSet(call[c].victims) = ToSet(sessions)
      BY <1>5 DEF Evicted, ToSet
    <3>2. Cardinality(ToSet(sessions)) <= MaxSessions
      BY <1>5, <2>1, <3>1 DEF Evicted, Covers
    <3>3. Len(sessions) <= MaxSessions
      BY <1>0, <3>2, Counted DEF SessionType
    <3>. QED BY <1>5, <3>3 DEF Evicted, LimitInv
  <2>2. CASE ~ Covers(c)
    <3>1. call' = [call EXCEPT ![c] = [call[c] EXCEPT !.pc = call[c].then]]
      BY <1>0, <1>5 DEF Evicted, Goes, CallType
    <3>. QED BY <1>5, <2>2, <3>1, OthersCover DEF Evicted
  <2>. QED BY <2>1, <2>2
<1>6. ASSUME NEW c \in Callers, Delete(c)
      PROVE  LimitInv'
  <2>. DEFINE k == Head(call[c].victims)
  <2>1. ToSet(sessions') = ToSet(sessions) \ {k}
    BY <1>0, <1>6, WithoutOne DEF Delete, SessionType
  <2>2. Len(sessions') <= Len(sessions) /\ Len(sessions) \in Nat /\ Len(sessions') \in Nat
    BY <1>0, <2>1, NotLonger
  <2>3. ToSet(call[c].victims) \subseteq ToSet(Tail(call[c].victims)) \cup {k}
    <3>. DEFINE vs == call[c].victims
    <3>1. vs \in Seq(Keys) /\ vs # <<>>
      <4>1. call[c] \in Calls
        BY <1>0 DEF CallType
      <4>. QED BY <1>6, <4>1 DEF Delete, Calls
    <3>. HIDE DEF vs
    <3>2. /\ Tail(vs) \in Seq(Keys) /\ Len(Tail(vs)) = Len(vs) - 1 /\ Head(vs) = vs[1]
          /\ \A i \in 1 .. Len(Tail(vs)) : Tail(vs)[i] = vs[i + 1]
      BY <3>1, HeadTailProperties
    <3>3. ASSUME NEW i \in 1 .. Len(vs), i # 1
          PROVE  vs[i] \in ToSet(Tail(vs))
      <4>1. i - 1 \in 1 .. Len(Tail(vs)) /\ Tail(vs)[i - 1] = vs[i]
        BY <3>1, <3>2, <3>3
      <4>2. DOMAIN Tail(vs) = 1 .. Len(Tail(vs))
        BY <3>2
      <4>. QED BY <4>1, <4>2 DEF ToSet
    <3>4. DOMAIN vs = 1 .. Len(vs)
      BY <3>1
    <3>5. ToSet(vs) \subseteq ToSet(Tail(vs)) \cup {Head(vs)}
      BY <3>2, <3>3, <3>4 DEF ToSet
    <3>. QED BY <3>5 DEF vs
  <2>4. CASE Len(sessions) <= MaxSessions
    BY <2>2, <2>4 DEF LimitInv, Parameters
  <2>5. ASSUME NEW d \in Callers, Covers(d)
        PROVE  LimitInv'
    <3>1. /\ call'[d].pc = call[d].pc /\ call'[d].excess = call[d].excess
          /\ call'[d].victims = IF d = c THEN Tail(call[d].victims) ELSE call[d].victims
      <4>1. /\ call'[d] = [call[d] EXCEPT !.victims = IF d = c THEN Tail(@) ELSE @,
                                          !.lives = @ /\ call[d].key # k]
            /\ call[d] \in Calls
        BY <1>0, <1>6 DEF Delete, CallType
      <4>. QED BY <4>1 DEF Calls
    <3>2. ToSet(sessions') \ ToSet(call'[d].victims) \subseteq ToSet(sessions) \ ToSet(call[d].victims)
      BY <2>1, <2>3, <3>1
    <3>. QED BY <2>1, <2>5, <3>1, <3>2, StillCovers DEF LimitInv
  <2>. QED BY <1>6, <2>4, <2>5 DEF LimitInv, Delete
<1>7. ASSUME NEW c \in Callers, Search(c) \/ Rope(c) \/ RevisitResult(c)
      PROVE  LimitInv'
  <2>1. ~ Covers(c) /\ UNCHANGED <<sessions, cut>>
    BY <1>7 DEF Search, Rope, RevisitResult, Covers
  <2>2. Prepares(c)
    BY <1>7, NothingFound, Roped, Revisit
  <2>. QED BY <2>1, <2>2, OthersCover DEF Prepares, Answers, Prepared
<1>8. ASSUME NEW c \in Callers, Resolve(c) \/ Listed(c)
      PROVE  LimitInv'
  <2>1. ~ Covers(c) /\ UNCHANGED <<sessions, cut>>
    BY <1>8 DEF Resolve, Listed, Covers
  <2>2. \E r : call' = [call EXCEPT ![c] = r]
    BY <1>8 DEF Resolve, Listed, UniqueResult, Prepared
  <2>. QED BY <2>1, <2>2, OthersCover
<1>9. ASSUME NEW c \in Callers, RecordEntries(c)
      PROVE  LimitInv'
  <2>1. CASE ~ Stored(call[c].key) /\ call[c].record # {}
    BY <1>9, <2>1, OthersCover DEF RecordEntries, Over, Covers
  <2>2. CASE Stored(call[c].key) \/ call[c].record = {}
    <3>. DEFINE r == [call[c] EXCEPT !.pc = "count", !.then = "answer", !.record = {},
                                     !.lives = Stored(call[c].key)]
    <3>1. call[c] \in Calls /\ call' = [call EXCEPT ![c] = r]
      BY <1>0, <1>9, <2>2 DEF RecordEntries, CallType
    <3>2. r.pc = "count"
      BY <3>1 DEF Calls
    <3>. HIDE DEF r
    <3>3. call'[c].pc = "count"
      BY <1>0, <3>1, <3>2 DEF CallType
    <3>. QED BY <3>3 DEF LimitInv, Covers
  <2>. QED BY <2>1, <2>2
<1>10. ASSUME NEW c \in Callers, Answer(c)
       PROVE  LimitInv'
  BY <1>10, OthersCover DEF Answer, Over, Covers
<1>11. ASSUME NEW c \in Callers, Dies(c)
       PROVE  LimitInv'
  BY <1>11, OthersCover DEF Dies, Over, Covers
<1>12. CASE UNCHANGED <<sessions, call, cut>>
  BY <1>12 DEF LimitInv, Covers
<1>. QED
  BY <1>1, <1>2, <1>3, <1>4, <1>5, <1>6, <1>7, <1>8, <1>9, <1>10, <1>11, <1>12
     DEF Next, Reindexed, clickVars

\* With no call under way the store is within its limit, for any number of processes
\* whose evictions overlap, unless one was killed before it had evicted.
THEOREM LimitKept ==
    ASSUME Parameters
    PROVE  Spec => []WithinLimit
<1>. DEFINE Inv == TypeInv /\ LimitInv
<1>1. Init => Inv
  <2>. SUFFICES ASSUME Init PROVE Inv
    OBVIOUS
  <2>1. Len(sessions) = 0 /\ 0 <= MaxSessions
    BY DEF Init, Parameters
  <2>. QED BY <2>1, TypeInit DEF LimitInv
<1>2. Inv /\ [Next]_clickVars => Inv'
  BY TypeStep, LimitStep
<1>3. Inv => WithinLimit
  BY DEF LimitInv, Covers, WithinLimit
<1>. QED BY <1>1, <1>2, <1>3, PTL DEF Spec

(***************************************************************************)
(* What was shown                                                          *)
(***************************************************************************)
\* No two calls of a session are under way, unless calls of it have overlapped.
OneCall ==
    \A c, d \in Callers :
        call[c].pc # "idle" /\ call[d].pc # "idle" /\ call[c].key = call[d].key
            /\ call[c].key \notin crossed => c = d

\* What a session has shown it has recorded, or it has changed.
ShownKnown ==
    \A k \in Keys \ crossed : \A s \in shown[k] : s \in Hashes(k, "content") \/ print[s[1]] # s[2]

\* What a call is to record holds what it will show, and is what was shown last, or new
\* to the session; once recorded it stays so; a revisit shows what is new.
BodyOK(r) ==
    /\ r.pc = "record" => \A b \in r.bodies : Row(r.key, b[1], "content", b[2]) \in r.record
    /\ r.pc = "record" /\ r.key \notin crossed =>
          \A e \in r.record : e.role = "content" =>
              /\ e.id \in Ideas
              /\ e.hash = print[e.id] \/ \A s \in shown[r.key] : s[1] # e.id
    /\ r.pc = "idle" => ~ r.lives /\ r.kind = "none"
    /\ r.lives /\ r.key \notin crossed => r.bodies \subseteq Hashes(r.key, "content")
    /\ r.kind = "revisit" /\ r.key \notin crossed => r.bodies \cap shown[r.key] = {}

BodyInv == OneCall /\ ShownKnown /\ \A c \in Callers : BodyOK(call[c])

LEMMA Hash ==
    \A k, role, b : b \in Hashes(k, role) <=>
        \E e \in entries : e.key = k /\ e.role = role /\ b = <<e.id, e.hash>>
  BY DEF Hashes

LEMMA HashNext ==
    \A k, role, b : b \in Hashes(k, role)' <=>
        \E e \in entries' : e.key = k /\ e.role = role /\ b = <<e.id, e.hash>>
  BY DEF Hashes

\* One call goes on, and nothing else that matters changes.
LEMMA BodyAlone ==
    ASSUME TypeInv, BodyInv, UNCHANGED <<entries, shown, print, crossed>>,
           NEW c \in Callers, NEW r, call' = [call EXCEPT ![c] = r], BodyOK(r),
           r.pc = "idle" \/ (call[c].pc # "idle" /\ r.key = call[c].key)
    PROVE  BodyInv'
<1>1. \A d \in Callers : call'[d] = IF d = c THEN r ELSE call[d]
  BY DEF TypeInv, TypeOK
<1>2. OneCall'
  BY <1>1 DEF BodyInv, OneCall
<1>3. ShownKnown'
  BY DEF BodyInv, ShownKnown, Hashes
<1>4. ASSUME NEW d \in Callers
      PROVE  BodyOK(call[d])'
  <2>1. CASE d = c
    BY <1>1, <2>1 DEF BodyOK, Hashes
  <2>2. CASE d # c
    <3>1. BodyOK(call[d]) /\ call'[d] = call[d]
      BY <1>1, <2>2 DEF BodyInv
    <3>. QED BY <3>1 DEF BodyOK, Hashes
  <2>. QED BY <2>1, <2>2
<1>. QED BY <1>2, <1>3, <1>4 DEF BodyInv

\* What a call will show stays the same.
Same(r, q) == /\ r.key = q.key /\ r.bodies = q.bodies /\ r.summaries = q.summaries
              /\ r.lives = q.lives /\ r.kind = q.kind

\* A call that goes on with what it has, or ends.
LEMMA BodyGoesOn ==
    ASSUME TypeInv, BodyInv, UNCHANGED <<entries, shown, print, crossed>>,
           NEW c \in Callers, NEW r, call' = [call EXCEPT ![c] = r],
           r.pc \notin {"record", "idle"}, call[c].pc # "idle", Same(r, call[c])
    PROVE  BodyInv'
<1>1. BodyOK(call[c])
  BY DEF BodyInv
<1>2. BodyOK(r)
  BY <1>1 DEF BodyOK, Same
<1>. QED BY <1>2, BodyAlone DEF Same

LEMMA BodyGoes ==
    ASSUME TypeInv, BodyInv, UNCHANGED <<entries, shown, print, crossed>>,
           NEW c \in Callers, NEW pc \in {"count", "resolve", "answer"}, Goes(c, pc),
           call[c].pc # "idle"
    PROVE  BodyInv'
<1>. DEFINE r == [call[c] EXCEPT !.pc = pc]
<1>1. call[c] \in Calls /\ call' = [call EXCEPT ![c] = r]
  BY DEF TypeInv, TypeOK, Goes
<1>2. r.pc = pc /\ Same(r, call[c])
  BY <1>1 DEF Calls, Same
<1>. HIDE DEF r
<1>. QED BY <1>1, <1>2, BodyGoesOn

LEMMA BodyOver ==
    ASSUME TypeInv, BodyInv, UNCHANGED <<entries, shown, print, crossed>>,
           NEW c \in Callers, Over(c)
    PROVE  BodyInv'
<1>1. BodyOK(NoCall) /\ NoCall.pc = "idle"
  BY DEF BodyOK, NoCall
<1>. QED BY <1>1, BodyAlone DEF Over

\* What an answer is made of fits what the session has recorded.
LEMMA BodyPrepared ==
    ASSUME TypeInv, BodyInv, UNCHANGED <<entries, shown, print, crossed>>,
           NEW c \in Callers, call[c].pc # "idle", Prepares(c)
    PROVE  BodyInv'
<1>1. PICK kind \in {"search", "unique", "rope", "revisit"}, record \in SUBSET Rows,
           shows \in SUBSET {i \in Ideas : print[i] # Gone}, sums \in SUBSET Ideas :
              Answers(c, kind, record, shows, sums)
  BY DEF Prepares
<1>. DEFINE bodies == {Body(i) : i \in shows}
            k == call[c].key
            r == [NoCall EXCEPT !.pc = "record", !.key = call[c].key,
                                !.kind = kind, !.record = record, !.bodies = bodies,
                                !.summaries = sums]
<1>2. call' = [call EXCEPT ![c] = r]
  BY <1>1 DEF Answers, Prepared
<1>3. /\ r.pc = "record" /\ r.key = k /\ r.kind = kind /\ r.record = record
      /\ r.bodies = bodies /\ r.lives = FALSE
  BY DEF NoCall
<1>4. k \in Keys
  BY DEF TypeInv, CallsOK, CallOK
<1>5. \A b \in bodies : Row(k, b[1], "content", b[2]) \in record
  BY <1>1 DEF Answers, Body
<1>6. \A e \in record : e.role = "content" => e.id \in Ideas /\ e.hash = print[e.id]
  BY <1>1 DEF Answers
<1>7. ASSUME kind = "revisit", k \notin crossed
      PROVE  bodies \cap shown[k] = {}
  <2>1. \A i \in shows : <<i, print[i]>> \notin Hashes(k, "content")
    BY <1>1, <1>7 DEF Answers, Body
  <2>2. \A i \in shows : <<i, print[i]>> \notin shown[k]
    BY <1>4, <1>7, <2>1 DEF BodyInv, ShownKnown
  <2>. QED BY <2>2 DEF Body
<1>. HIDE DEF bodies, k, r
<1>8. BodyOK(r)
  BY <1>3, <1>5, <1>6, <1>7 DEF BodyOK
<1>. QED BY <1>2, <1>3, <1>8, BodyAlone DEF k

\* A session records what a call of it has prepared.
LEMMA BodyRecorded ==
    ASSUME TypeInv, BodyInv, NEW c \in Callers, RecordEntries(c),
           Stored(call[c].key) \/ call[c].record = {}
    PROVE  BodyInv'
<1>0. PICK k : k = call[c].key
  OBVIOUS
<1>. DEFINE new == call[c].record
            r   == [call[c] EXCEPT !.pc = "count", !.then = "answer", !.record = {},
                                   !.lives = Stored(call[c].key)]
<1>1. call[c] \in Calls /\ CallOK(call[c]) /\ BodyOK(call[c]) /\ call[c].pc = "record"
  BY DEF TypeInv, TypeOK, CallsOK, BodyInv, RecordEntries
<1>2. call' = [call EXCEPT ![c] = r] /\ UNCHANGED <<print, shown, crossed>>
  BY DEF RecordEntries
<1>3. entries' = new \cup {e \in entries : ~ \E f \in new : SameRow(e, f)}
  BY <1>0 DEF RecordEntries
<1>4. OfSession(k, new) /\ k \in Keys
  BY <1>0, <1>1 DEF CallOK
<1>5. /\ r.pc = "count" /\ r.key = k /\ r.bodies = call[c].bodies /\ r.kind = call[c].kind
      /\ call[c].bodies \subseteq Ideas \X Prints
  BY <1>0, <1>1 DEF Calls
<1>. HIDE DEF r
<1>6. \A d \in Callers : call'[d] = IF d = c THEN r ELSE call[d]
  BY <1>2 DEF TypeInv, TypeOK
<1>7. OneCall'
  BY <1>0, <1>1, <1>2, <1>5, <1>6 DEF BodyInv, OneCall
<1>8. \A e : e.key # k => (e \in entries' <=> e \in entries)
  BY <1>3, <1>4 DEF OfSession, SameRow
<1>9. ASSUME NEW b \in call[c].bodies
      PROVE  \E e \in entries' : e.key = k /\ e.role = "content" /\ b = <<e.id, e.hash>>
  <2>1. Row(k, b[1], "content", b[2]) \in entries'
    BY <1>0, <1>1, <1>3, <1>9 DEF BodyOK
  <2>2. b = <<b[1], b[2]>>
    BY <1>5, <1>9
  <2>. QED BY <2>1, <2>2 DEF Row
<1>10. ASSUME k \notin crossed, NEW s \in shown[k], s \in Hashes(k, "content"), print[s[1]] = s[2]
       PROVE  s \in Hashes(k, "content")'
  <2>1. PICK e \in entries : e.key = k /\ e.role = "content" /\ s = <<e.id, e.hash>>
    BY <1>10, Hash
  <2>2. CASE \E f \in new : SameRow(e, f)
    <3>1. PICK f \in new : SameRow(e, f)
      BY <2>2
    <3>2. f.key = k /\ f.role = "content" /\ f.id = s[1]
      BY <2>1, <3>1 DEF SameRow
    <3>3. f.hash = print[f.id]
      BY <1>0, <1>1, <1>10, <3>1, <3>2 DEF BodyOK
    <3>4. f \in entries' /\ s = <<f.id, f.hash>>
      BY <1>3, <1>10, <2>1, <3>1, <3>2, <3>3
    <3>. QED BY <3>2, <3>4, HashNext
  <2>3. CASE ~ \E f \in new : SameRow(e, f)
    BY <1>3, <2>1, <2>3, HashNext
  <2>. QED BY <2>2, <2>3
<1>11. ShownKnown'
  <2>. SUFFICES ASSUME NEW j \in Keys \ crossed, NEW s \in shown[j]
                PROVE  s \in Hashes(j, "content")' \/ print[s[1]] # s[2]
    BY <1>2 DEF ShownKnown
  <2>1. s \in Hashes(j, "content") \/ print[s[1]] # s[2]
    BY DEF BodyInv, ShownKnown
  <2>2. CASE j = k
    BY <1>10, <2>1, <2>2
  <2>3. CASE j # k
    BY <1>8, <2>1, <2>3, Hash, HashNext
  <2>. QED BY <2>2, <2>3
<1>12. ASSUME NEW d \in Callers
       PROVE  BodyOK(call[d])'
  <2>1. CASE d = c
    <3>1. call'[d] = r /\ BodyOK(call[c])
      BY <1>1, <1>6, <2>1
    <3>. QED BY <1>0, <1>2, <1>5, <1>9, <3>1 DEF BodyOK, Hashes
  <2>2. CASE d # c
    <3>1. call'[d] = call[d] /\ BodyOK(call[d])
      BY <1>6, <2>2 DEF BodyInv
    <3>2. call[d].lives /\ call[d].key \notin crossed => call[d].key # k
      BY <1>0, <1>1, <2>2, <3>1 DEF BodyInv, OneCall, BodyOK
    <3>. QED BY <1>2, <1>8, <3>1, <3>2 DEF BodyOK, Hashes
  <2>. QED BY <2>1, <2>2
<1>. QED BY <1>7, <1>11, <1>12 DEF BodyInv

\* A session that is deleted has shown nothing, and no call shows anything for it.
LEMMA BodyDeleted ==
    ASSUME TypeInv, BodyInv, NEW c \in Callers, Delete(c)
    PROVE  BodyInv'
<1>1. PICK k : k = Head(call[c].victims)
  OBVIOUS
<1>2. /\ entries' = {e \in entries : e.key # k}
      /\ shown' = [shown EXCEPT ![k] = {}]
      /\ UNCHANGED <<print, crossed>>
  BY <1>1 DEF Delete
<1>3. ASSUME NEW d \in Callers
      PROVE  /\ call'[d].pc = call[d].pc /\ call'[d].key = call[d].key
             /\ call'[d].record = call[d].record /\ call'[d].bodies = call[d].bodies
             /\ call'[d].kind = call[d].kind
             /\ call'[d].lives => call[d].lives /\ call[d].key # k
  <2>1. /\ call'[d] = [call[d] EXCEPT !.victims = IF d = c THEN Tail(@) ELSE @,
                                      !.lives = @ /\ call[d].key # k]
        /\ call[d] \in Calls
    BY <1>1 DEF Delete, TypeInv, TypeOK
  <2>. QED BY <2>1 DEF Calls
<1>4. \A j \in Keys : shown'[j] \subseteq shown[j] /\ (j = k => shown'[j] = {})
  BY <1>2 DEF TypeInv, TypeOK
<1>5. OneCall'
  BY <1>2, <1>3 DEF BodyInv, OneCall
<1>6. ShownKnown'
  <2>. SUFFICES ASSUME NEW j \in Keys \ crossed, NEW s \in shown'[j], print[s[1]] = s[2]
                PROVE  s \in Hashes(j, "content")'
    BY <1>2 DEF ShownKnown
  <2>1. j # k /\ s \in Hashes(j, "content")
    BY <1>4 DEF BodyInv, ShownKnown
  <2>. QED BY <1>2, <2>1, Hash, HashNext
<1>7. ASSUME NEW d \in Callers
      PROVE  BodyOK(call[d])'
  <2>1. BodyOK(call[d])
    BY DEF BodyInv
  <2>2. call[d].pc # "idle" => call[d].key \in Keys
    BY DEF TypeInv, CallsOK, CallOK
  <2>3. CASE call[d].pc = "idle"
    BY <1>2, <1>3, <2>1, <2>3 DEF BodyOK
  <2>4. CASE call[d].pc # "idle"
    <3>1. shown'[call[d].key] \subseteq shown[call[d].key]
      BY <1>4, <2>2, <2>4
    <3>2. call'[d].lives /\ call[d].key \notin crossed =>
              call[d].bodies \subseteq Hashes(call[d].key, "content")'
      BY <1>2, <1>3, <2>1 DEF BodyOK, Hashes
    <3>. QED BY <1>2, <1>3, <2>1, <2>4, <3>1, <3>2 DEF BodyOK
  <2>. QED BY <2>3, <2>4
<1>. QED BY <1>5, <1>6, <1>7 DEF BodyInv

\* A call of a session begins.
LEMMA BodyBegun ==
    ASSUME TypeInv, BodyInv, NEW c \in Callers, NEW k \in Keys, NEW t \in Asked, NEW rope \in BOOLEAN,
           EnsureSession(c, k, t, rope)
    PROVE  BodyInv'
<1>. DEFINE r == [NoCall EXCEPT !.pc = IF Stored(k) THEN "count" ELSE "insert",
                                !.key = k, !.target = t, !.rope = rope]
<1>1. call' = [call EXCEPT ![c] = r] /\ UNCHANGED <<entries, print, shown>>
  BY DEF EnsureSession
<1>2. /\ r.pc \in {"count", "insert"} /\ r.key = k /\ ~ r.lives /\ r.kind = "none"
  BY DEF NoCall
<1>. HIDE DEF r
<1>3. \A d \in Callers : call'[d] = IF d = c THEN r ELSE call[d]
  BY <1>1 DEF TypeInv, TypeOK
<1>4. /\ crossed \subseteq crossed'
      /\ \A d \in Callers : call[d].key = k => k \in crossed'
  BY DEF EnsureSession
<1>5. OneCall'
  BY <1>2, <1>3, <1>4 DEF BodyInv, OneCall
<1>6. ShownKnown'
  BY <1>1, <1>4 DEF BodyInv, ShownKnown, Hashes
<1>7. ASSUME NEW d \in Callers
      PROVE  BodyOK(call[d])'
  <2>1. CASE d = c
    BY <1>2, <1>3, <2>1 DEF BodyOK
  <2>2. CASE d # c
    <3>1. BodyOK(call[d]) /\ call'[d] = call[d]
      BY <1>3, <2>2 DEF BodyInv
    <3>. QED BY <1>1, <1>4, <3>1 DEF BodyOK, Hashes
  <2>. QED BY <2>1, <2>2
<1>. QED BY <1>5, <1>6, <1>7 DEF BodyInv

\* An answer has shown its bodies, which its session has recorded.
LEMMA BodyAnswered ==
    ASSUME TypeInv, BodyInv, NEW c \in Callers, Answer(c)
    PROVE  BodyInv'
<1>1. CASE ~ call[c].lives
  BY <1>1, BodyOver DEF Answer
<1>2. CASE call[c].lives
  <2>1. PICK k : k = call[c].key
    OBVIOUS
  <2>. DEFINE bodies == call[c].bodies
  <2>2. /\ call[c].pc = "answer" /\ UNCHANGED <<entries, print, crossed>>
        /\ shown' = [shown EXCEPT ![k] = bodies \cup {s \in @ : \A b \in bodies : b[1] # s[1]}]
    BY <1>2, <2>1 DEF Answer
  <2>3. \A d \in Callers : call'[d] = IF d = c THEN NoCall ELSE call[d]
    BY DEF Answer, Over, TypeInv, TypeOK
  <2>4. k \in Keys
    BY <2>1, <2>2 DEF TypeInv, CallsOK, CallOK
  <2>5. \A j \in Keys :
           shown'[j] = IF j = k THEN bodies \cup {s \in shown[j] : \A b \in bodies : b[1] # s[1]}
                       ELSE shown[j]
    BY <2>2, <2>4 DEF TypeInv, TypeOK
  <2>6. k \notin crossed => bodies \subseteq Hashes(k, "content")
    BY <1>2, <2>1 DEF BodyInv, BodyOK
  <2>7. NoCall.pc = "idle" /\ ~ NoCall.lives /\ NoCall.kind = "none"
    BY DEF NoCall
  <2>8. OneCall'
    BY <2>2, <2>3, <2>7 DEF BodyInv, OneCall
  <2>9. ShownKnown'
    <3>. SUFFICES ASSUME NEW j \in Keys \ crossed, NEW s \in shown'[j]
                  PROVE  s \in Hashes(j, "content")' \/ print[s[1]] # s[2]
      BY <2>2 DEF ShownKnown
    <3>1. s \in Hashes(j, "content") \/ print[s[1]] # s[2]
      BY <2>5, <2>6 DEF BodyInv, ShownKnown
    <3>. QED BY <2>2, <3>1 DEF Hashes
  <2>10. ASSUME NEW d \in Callers
         PROVE  BodyOK(call[d])'
    <3>1. CASE d = c
      BY <2>3, <2>7, <3>1 DEF BodyOK
    <3>2. CASE d # c /\ call[d].pc = "idle"
      BY <2>2, <2>3, <3>2 DEF BodyInv, BodyOK
    <3>3. CASE d # c /\ call[d].pc # "idle"
      <4>1. call'[d] = call[d] /\ BodyOK(call[d]) /\ call[d].key \in Keys
        BY <2>3, <3>3 DEF BodyInv, TypeInv, CallsOK, CallOK
      <4>2. call[d].key \notin crossed => call[d].key # k
        BY <2>1, <2>2, <3>3 DEF BodyInv, OneCall
      <4>3. call[d].key \notin crossed => shown'[call[d].key] = shown[call[d].key]
        BY <2>5, <4>1, <4>2
      <4>. QED BY <2>2, <4>1, <4>3 DEF BodyOK, Hashes
    <3>. QED BY <3>1, <3>2, <3>3
  <2>. QED BY <2>8, <2>9, <2>10 DEF BodyInv
<1>. QED BY <1>1, <1>2

\* An idea that changes counts as not shown.
LEMMA BodyChanged ==
    ASSUME TypeInv, BodyInv, NEW i \in Ideas, NEW p \in Prints \cup {Gone}, Reindexed(i, p)
    PROVE  BodyInv'
<1>1. UNCHANGED <<entries, call, crossed>>
  BY DEF Reindexed
<1>2. \A j \in Ideas : j # i => print'[j] = print[j]
  BY DEF Reindexed, TypeInv, TypeOK
<1>3. \A k \in Keys : shown'[k] = {s \in shown[k] : s[1] # i} /\ shown[k] \subseteq Ideas \X Prints
  BY DEF Reindexed, TypeInv, TypeOK
<1>4. OneCall'
  BY <1>1 DEF BodyInv, OneCall
<1>5. ShownKnown'
  <2>. SUFFICES ASSUME NEW k \in Keys \ crossed, NEW s \in shown'[k]
                PROVE  s \in Hashes(k, "content")' \/ print'[s[1]] # s[2]
    BY <1>1 DEF ShownKnown
  <2>1. s \in shown[k] /\ s[1] # i /\ s[1] \in Ideas
    BY <1>3
  <2>2. s \in Hashes(k, "content") \/ print[s[1]] # s[2]
    BY <2>1 DEF BodyInv, ShownKnown
  <2>. QED BY <1>1, <1>2, <2>1, <2>2 DEF Hashes
<1>6. ASSUME NEW c \in Callers
      PROVE  BodyOK(call[c])'
  <2>1. BodyOK(call[c]) /\ call'[c] = call[c]
    BY <1>1 DEF BodyInv
  <2>2. CASE call[c].pc = "idle"
    BY <1>1, <2>1, <2>2 DEF BodyOK
  <2>3. CASE call[c].pc # "idle"
    <3>1. call[c].key \in Keys
      BY <2>3 DEF TypeInv, CallsOK, CallOK
    <3>2. ASSUME call[c].pc = "record", call[c].key \notin crossed,
                 NEW e \in call[c].record, e.role = "content"
          PROVE  /\ e.id \in Ideas
                 /\ e.hash = print'[e.id] \/ \A s \in shown'[call[c].key] : s[1] # e.id
      BY <1>2, <1>3, <2>1, <3>1, <3>2 DEF BodyOK
    <3>. QED BY <1>1, <1>3, <2>1, <2>3, <3>1, <3>2 DEF BodyOK, Hashes
  <2>. QED BY <2>2, <2>3
<1>. QED BY <1>4, <1>5, <1>6 DEF BodyInv

LEMMA BodyStep ==
    ASSUME Parameters, TypeInv, BodyInv, [Next]_clickVars
    PROVE  BodyInv'
<1>0. \A c \in Callers : call[c] \in Calls
  BY DEF TypeInv, TypeOK
<1>1. ASSUME NEW c \in Callers, NEW k \in Keys, NEW t \in Asked, NEW rope \in BOOLEAN,
             EnsureSession(c, k, t, rope)
      PROVE  BodyInv'
  BY <1>1, BodyBegun
<1>2. ASSUME NEW c \in Callers, Insert(c)
      PROVE  BodyInv'
  <2>1. CASE Stored(call[c].key)
    BY <1>2, <2>1, BodyOver DEF Insert
  <2>2. CASE ~ Stored(call[c].key)
    <3>1. /\ Goes(c, "count") /\ call[c].pc # "idle"
          /\ UNCHANGED <<entries, shown, print, crossed>>
      BY <1>2, <2>2 DEF Insert
    <3>. QED BY <3>1, BodyGoes
  <2>. QED BY <2>1, <2>2
<1>3. ASSUME NEW c \in Callers, Count(c)
      PROVE  BodyInv'
  <2>1. call[c].pc # "idle" /\ UNCHANGED <<entries, shown, print, crossed>>
    BY <1>3 DEF Count
  <2>2. CASE Excess <= 0
    <3>1. Goes(c, call[c].then) /\ call[c].then \in {"resolve", "answer"}
      BY <1>0, <1>3, <2>2 DEF Count, Calls
    <3>. QED BY <2>1, <3>1, BodyGoes
  <2>3. CASE ~ (Excess <= 0)
    <3>. DEFINE r == [call[c] EXCEPT !.pc = "select", !.excess = Excess]
    <3>1. call' = [call EXCEPT ![c] = r]
      BY <1>0, <1>3, <2>3 DEF Count
    <3>2. r.pc = "select" /\ Same(r, call[c])
      BY <1>0 DEF Calls, Same
    <3>. HIDE DEF r
    <3>. QED BY <2>1, <3>1, <3>2, BodyGoesOn
  <2>. QED BY <2>2, <2>3
<1>4. ASSUME NEW c \in Callers, Select(c)
      PROVE  BodyInv'
  <2>1. call[c].pc # "idle" /\ UNCHANGED <<entries, shown, print, crossed>>
    BY <1>4 DEF Select
  <2>2. PICK v : call' = [call EXCEPT ![c] =
                   [call[c] EXCEPT !.pc = "delete", !.excess = 0, !.victims = v]]
    BY <1>0, <1>4 DEF Select
  <2>. DEFINE r == [call[c] EXCEPT !.pc = "delete", !.excess = 0, !.victims = v]
  <2>3. r.pc = "delete" /\ Same(r, call[c])
    BY <1>0 DEF Calls, Same
  <2>4. call' = [call EXCEPT ![c] = r]
    BY <2>2
  <2>. HIDE DEF r
  <2>. QED BY <2>1, <2>3, <2>4, BodyGoesOn
<1>5. ASSUME NEW c \in Callers, Evicted(c)
      PROVE  BodyInv'
  <2>1. /\ Goes(c, call[c].then) /\ call[c].then \in {"resolve", "answer"} /\ call[c].pc # "idle"
        /\ UNCHANGED <<entries, shown, print, crossed>>
    BY <1>0, <1>5 DEF Evicted, Calls
  <2>. QED BY <2>1, BodyGoes
<1>6. ASSUME NEW c \in Callers, Delete(c)
      PROVE  BodyInv'
  BY <1>6, BodyDeleted
<1>7. ASSUME NEW c \in Callers, Search(c) \/ Rope(c) \/ RevisitResult(c)
      PROVE  BodyInv'
  <2>1. call[c].pc # "idle" /\ UNCHANGED <<entries, shown, print, crossed>>
    BY <1>7 DEF Search, Rope, RevisitResult
  <2>2. Prepares(c)
    BY <1>7, NothingFound, Roped, Revisit
  <2>. QED BY <2>1, <2>2, BodyPrepared
<1>8. ASSUME NEW c \in Callers, Resolve(c)
      PROVE  BodyInv'
  <2>. DEFINE t == call[c].target
  <2>1. call[c].pc # "idle" /\ UNCHANGED <<entries, shown, print, crossed>>
    BY <1>8 DEF Resolve
  <2>2. t \in Targets /\ Present(t) /\ call[c].key \in Keys
    BY <1>8 DEF Resolve, Parameters, TypeInv, CallsOK, CallOK
  <2>3. CASE <<t, Fingerprint(t)>> \in Hashes(call[c].key, "clicked")
    <3>. DEFINE r == [call[c] EXCEPT !.pc = "listed", !.hash = Fingerprint(t)]
    <3>1. call' = [call EXCEPT ![c] = r]
      BY <1>0, <1>8, <2>3 DEF Resolve
    <3>2. r.pc = "listed" /\ Same(r, call[c])
      BY <1>0 DEF Calls, Same
    <3>. HIDE DEF r
    <3>. QED BY <2>1, <3>1, <3>2, BodyGoesOn
  <2>4. CASE <<t, Fingerprint(t)>> \notin Hashes(call[c].key, "clicked")
    <3>1. UniqueResult(c, call[c].key, t)
      BY <1>8, <2>4 DEF Resolve
    <3>. HIDE DEF t
    <3>2. Prepares(c)
      BY <2>2, <3>1, Unique
    <3>. QED BY <2>1, <3>2, BodyPrepared
  <2>. QED BY <2>3, <2>4
<1>9. ASSUME NEW c \in Callers, Listed(c)
      PROVE  BodyInv'
  <2>. DEFINE r == [call[c] EXCEPT !.pc = "content", !.listed = IdsOf(call[c].key, "listed")]
  <2>1. /\ call' = [call EXCEPT ![c] = r] /\ call[c].pc # "idle"
        /\ UNCHANGED <<entries, shown, print, crossed>>
    BY <1>0, <1>9 DEF Listed
  <2>2. r.pc = "content" /\ Same(r, call[c])
    BY <1>0 DEF Calls, Same
  <2>. HIDE DEF r
  <2>. QED BY <2>1, <2>2, BodyGoesOn
<1>10. ASSUME NEW c \in Callers, RecordEntries(c)
       PROVE  BodyInv'
  <2>1. CASE Stored(call[c].key) \/ call[c].record = {}
    BY <1>10, <2>1, BodyRecorded
  <2>2. CASE ~ Stored(call[c].key) /\ call[c].record # {}
    <3>1. Over(c) /\ UNCHANGED <<entries, shown, print, crossed>>
      BY <1>10, <2>2 DEF RecordEntries
    <3>. QED BY <3>1, BodyOver
  <2>. QED BY <2>1, <2>2
<1>11. ASSUME NEW c \in Callers, Answer(c)
       PROVE  BodyInv'
  BY <1>11, BodyAnswered
<1>12. ASSUME NEW c \in Callers, Dies(c)
       PROVE  BodyInv'
  BY <1>12, BodyOver DEF Dies
<1>13. ASSUME NEW i \in Ideas, NEW p \in Prints \cup {Gone}, Reindexed(i, p)
       PROVE  BodyInv'
  BY <1>13, BodyChanged
<1>14. CASE UNCHANGED clickVars
  BY <1>14 DEF clickVars, BodyInv, OneCall, ShownKnown, BodyOK, Hashes
<1>. QED
  BY <1>1, <1>2, <1>3, <1>4, <1>5, <1>6, <1>7, <1>8, <1>9, <1>10, <1>11, <1>12, <1>13, <1>14
     DEF Next

(***************************************************************************)
(* What a session knows of                                                 *)
(***************************************************************************)
Known(rows, k) == Told({e \in rows : e.key = k})

\* A call reads what its session knows, records what it shows, and after that the session
\* knows it; a rope's summaries tell of nothing that was shown.
KnownOK(r) ==
    /\ r.pc = "content" /\ Stored(r.key) /\ r.key \notin crossed =>
          \A i \in r.listed : i \in Known(entries, r.key)
    /\ r.pc = "record" /\ Stored(r.key) /\ r.key \notin crossed =>
          \A b \in r.bodies : b[1] \in Told(r.record) \cup Known(entries, r.key)
    /\ r.lives /\ r.key \notin crossed => \A b \in r.bodies : b[1] \in Known(entries, r.key)
    /\ r.kind = "rope" /\ r.key \notin crossed => \A s \in shown[r.key] : s[1] \notin r.summaries

\* Of what it has shown a session knows the ideas.
ShownTold == \A k \in Keys \ crossed : \A s \in shown[k] : s[1] \in Known(entries, k)

KnownInv == ShownTold /\ \A c \in Callers : KnownOK(call[c])

LEMMA KnownIs ==
    \A rows, k, x : x \in Known(rows, k) <=>
        \E e \in rows : e.key = k /\ e.role \in {"clicked", "listed"} /\ e.id = x
  BY DEF Known, Told

LEMMA KnownRoles ==
    \A k : IdsOf(k, "clicked") \cup IdsOf(k, "listed") = Known(entries, k)
  BY DEF IdsOf, Known, Told

\* One call goes on, and no session goes.
LEMMA KnownAlone ==
    ASSUME TypeInv, BodyInv, KnownInv, UNCHANGED <<entries, shown, crossed>>,
           NEW c \in Callers, NEW r, call' = [call EXCEPT ![c] = r], KnownOK(r),
           call[c].pc # "idle",
           \/ ToSet(sessions') = ToSet(sessions)
           \/ /\ ToSet(sessions') = ToSet(sessions) \cup {call[c].key}
              /\ r.pc \notin {"content", "record"}
    PROVE  KnownInv'
<1>1. \A d \in Callers : call'[d] = IF d = c THEN r ELSE call[d]
  BY DEF TypeInv, TypeOK
<1>2. ShownTold'
  BY DEF KnownInv, ShownTold, Known
<1>3. ASSUME NEW d \in Callers
      PROVE  KnownOK(call[d])'
  <2>1. CASE d = c
    BY <1>1, <2>1 DEF KnownOK, Known, Stored
  <2>2. CASE d # c
    <3>1. KnownOK(call[d]) /\ call'[d] = call[d]
      BY <1>1, <2>2 DEF KnownInv
    <3>2. call[d].pc # "idle" /\ call[d].key \notin crossed => call[d].key # call[c].key
      BY <2>2 DEF BodyInv, OneCall
    <3>. QED BY <3>1, <3>2 DEF KnownOK, Known, Stored
  <2>. QED BY <2>1, <2>2
<1>. QED BY <1>2, <1>3 DEF KnownInv

LEMMA KnownGoesOn ==
    ASSUME TypeInv, BodyInv, KnownInv, UNCHANGED <<entries, shown, crossed>>,
           NEW c \in Callers, NEW r, call' = [call EXCEPT ![c] = r],
           r.pc \notin {"content", "record"}, call[c].pc # "idle", Same(r, call[c]),
           ToSet(sessions') = ToSet(sessions) \/ ToSet(sessions') = ToSet(sessions) \cup {call[c].key}
    PROVE  KnownInv'
<1>1. KnownOK(call[c])
  BY DEF KnownInv
<1>2. KnownOK(r)
  BY <1>1 DEF KnownOK, Same
<1>. QED BY <1>2, KnownAlone

LEMMA KnownGoes ==
    ASSUME TypeInv, BodyInv, KnownInv, UNCHANGED <<entries, shown, crossed>>,
           NEW c \in Callers, NEW pc \in {"count", "resolve", "answer"}, Goes(c, pc),
           call[c].pc # "idle",
           ToSet(sessions') = ToSet(sessions) \/ ToSet(sessions') = ToSet(sessions) \cup {call[c].key}
    PROVE  KnownInv'
<1>. DEFINE r == [call[c] EXCEPT !.pc = pc]
<1>1. call[c] \in Calls /\ call' = [call EXCEPT ![c] = r]
  BY DEF TypeInv, TypeOK, Goes
<1>2. r.pc = pc /\ Same(r, call[c])
  BY <1>1 DEF Calls, Same
<1>. HIDE DEF r
<1>. QED BY <1>1, <1>2, KnownGoesOn

LEMMA KnownOver ==
    ASSUME TypeInv, BodyInv, KnownInv, UNCHANGED <<entries, shown, crossed, sessions>>,
           NEW c \in Callers, Over(c), call[c].pc # "idle"
    PROVE  KnownInv'
<1>1. KnownOK(NoCall)
  BY DEF KnownOK, NoCall
<1>. QED BY <1>1, KnownAlone DEF Over

\* What an answer shows is known of, or will be.
LEMMA KnownPrepared ==
    ASSUME TypeInv, BodyInv, KnownInv, UNCHANGED <<entries, shown, crossed, sessions>>,
           NEW c \in Callers, call[c].pc # "idle", Prepares(c)
    PROVE  KnownInv'
<1>1. PICK kind \in {"search", "unique", "rope", "revisit"}, record \in SUBSET Rows,
           shows \in SUBSET {i \in Ideas : print[i] # Gone}, sums \in SUBSET Ideas :
              Answers(c, kind, record, shows, sums)
  BY DEF Prepares
<1>. DEFINE bodies == {Body(i) : i \in shows}
            k == call[c].key
            r == [NoCall EXCEPT !.pc = "record", !.key = call[c].key,
                                !.kind = kind, !.record = record, !.bodies = bodies,
                                !.summaries = sums]
<1>2. call' = [call EXCEPT ![c] = r]
  BY <1>1 DEF Answers, Prepared
<1>3. /\ r.pc = "record" /\ r.key = k /\ r.kind = kind /\ r.record = record
      /\ r.bodies = bodies /\ r.lives = FALSE /\ r.summaries = sums
  BY DEF NoCall
<1>4. k \in Keys
  BY DEF TypeInv, CallsOK, CallOK
<1>5. ASSUME Stored(k), k \notin crossed, NEW b \in bodies
      PROVE  b[1] \in Told(record) \cup Known(entries, k)
  <2>1. PICK i \in shows : b = Body(i)
    BY <1>5
  <2>2. b[1] = i
    BY <2>1 DEF Body
  <2>3. i \in Told(record) \/ (call[c].pc = "content" /\ i \in call[c].listed)
    BY <1>1 DEF Answers
  <2>4. call[c].pc = "content" => \A j \in call[c].listed : j \in Known(entries, k)
    BY <1>5 DEF KnownInv, KnownOK
  <2>. QED BY <2>2, <2>3, <2>4
<1>6. ASSUME kind = "rope", k \notin crossed, NEW s \in shown[k]
      PROVE  s[1] \notin sums
  <2>1. s[1] \in Known(entries, k)
    BY <1>4, <1>6 DEF KnownInv, ShownTold
  <2>2. \A i \in sums : i \notin Known(entries, k)
    BY <1>1, <1>6, KnownRoles DEF Answers
  <2>. QED BY <2>1, <2>2
<1>. HIDE DEF bodies, k, r
<1>7. KnownOK(r)
  BY <1>3, <1>5, <1>6 DEF KnownOK
<1>. QED BY <1>2, <1>7, KnownAlone

\* A session learns of what a call of it has prepared, and forgets nothing.
LEMMA KnownRecorded ==
    ASSUME TypeInv, BodyInv, KnownInv, NEW c \in Callers, RecordEntries(c),
           Stored(call[c].key) \/ call[c].record = {}
    PROVE  KnownInv'
<1>0. PICK k : k = call[c].key
  OBVIOUS
<1>. DEFINE new == call[c].record
            r   == [call[c] EXCEPT !.pc = "count", !.then = "answer", !.record = {},
                                   !.lives = Stored(call[c].key)]
<1>1. call[c] \in Calls /\ CallOK(call[c]) /\ KnownOK(call[c]) /\ call[c].pc = "record"
  BY DEF TypeInv, TypeOK, CallsOK, KnownInv, RecordEntries
<1>2. call' = [call EXCEPT ![c] = r] /\ UNCHANGED <<shown, crossed>>
  BY DEF RecordEntries
<1>3. entries' = new \cup {e \in entries : ~ \E f \in new : SameRow(e, f)}
  BY <1>0 DEF RecordEntries
<1>4. OfSession(k, new) /\ k \in Keys
  BY <1>0, <1>1 DEF CallOK
<1>5. /\ r.pc = "count" /\ r.key = k /\ r.bodies = call[c].bodies /\ r.kind = call[c].kind
      /\ r.summaries = call[c].summaries /\ (r.lives => Stored(k))
  BY <1>0, <1>1 DEF Calls
<1>. HIDE DEF r
<1>6. \A d \in Callers : call'[d] = IF d = c THEN r ELSE call[d]
  BY <1>2 DEF TypeInv, TypeOK
<1>7. \A j, x : x \in Known(entries, j) => x \in Known(entries', j)
  <2>. SUFFICES ASSUME NEW e \in entries, e.role \in {"clicked", "listed"}
                PROVE  \E f \in entries' : f.key = e.key /\ f.role \in {"clicked", "listed"}
                                              /\ f.id = e.id
    BY KnownIs
  <2>. QED BY <1>3 DEF SameRow
<1>8. ASSUME NEW x \in Told(new)
      PROVE  x \in Known(entries', k)
  <2>1. PICK e \in new : e.role \in {"clicked", "listed"} /\ e.id = x
    BY DEF Told
  <2>2. e \in entries' /\ e.key = k
    BY <1>3, <1>4 DEF OfSession
  <2>. QED BY <2>1, <2>2, KnownIs
<1>9. ToSet(sessions') = ToSet(sessions)
  BY TouchedLast DEF RecordEntries, TypeInv, TypeOK
<1>10. ShownTold'
  BY <1>2, <1>7 DEF KnownInv, ShownTold
<1>11. ASSUME NEW d \in Callers
       PROVE  KnownOK(call[d])'
  <2>1. CASE d = c
    <3>1. r.lives /\ k \notin crossed => \A b \in r.bodies : b[1] \in Known(entries', k)
      BY <1>0, <1>1, <1>5, <1>7, <1>8 DEF KnownOK
    <3>2. r.kind = "rope" /\ k \notin crossed => \A s \in shown[k] : s[1] \notin r.summaries
      BY <1>0, <1>1, <1>5 DEF KnownOK
    <3>. QED BY <1>2, <1>5, <1>6, <2>1, <3>1, <3>2 DEF KnownOK
  <2>2. CASE d # c
    <3>1. call'[d] = call[d] /\ KnownOK(call[d])
      BY <1>6, <2>2 DEF KnownInv
    <3>2. Stored(call[d].key)' <=> Stored(call[d].key)
      BY <1>9, <3>1 DEF Stored
    <3>. QED BY <1>2, <1>7, <3>1, <3>2 DEF KnownOK
  <2>. QED BY <2>1, <2>2
<1>. QED BY <1>10, <1>11 DEF KnownInv

\* A session that is deleted is not stored, and has shown nothing.
LEMMA KnownDeleted ==
    ASSUME TypeInv, BodyInv, KnownInv, NEW c \in Callers, Delete(c)
    PROVE  KnownInv'
<1>1. PICK k : k = Head(call[c].victims)
  OBVIOUS
<1>2. /\ entries' = {e \in entries : e.key # k} /\ shown' = [shown EXCEPT ![k] = {}]
      /\ sessions' = Without(k) /\ UNCHANGED crossed
  BY <1>1 DEF Delete
<1>3. ToSet(sessions') = ToSet(sessions) \ {k}
  BY <1>2, WithoutOne DEF TypeInv, TypeOK
<1>4. ASSUME NEW d \in Callers
      PROVE  /\ call'[d].pc = call[d].pc /\ call'[d].key = call[d].key
             /\ call'[d].record = call[d].record /\ call'[d].bodies = call[d].bodies
             /\ call'[d].kind = call[d].kind /\ call'[d].summaries = call[d].summaries
             /\ call'[d].listed = call[d].listed
             /\ call'[d].lives => call[d].lives /\ call[d].key # k
  <2>1. /\ call'[d] = [call[d] EXCEPT !.victims = IF d = c THEN Tail(@) ELSE @,
                                      !.lives = @ /\ call[d].key # k]
        /\ call[d] \in Calls
    BY <1>1 DEF Delete, TypeInv, TypeOK
  <2>. QED BY <2>1 DEF Calls
<1>5. \A j \in Keys : shown'[j] \subseteq shown[j] /\ (j = k => shown'[j] = {})
  BY <1>2 DEF TypeInv, TypeOK
<1>6. \A j, x : j # k /\ x \in Known(entries, j) => x \in Known(entries', j)
  BY <1>2, KnownIs
<1>7. ShownTold'
  BY <1>2, <1>5, <1>6 DEF KnownInv, ShownTold
<1>8. ASSUME NEW d \in Callers
      PROVE  KnownOK(call[d])'
  <2>1. KnownOK(call[d])
    BY DEF KnownInv
  <2>2. Stored(call[d].key)' <=> Stored(call[d].key) /\ call[d].key # k
    BY <1>3, <1>4 DEF Stored
  <2>3. CASE call[d].pc = "idle"
    BY <1>4, <2>3 DEF KnownOK, BodyInv, BodyOK
  <2>4. CASE call[d].pc # "idle"
    <3>1. shown'[call[d].key] \subseteq shown[call[d].key]
      BY <1>5, <2>4 DEF TypeInv, CallsOK, CallOK
    <3>. QED BY <1>2, <1>4, <1>6, <2>1, <2>2, <3>1 DEF KnownOK
  <2>. QED BY <2>3, <2>4
<1>. QED BY <1>7, <1>8 DEF KnownInv

LEMMA KnownBegun ==
    ASSUME TypeInv, BodyInv, KnownInv, NEW c \in Callers, NEW k \in Keys, NEW t \in Asked,
           NEW rope \in BOOLEAN, EnsureSession(c, k, t, rope)
    PROVE  KnownInv'
<1>. DEFINE r == [NoCall EXCEPT !.pc = IF Stored(k) THEN "count" ELSE "insert",
                                !.key = k, !.target = t, !.rope = rope]
<1>1. call' = [call EXCEPT ![c] = r] /\ UNCHANGED <<entries, shown>> /\ crossed \subseteq crossed'
  BY DEF EnsureSession
<1>2. r.pc \in {"count", "insert"} /\ ~ r.lives /\ r.kind = "none"
  BY DEF NoCall
<1>. HIDE DEF r
<1>3. \A d \in Callers : call'[d] = IF d = c THEN r ELSE call[d]
  BY <1>1 DEF TypeInv, TypeOK
<1>4. ToSet(sessions') = ToSet(sessions)
  BY TouchedLast DEF EnsureSession, TypeInv, TypeOK
<1>5. ShownTold'
  BY <1>1 DEF KnownInv, ShownTold, Known
<1>6. ASSUME NEW d \in Callers
      PROVE  KnownOK(call[d])'
  <2>1. CASE d = c
    BY <1>2, <1>3, <2>1 DEF KnownOK
  <2>2. CASE d # c
    <3>1. KnownOK(call[d]) /\ call'[d] = call[d]
      BY <1>3, <2>2 DEF KnownInv
    <3>. QED BY <1>1, <1>4, <3>1 DEF KnownOK, Known, Stored
  <2>. QED BY <2>1, <2>2
<1>. QED BY <1>5, <1>6 DEF KnownInv

LEMMA KnownAnswered ==
    ASSUME TypeInv, BodyInv, KnownInv, NEW c \in Callers, Answer(c)
    PROVE  KnownInv'
<1>0. call[c].pc # "idle" /\ UNCHANGED <<entries, crossed, sessions>> /\ Over(c)
  BY DEF Answer
<1>1. CASE ~ call[c].lives
  BY <1>0, <1>1, KnownOver DEF Answer
<1>2. CASE call[c].lives
  <2>1. PICK k : k = call[c].key
    OBVIOUS
  <2>. DEFINE bodies == call[c].bodies
  <2>2. shown' = [shown EXCEPT ![k] = bodies \cup {s \in @ : \A b \in bodies : b[1] # s[1]}]
    BY <1>2, <2>1 DEF Answer
  <2>3. \A d \in Callers : call'[d] = IF d = c THEN NoCall ELSE call[d]
    BY DEF Answer, Over, TypeInv, TypeOK
  <2>4. k \in Keys
    BY <1>0, <2>1 DEF TypeInv, CallsOK, CallOK
  <2>5. \A j \in Keys : shown'[j] \subseteq (IF j = k THEN bodies ELSE {}) \cup shown[j]
    BY <2>2, <2>4 DEF TypeInv, TypeOK
  <2>6. k \notin crossed => \A b \in bodies : b[1] \in Known(entries, k)
    BY <1>2, <2>1 DEF KnownInv, KnownOK
  <2>. HIDE DEF bodies
  <2>7. ShownTold'
    BY <1>0, <2>5, <2>6 DEF KnownInv, ShownTold, Known
  <2>8. ASSUME NEW d \in Callers
        PROVE  KnownOK(call[d])'
    <3>1. CASE d = c
      BY <2>3, <3>1 DEF KnownOK, NoCall
    <3>2. CASE d # c
      <4>1. call'[d] = call[d] /\ KnownOK(call[d])
        BY <2>3, <3>2 DEF KnownInv
      <4>2. CASE call[d].pc = "idle"
        BY <4>1, <4>2 DEF KnownOK, BodyInv, BodyOK
      <4>3. CASE call[d].pc # "idle"
        <5>1. call[d].key \in Keys /\ (call[d].key \notin crossed => call[d].key # k)
          BY <1>0, <2>1, <3>2, <4>3 DEF BodyInv, OneCall, TypeInv, CallsOK, CallOK
        <5>2. call[d].key \notin crossed => shown'[call[d].key] \subseteq shown[call[d].key]
          BY <2>5, <5>1
        <5>. QED BY <1>0, <4>1, <5>2 DEF KnownOK, Known, Stored
      <4>. QED BY <4>2, <4>3
    <3>. QED BY <3>1, <3>2
  <2>. QED BY <2>7, <2>8 DEF KnownInv
<1>. QED BY <1>1, <1>2

LEMMA KnownStep ==
    ASSUME Parameters, TypeInv, BodyInv, KnownInv, [Next]_clickVars
    PROVE  KnownInv'
<1>0. \A c \in Callers : call[c] \in Calls
  BY DEF TypeInv, TypeOK
<1>1. ASSUME NEW c \in Callers, NEW k \in Keys, NEW t \in Asked, NEW rope \in BOOLEAN,
             EnsureSession(c, k, t, rope)
      PROVE  KnownInv'
  BY <1>1, KnownBegun
<1>2. ASSUME NEW c \in Callers, Insert(c)
      PROVE  KnownInv'
  <2>1. call[c].pc # "idle" /\ UNCHANGED <<entries, shown, crossed>> /\ call[c].key \in Keys
    BY <1>2 DEF Insert, TypeInv, CallsOK, CallOK
  <2>2. CASE Stored(call[c].key)
    BY <1>2, <2>1, <2>2, KnownOver DEF Insert
  <2>3. CASE ~ Stored(call[c].key)
    <3>1. Goes(c, "count") /\ sessions' = Append(sessions, call[c].key)
      BY <1>2, <2>3 DEF Insert
    <3>2. ToSet(sessions') = ToSet(sessions) \cup {call[c].key}
      BY <2>1, <2>3, <3>1, OneMore DEF Stored, TypeInv, TypeOK
    <3>. QED BY <2>1, <3>1, <3>2, KnownGoes
  <2>. QED BY <2>2, <2>3
<1>3. ASSUME NEW c \in Callers, Count(c)
      PROVE  KnownInv'
  <2>1. call[c].pc # "idle" /\ UNCHANGED <<entries, shown, crossed, sessions>>
    BY <1>3 DEF Count
  <2>2. CASE Excess <= 0
    <3>1. Goes(c, call[c].then) /\ call[c].then \in {"resolve", "answer"}
      BY <1>0, <1>3, <2>2 DEF Count, Calls
    <3>. QED BY <2>1, <3>1, KnownGoes
  <2>3. CASE ~ (Excess <= 0)
    <3>. DEFINE r == [call[c] EXCEPT !.pc = "select", !.excess = Excess]
    <3>1. call' = [call EXCEPT ![c] = r]
      BY <1>0, <1>3, <2>3 DEF Count
    <3>2. r.pc = "select" /\ Same(r, call[c])
      BY <1>0 DEF Calls, Same
    <3>. HIDE DEF r
    <3>. QED BY <2>1, <3>1, <3>2, KnownGoesOn
  <2>. QED BY <2>2, <2>3
<1>4. ASSUME NEW c \in Callers, Select(c)
      PROVE  KnownInv'
  <2>1. call[c].pc # "idle" /\ UNCHANGED <<entries, shown, crossed, sessions>>
    BY <1>4 DEF Select
  <2>2. PICK v : call' = [call EXCEPT ![c] =
                   [call[c] EXCEPT !.pc = "delete", !.excess = 0, !.victims = v]]
    BY <1>0, <1>4 DEF Select
  <2>. DEFINE r == [call[c] EXCEPT !.pc = "delete", !.excess = 0, !.victims = v]
  <2>3. r.pc = "delete" /\ Same(r, call[c])
    BY <1>0 DEF Calls, Same
  <2>4. call' = [call EXCEPT ![c] = r]
    BY <2>2
  <2>. HIDE DEF r
  <2>. QED BY <2>1, <2>3, <2>4, KnownGoesOn
<1>5. ASSUME NEW c \in Callers, Evicted(c)
      PROVE  KnownInv'
  <2>1. /\ Goes(c, call[c].then) /\ call[c].then \in {"resolve", "answer"} /\ call[c].pc # "idle"
        /\ UNCHANGED <<entries, shown, crossed, sessions>>
    BY <1>0, <1>5 DEF Evicted, Calls
  <2>. QED BY <2>1, KnownGoes
<1>6. ASSUME NEW c \in Callers, Delete(c)
      PROVE  KnownInv'
  BY <1>6, KnownDeleted
<1>7. ASSUME NEW c \in Callers, Search(c) \/ Rope(c) \/ RevisitResult(c)
      PROVE  KnownInv'
  <2>1. call[c].pc # "idle" /\ UNCHANGED <<entries, shown, crossed, sessions>>
    BY <1>7 DEF Search, Rope, RevisitResult
  <2>2. Prepares(c)
    BY <1>7, NothingFound, Roped, Revisit
  <2>. QED BY <2>1, <2>2, KnownPrepared
<1>8. ASSUME NEW c \in Callers, Resolve(c)
      PROVE  KnownInv'
  <2>. DEFINE t == call[c].target
  <2>1. call[c].pc # "idle" /\ UNCHANGED <<entries, shown, crossed, sessions>>
    BY <1>8 DEF Resolve
  <2>2. t \in Targets /\ Present(t) /\ call[c].key \in Keys
    BY <1>8 DEF Resolve, Parameters, TypeInv, CallsOK, CallOK
  <2>3. CASE <<t, Fingerprint(t)>> \in Hashes(call[c].key, "clicked")
    <3>. DEFINE r == [call[c] EXCEPT !.pc = "listed", !.hash = Fingerprint(t)]
    <3>1. call' = [call EXCEPT ![c] = r]
      BY <1>0, <1>8, <2>3 DEF Resolve
    <3>2. r.pc = "listed" /\ Same(r, call[c])
      BY <1>0 DEF Calls, Same
    <3>. HIDE DEF r
    <3>. QED BY <2>1, <3>1, <3>2, KnownGoesOn
  <2>4. CASE <<t, Fingerprint(t)>> \notin Hashes(call[c].key, "clicked")
    <3>1. UniqueResult(c, call[c].key, t)
      BY <1>8, <2>4 DEF Resolve
    <3>. HIDE DEF t
    <3>2. Prepares(c)
      BY <2>2, <3>1, Unique
    <3>. QED BY <2>1, <3>2, KnownPrepared
  <2>. QED BY <2>3, <2>4
<1>9. ASSUME NEW c \in Callers, Listed(c)
      PROVE  KnownInv'
  <2>1. PICK ids : ids = IdsOf(call[c].key, "listed")
    OBVIOUS
  <2>. DEFINE r == [call[c] EXCEPT !.pc = "content", !.listed = ids]
  <2>2. /\ call' = [call EXCEPT ![c] = r] /\ call[c].pc # "idle"
        /\ UNCHANGED <<entries, shown, crossed, sessions>>
    BY <1>0, <1>9, <2>1 DEF Listed
  <2>3. r.pc = "content" /\ r.listed = ids /\ Same(r, call[c])
    BY <1>0 DEF Calls, Same
  <2>. HIDE DEF r
  <2>4. \A i \in ids : i \in Known(entries, call[c].key)
    BY <2>1, KnownRoles
  <2>5. KnownOK(r)
    BY <2>3, <2>4 DEF KnownInv, KnownOK, Same
  <2>. QED BY <2>2, <2>5, KnownAlone
<1>10. ASSUME NEW c \in Callers, RecordEntries(c)
       PROVE  KnownInv'
  <2>1. CASE Stored(call[c].key) \/ call[c].record = {}
    BY <1>10, <2>1, KnownRecorded
  <2>2. CASE ~ Stored(call[c].key) /\ call[c].record # {}
    <3>1. /\ Over(c) /\ call[c].pc # "idle"
          /\ UNCHANGED <<entries, shown, crossed, sessions>>
      BY <1>10, <2>2 DEF RecordEntries
    <3>. QED BY <3>1, KnownOver
  <2>. QED BY <2>1, <2>2
<1>11. ASSUME NEW c \in Callers, Answer(c)
       PROVE  KnownInv'
  BY <1>11, KnownAnswered
<1>12. ASSUME NEW c \in Callers, Dies(c)
       PROVE  KnownInv'
  BY <1>12, KnownOver DEF Dies
<1>13. ASSUME NEW i \in Ideas, NEW p \in Prints \cup {Gone}, Reindexed(i, p)
       PROVE  KnownInv'
  <2>1. UNCHANGED <<entries, call, crossed, sessions>>
    BY <1>13 DEF Reindexed
  <2>2. \A k \in Keys : shown'[k] \subseteq shown[k]
    BY <1>13 DEF Reindexed
  <2>3. ShownTold'
    BY <2>1, <2>2 DEF KnownInv, ShownTold
  <2>4. ASSUME NEW c \in Callers
        PROVE  KnownOK(call[c])'
    <3>1. KnownOK(call[c]) /\ call'[c] = call[c]
      BY <2>1 DEF KnownInv
    <3>2. CASE call[c].pc = "idle"
      BY <3>1, <3>2 DEF KnownOK, BodyInv, BodyOK
    <3>3. CASE call[c].pc # "idle"
      <4>1. call[c].key \in Keys
        BY <3>3 DEF TypeInv, CallsOK, CallOK
      <4>. QED BY <2>1, <2>2, <3>1, <4>1 DEF KnownOK, Stored
    <3>. QED BY <3>2, <3>3
  <2>. QED BY <2>3, <2>4 DEF KnownInv
<1>14. CASE UNCHANGED clickVars
  BY <1>14 DEF clickVars, KnownInv, ShownTold, KnownOK, Stored
<1>. QED
  BY <1>1, <1>2, <1>3, <1>4, <1>5, <1>6, <1>7, <1>8, <1>9, <1>10, <1>11, <1>12, <1>13, <1>14
     DEF Next

\* Of what its session has shown as content and has not changed since, a revisit shows no
\* body again, nor a rope a summary: for any number of sessions, of processes and of their
\* calls that come one after the other, whatever is evicted, killed or edited in between
\* (click.rs:318-371, rope.rs:406-454).
THEOREM ShownOnce ==
    ASSUME Parameters
    PROVE  Spec => []BodyOnce
<1>. DEFINE Inv == TypeInv /\ BodyInv /\ KnownInv
<1>1. Init => Inv
  <2>. SUFFICES ASSUME Init PROVE Inv
    OBVIOUS
  <2>1. \A c \in Callers : call[c] = NoCall
    BY DEF Init
  <2>2. /\ NoCall.pc = "idle" /\ ~ NoCall.lives /\ NoCall.kind = "none"
    BY DEF NoCall
  <2>3. OneCall /\ \A c \in Callers : BodyOK(call[c]) /\ KnownOK(call[c])
    BY <2>1, <2>2 DEF OneCall, BodyOK, KnownOK
  <2>4. ShownKnown /\ ShownTold
    BY DEF Init, ShownKnown, ShownTold
  <2>. QED BY <2>3, <2>4, TypeInit DEF BodyInv, KnownInv
<1>2. Inv /\ [Next]_clickVars => Inv'
  BY TypeStep, BodyStep, KnownStep
<1>3. Inv => BodyOnce
  <2>. SUFFICES ASSUME Inv, NEW c \in Callers, call[c].key \notin crossed,
                       NEW s \in shown[call[c].key]
                PROVE  /\ call[c].kind = "revisit" => s \notin call[c].bodies
                       /\ call[c].kind = "rope" => s[1] \notin call[c].summaries
    BY DEF BodyOnce
  <2>1. BodyOK(call[c]) /\ KnownOK(call[c])
    BY DEF BodyInv, KnownInv
  <2>. QED BY <2>1 DEF BodyOK, KnownOK
<1>. QED BY <1>1, <1>2, <1>3, PTL DEF Spec
=============================================================================
