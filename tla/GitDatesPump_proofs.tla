-------------------------- MODULE GitDatesPump_proofs --------------------------
(***************************************************************************)
(* Proofs about GitDatesPump: its types, that the ideas of the active file *)
(* come first, and that a pump at rest has asked for every idea.  A list   *)
(* that leaves out ideas of the active file is full; when it holds less    *)
(* than a batch of ideas not asked for, the rest of it are ideas that      *)
(* were, and a list asks for more than those unless it is as long as a     *)
(* list may be.                                                            *)
(***************************************************************************)
EXTENDS GitDatesPump, FiniteSetTheorems, NaturalsInduction, WellFoundedInduction, TLAPS

(***************************************************************************)
(* Numbers and lists                                                       *)
(***************************************************************************)
\* A set of numbers has a least one.
LEMMA LeastExists ==
    ASSUME NEW S \in SUBSET Nat, S # {}
    PROVE  \E m \in S : \A k \in S : m <= k
<1>. DEFINE R == {p \in Nat \X Nat : p[1] < p[2]}
<1>1. PICK m \in S : \A k \in S : <<k, m>> \notin R
  <2>1. IsWellFoundedOn(R, Nat)
    BY NatLessThanWellFounded DEF OpToRel
  <2>. HIDE DEF R
  <2>. QED BY <2>1, WFMin
<1>2. \A k \in S : m <= k
  <2>. SUFFICES ASSUME NEW k \in S, k < m PROVE FALSE
    OBVIOUS
  <2>1. <<k, m>> \in R
    OBVIOUS
  <2>. QED BY <2>1, <1>1
<1>. QED BY <1>2

\* A bounded set of numbers has a greatest one.
LEMMA GreatestExists ==
    ASSUME NEW most \in Nat, NEW S \in SUBSET (1 .. most), S # {}
    PROVE  \E m \in S : \A k \in S : k <= m
<1>. DEFINE T == {most - i : i \in S}
<1>1. T \in SUBSET Nat /\ T # {}
  OBVIOUS
<1>2. PICK t \in T : \A u \in T : t <= u
  <2>. HIDE DEF T
  <2>. QED BY <1>1, LeastExists
<1>3. PICK m \in S : t = most - m
  BY <1>2
<1>4. \A k \in S : k <= m
  <2>. SUFFICES ASSUME NEW k \in S PROVE k <= m
    OBVIOUS
  <2>1. t <= most - k
    BY <1>2
  <2>. QED BY <1>3, <2>1
<1>. QED BY <1>4

\* A set of ideas is finite.
LEMMA IdeasFinite ==
    ASSUME Count \in Nat, NEW S \in SUBSET Ideas
    PROVE  IsFiniteSet(S) /\ Cardinality(S) \in Nat
<1>1. IsFiniteSet(Ideas)
  BY FS_Interval DEF Ideas
<1>. QED BY <1>1, FS_Subset, FS_CardinalityType

\* A part of a set of ideas has no more of them.
LEMMA PartHasFewer ==
    ASSUME Count \in Nat, NEW S \in SUBSET Ideas, NEW T \in SUBSET S
    PROVE  Cardinality(T) <= Cardinality(S)
BY IdeasFinite, FS_Subset

\* A list that leaves something out is full.
LEMMA FirstIsFull ==
    ASSUME Count \in Nat, NEW S \in SUBSET Ideas, NEW n \in Int, First(n, S) # S
    PROVE  Cardinality(First(n, S)) >= n
<1>. DEFINE out == S \ First(n, S)
<1>0. S \in SUBSET Nat /\ First(n, S) \subseteq S
  BY DEF First, Ideas
<1>1. out \in SUBSET Nat /\ out # {}
  BY <1>0
<1>2. PICK m \in out : \A k \in out : m <= k
  <2>. HIDE DEF out
  <2>. QED BY <1>1, LeastExists
<1>. DEFINE below == {j \in S : j < m}
<1>. DEFINE upto == {j \in S : j <= m}
<1>3. below \subseteq First(n, S)
  <2>. SUFFICES ASSUME NEW j \in S, j < m, j \in out PROVE FALSE
    OBVIOUS
  <2>1. m <= j
    BY <1>2
  <2>. QED BY <1>1, <1>2, <2>1
<1>4. upto = below \cup {m} /\ m \notin below
  <2>1. m \in S /\ m \in Nat /\ S \in SUBSET Nat
    BY <1>0, <1>1, <1>2
  <2>. HIDE DEF out
  <2>2. \A j \in S : j <= m <=> j < m \/ j = m
    BY <2>1
  <2>3. \A j : j \in upto <=> j \in below \/ j = m
    BY <2>1, <2>2
  <2>. QED BY <2>1, <2>3
<1>5. below \in SUBSET Ideas /\ upto \in SUBSET Ideas /\ First(n, S) \in SUBSET Ideas
  BY DEF First
<1>6. ~ (Cardinality(upto) <= n)
  BY <1>2 DEF First
<1>. HIDE DEF below, upto
<1>7. Cardinality(upto) = Cardinality(below) + 1
  BY <1>4, <1>5, IdeasFinite, FS_AddElement
<1>8. Cardinality(below) <= Cardinality(First(n, S))
  BY <1>3, <1>5, PartHasFewer
<1>9. Cardinality(below) \in Nat /\ Cardinality(First(n, S)) \in Nat
  BY <1>5, IdeasFinite
<1>. QED BY <1>6, <1>7, <1>8, <1>9

\* A list has no more ideas than it was asked for.
LEMMA FirstAtMost ==
    ASSUME Count \in Nat, NEW S \in SUBSET Ideas, NEW n \in Nat
    PROVE  First(n, S) \in SUBSET S /\ Cardinality(First(n, S)) <= n
<1>1. First(n, S) \in SUBSET S /\ First(n, S) \in SUBSET (1 .. Count)
  BY DEF First, Ideas
<1>2. CASE First(n, S) = {}
  BY <1>1, <1>2, FS_EmptySet
<1>3. CASE First(n, S) # {}
  <2>1. PICK m \in First(n, S) : \A k \in First(n, S) : k <= m
    BY <1>1, <1>3, GreatestExists
  <2>. DEFINE upto == {j \in S : j <= m}
  <2>2. Cardinality(upto) <= n
    BY DEF First
  <2>3. First(n, S) \in SUBSET upto
    BY <1>1, <2>1
  <2>4. upto \in SUBSET Ideas
    OBVIOUS
  <2>. HIDE DEF upto
  <2>5. Cardinality(First(n, S)) <= Cardinality(upto)
    BY <2>3, <2>4, PartHasFewer
  <2>6. Cardinality(First(n, S)) \in Nat /\ Cardinality(upto) \in Nat
    BY <2>3, <2>4, IdeasFinite
  <2>. QED BY <1>1, <2>2, <2>5, <2>6
<1>. QED BY <1>2, <1>3

\* The smaller of two numbers.
LEMMA MinOfTwo ==
    ASSUME NEW a \in Int, NEW b \in Int
    PROVE  Min({a, b}) = IF a <= b THEN a ELSE b
<1>. DEFINE s == IF a <= b THEN a ELSE b
<1>1. s \in {a, b} /\ \A y \in {a, b} : s <= y
  OBVIOUS
<1>2. \A x \in {a, b} : (\A y \in {a, b} : x <= y) => x = s
  OBVIOUS
<1>. QED BY <1>1, <1>2 DEF Min

\* The greater of two numbers.
LEMMA MaxOfTwo ==
    ASSUME NEW a \in Int, NEW b \in Int
    PROVE  Max({a, b}) = IF a >= b THEN a ELSE b
<1>. DEFINE s == IF a >= b THEN a ELSE b
<1>1. s \in {a, b} /\ \A y \in {a, b} : s >= y
  OBVIOUS
<1>2. \A x \in {a, b} : (\A y \in {a, b} : x >= y) => x = s
  OBVIOUS
<1>. QED BY <1>1, <1>2 DEF Max

(***************************************************************************)
(* A batch                                                                 *)
(***************************************************************************)
\* What the constants are.
Counts == /\ Count \in Nat /\ BatchSize \in Nat /\ MaxPerWave \in Nat /\ Ahead \in Nat
          /\ MaxFetch \in Nat /\ MaxEvents \in Nat

\* A batch is no longer than the wave's rest.
LEMMA WantBounds ==
    ASSUME Counts, TypeOK
    PROVE  Want \in Nat /\ Want <= BatchSize /\ wave.processed + Want <= MaxPerWave
<1>1. wave.processed \in Nat /\ wave.processed <= MaxPerWave
  BY DEF Counts, TypeOK
<1>. QED BY <1>1 DEF Want, Counts

\* A list asks for as much as it looks ahead for, and for a batch more than was asked
\* for already, or for the most there is.
LEMMA FetchBounds ==
    ASSUME Counts, TypeOK
    PROVE  /\ Fetch \in Nat
           /\ \/ Fetch = MaxFetch
              \/ Fetch >= Want * Ahead /\ Fetch >= Want + Cardinality(attempted)
<1>. DEFINE a == Want * Ahead
            b == Want + Cardinality(attempted)
<1>1. a \in Nat /\ b \in Nat /\ MaxFetch \in Nat
  <2>1. Want \in Nat /\ Ahead \in Nat
    BY WantBounds DEF Counts
  <2>2. Cardinality(attempted) \in Nat
    BY IdeasFinite DEF Counts, TypeOK
  <2>. QED BY <2>1, <2>2 DEF Counts
<1>. DEFINE most == Max({a, b})
<1>2. Fetch = Min({MaxFetch, most})
  BY DEF Fetch
<1>. HIDE DEF a, b
<1>3. most \in Nat /\ most >= b /\ most >= a
  BY <1>1, MaxOfTwo
<1>. HIDE DEF most
<1>4. Min({MaxFetch, most}) = IF MaxFetch <= most THEN MaxFetch ELSE most
  BY <1>1, <1>3, MinOfTwo
<1>5. /\ Fetch \in Nat
      /\ Fetch = MaxFetch \/ (Fetch >= a /\ Fetch >= b)
  BY <1>1, <1>2, <1>3, <1>4
<1>. QED BY <1>5 DEF a, b

\* The ideas of the active file that a list finds and that were not asked for.
Mine == Listed(OfActive(missing)) \ attempted

\* A batch holds no more ideas than it wants, and none that was asked for.
LEMMA PreferredBounds ==
    ASSUME Counts, TypeOK
    PROVE  /\ Preferred(missing, attempted) \in SUBSET Ideas
           /\ Cardinality(Preferred(missing, attempted)) \in 0 .. Want
<1>. DEFINE rest == Listed(missing) \ (attempted \cup Mine)
            n == Want - Cardinality(Mine)
<1>1. Mine \in SUBSET Ideas /\ rest \in SUBSET Ideas
  BY DEF Mine, Listed, First, OfActive, TypeOK
<1>2. Cardinality(Mine) \in Nat /\ Want \in Nat
  BY <1>1, IdeasFinite, WantBounds DEF Counts
<1>. HIDE DEF rest
<1>3. CASE Cardinality(Mine) >= Want
  <2>1. Preferred(missing, attempted) = First(Want, Mine)
    BY <1>3 DEF Preferred, Mine
  <2>2. First(Want, Mine) \in SUBSET Mine /\ Cardinality(First(Want, Mine)) <= Want
    BY <1>1, <1>2, FirstAtMost DEF Counts
  <2>3. Cardinality(First(Want, Mine)) \in Nat
    BY <1>1, <2>2, IdeasFinite DEF Counts
  <2>. QED BY <1>1, <1>2, <2>1, <2>2, <2>3
<1>4. CASE ~ (Cardinality(Mine) >= Want)
  <2>1. Preferred(missing, attempted) = Mine \cup First(n, rest)
    BY <1>4 DEF Preferred, Mine, rest
  <2>2. n \in Nat
    BY <1>2, <1>4
  <2>. HIDE DEF n
  <2>3. First(n, rest) \in SUBSET rest /\ Cardinality(First(n, rest)) <= n
    BY <1>1, <2>2, FirstAtMost DEF Counts
  <2>4. IsFiniteSet(Mine) /\ IsFiniteSet(First(n, rest)) /\ Cardinality(First(n, rest)) \in Nat
    BY <1>1, <2>3, IdeasFinite DEF Counts
  <2>5. Cardinality(Mine \cup First(n, rest))
           = Cardinality(Mine) + Cardinality(First(n, rest))
             - Cardinality(Mine \cap First(n, rest))
    BY <2>4, FS_Union
  <2>6. /\ Cardinality(Mine \cap First(n, rest)) \in Nat
        /\ Cardinality(Mine \cup First(n, rest)) \in Nat
        /\ Mine \cup First(n, rest) \in SUBSET Ideas
    BY <1>1, <2>3, IdeasFinite DEF Counts
  <2>7. Cardinality(Mine) + n = Want
    BY <1>2 DEF n
  <2>. QED BY <1>2, <2>1, <2>2, <2>3, <2>4, <2>5, <2>6, <2>7
<1>. QED BY <1>3, <1>4

\* The ideas of the active file come first.
LEMMA BatchEditorFirst ==
    ASSUME Counts, TypeOK, NEW i \in Preferred(missing, attempted)
    PROVE  \/ FileOf[i] = active
           \/ OfActive(missing) \subseteq attempted \cup Preferred(missing, attempted)
           \/ Cardinality(missing \cap attempted) + BatchSize > MaxFetch
<1>. DEFINE A == OfActive(missing)
            L == Listed(A)
<1>1. A \in SUBSET Ideas /\ A \subseteq missing /\ L \in SUBSET A
  BY DEF OfActive, Listed, First, TypeOK
<1>2. Mine = L \ attempted
  BY DEF Mine
<1>3. CASE Cardinality(Mine) >= Want
  <2>1. Preferred(missing, attempted) = First(Want, Mine)
    BY <1>3 DEF Preferred, Mine
  <2>2. i \in A
    BY <1>1, <1>2, <2>1 DEF First
  <2>. QED BY <2>2 DEF OfActive
<1>4. CASE ~ (Cardinality(Mine) >= Want)
  <2>1. Mine \subseteq Preferred(missing, attempted)
    BY <1>4 DEF Preferred, Mine
  <2>2. CASE L = A
    BY <1>2, <2>1, <2>2
  <2>3. CASE L # A
    <3>. DEFINE asked == L \cap attempted
    <3>1. Cardinality(L) >= Fetch
      <4>. HIDE DEF A
      <4>. QED BY <1>1, <2>3, FetchBounds, FirstIsFull DEF Listed, Counts
    <3>. HIDE DEF L
    <3>2. /\ L \in SUBSET Ideas /\ IsFiniteSet(L) /\ asked \in SUBSET Ideas
          /\ Mine \in SUBSET Ideas
      BY <1>1, <1>2, IdeasFinite DEF Counts
    <3>3. Cardinality(Mine) = Cardinality(L) - Cardinality(asked)
      BY <1>2, <3>2, FS_Difference
    <3>4. Cardinality(asked) <= Cardinality(attempted)
      BY PartHasFewer DEF Counts, TypeOK
    <3>5. Cardinality(asked) <= Cardinality(missing \cap attempted)
      <4>1. missing \cap attempted \in SUBSET Ideas
        BY DEF TypeOK
      <4>. QED BY <1>1, <4>1, PartHasFewer DEF Counts
    <3>6. /\ Cardinality(asked) \in Nat /\ Cardinality(L) \in Nat /\ Cardinality(Mine) \in Nat
          /\ Cardinality(attempted) \in Nat /\ Cardinality(missing \cap attempted) \in Nat
      BY <3>2, IdeasFinite DEF Counts, TypeOK
    <3>. HIDE DEF asked
    <3>7. Want \in Nat /\ Want <= BatchSize /\ BatchSize \in Nat /\ MaxFetch \in Nat
          /\ Fetch \in Nat /\ (Fetch = MaxFetch \/ Fetch >= Want + Cardinality(attempted))
      BY WantBounds, FetchBounds DEF Counts
    <3>8. Cardinality(asked) + Want > Fetch
      BY <1>4, <3>1, <3>3, <3>6, <3>7
    <3>9. Fetch = MaxFetch
      BY <3>4, <3>6, <3>7, <3>8
    <3>. QED BY <3>5, <3>6, <3>7, <3>8, <3>9
  <2>. QED BY <2>2, <2>3
<1>. QED BY <1>3, <1>4

(***************************************************************************)
(* Every step                                                              *)
(***************************************************************************)
\* After a wave there is none, and the timer is set or not.
LEMMA AfterWaveTyped ==
    ASSUME Counts, TypeOK, NEW w, NEW set \in BOOLEAN, w.stale \in BOOLEAN, AfterWave(w, set)
    PROVE  /\ wave' \in [running : BOOLEAN, processed : 0 .. MaxPerWave, stale : BOOLEAN]
           /\ timer' \in BOOLEAN
<1>1. NoWave \in [running : BOOLEAN, processed : 0 .. MaxPerWave, stale : BOOLEAN]
  BY DEF NoWave, Counts
<1>. QED BY <1>1 DEF AfterWave, TypeOK

\* A turn of the wave's loop.
LEMMA TurnTyped ==
    ASSUME Counts, TypeOK, NEW set \in BOOLEAN, Turn(set)
    PROVE  /\ missing' \in SUBSET Ideas /\ attempted' \in SUBSET Ideas
           /\ wave' \in [running : BOOLEAN, processed : 0 .. MaxPerWave, stale : BOOLEAN]
           /\ timer' \in BOOLEAN
           /\ attempted' = attempted \/ attempted' = attempted \cup Preferred(missing, attempted)
<1>. DEFINE batch == Preferred(missing, attempted)
            stops == ~ ready \/ wave.stale \/ batch = {}
<1>1. batch \in SUBSET Ideas /\ Cardinality(batch) \in 0 .. Want
  BY PreferredBounds
<1>. HIDE DEF batch
<1>2. CASE stops
  <2>1. AfterWave(wave, set) /\ UNCHANGED <<missing, attempted>>
    BY <1>2 DEF Turn, batch
  <2>2. wave.stale \in BOOLEAN
    BY DEF TypeOK
  <2>. QED BY <2>1, <2>2, AfterWaveTyped DEF TypeOK
<1>3. CASE ~ stops
  <2>. DEFINE now == [wave EXCEPT !.running = TRUE, !.processed = @ + Cardinality(batch)]
  <2>1. PICK dated \in SUBSET batch :
           /\ missing' = missing \ dated /\ attempted' = attempted \cup batch
           /\ \/ wave' = now /\ timer' = set
              \/ AfterWave(now, set)
    BY <1>3 DEF Turn, batch
  <2>2. now \in [running : BOOLEAN, processed : 0 .. MaxPerWave, stale : BOOLEAN]
    <3>1. wave.processed + Cardinality(batch) \in 0 .. MaxPerWave
      <4>1. wave.processed \in Nat /\ MaxPerWave \in Nat
        BY DEF TypeOK, Counts
      <4>. QED BY <1>1, <4>1, WantBounds
    <3>. QED BY <3>1 DEF TypeOK
  <2>. HIDE DEF now
  <2>3. /\ wave' \in [running : BOOLEAN, processed : 0 .. MaxPerWave, stale : BOOLEAN]
        /\ timer' \in BOOLEAN
    BY <2>1, <2>2, AfterWaveTyped
  <2>. QED BY <1>1, <2>1, <2>3 DEF TypeOK, batch
<1>. QED BY <1>2, <1>3

\* Every step keeps the types, and asks for ideas a batch at a time.
LEMMA NextTyped ==
    ASSUME Counts, TypeOK, [Next]_pumpVars
    PROVE  /\ TypeOK'
           /\ \/ attempted' \subseteq attempted
              \/ attempted' = attempted \cup Preferred(missing, attempted)
<1>0. Event => events' \in 0 .. MaxEvents
  BY DEF Event, TypeOK, Counts
<1>1. CASE LeavesReady
  BY <1>0, <1>1 DEF LeavesReady, TypeOK
<1>2. CASE BecomesReady
  BY <1>2 DEF BecomesReady, TypeOK
<1>3. ASSUME NEW i \in Ideas, Indexed(i) PROVE TypeOK' /\ attempted' = attempted
  BY <1>0, <1>3 DEF Indexed, TypeOK
<1>4. ASSUME NEW f \in RqFiles \cup {NoFile}, EditorChanges(f)
      PROVE  TypeOK' /\ attempted' = attempted
  <2>1. [wave EXCEPT !.stale = wave.running]
           \in [running : BOOLEAN, processed : 0 .. MaxPerWave, stale : BOOLEAN]
    BY DEF TypeOK
  <2>2. /\ timer' \in BOOLEAN
        /\ wave' \in [running : BOOLEAN, processed : 0 .. MaxPerWave, stale : BOOLEAN]
    BY <1>4, <2>1 DEF EditorChanges, TypeOK
  <2>. QED BY <1>0, <1>4, <2>2 DEF EditorChanges, TypeOK
<1>5. CASE PumpMissingGitDates
  <2>1. CASE wave.running \/ ~ ready
    BY <1>5, <2>1 DEF PumpMissingGitDates, TypeOK
  <2>2. CASE ~ (wave.running \/ ~ ready)
    <3>1. Turn(FALSE) /\ UNCHANGED <<ready, active, events>>
      BY <1>5, <2>2 DEF PumpMissingGitDates
    <3>. QED BY <3>1, TurnTyped DEF TypeOK
  <2>. QED BY <2>1, <2>2
<1>6. CASE NextBatch
  <2>1. Turn(timer) /\ UNCHANGED <<ready, active, events>> /\ timer \in BOOLEAN
    BY <1>6 DEF NextBatch, TypeOK
  <2>. QED BY <2>1, TurnTyped DEF TypeOK
<1>7. CASE UNCHANGED pumpVars
  BY <1>7 DEF pumpVars, TypeOK
<1>. QED BY <1>1, <1>2, <1>3, <1>4, <1>5, <1>6, <1>7 DEF Next, Program

(***************************************************************************)
(* The theorems                                                            *)
(***************************************************************************)
\* The variables have their types, whatever the ideas, their files and the limits.
THEOREM PumpTyped == ASSUME Counts PROVE Spec => []TypeOK
<1>1. Init => TypeOK
  <2>1. NoWave \in [running : BOOLEAN, processed : 0 .. MaxPerWave, stale : BOOLEAN]
    BY DEF NoWave, Counts
  <2>. QED BY <2>1 DEF Init, TypeOK, Counts
<1>2. TypeOK /\ [Next]_pumpVars => TypeOK'
  BY NextTyped
<1>. QED BY <1>1, <1>2, PTL DEF Spec

\* The ideas of the active file are asked for first, whatever the limits
\* (git-dates-background.ts:80-103, 135-141).
THEOREM EditorAlwaysFirst == ASSUME Counts PROVE Spec => [][EditorFirst]_pumpVars
<1>1. TypeOK /\ [Next]_pumpVars => [EditorFirst]_pumpVars
  <2>. SUFFICES ASSUME TypeOK, [Next]_pumpVars, NEW i \in attempted' \ attempted
       PROVE  \/ FileOf[i] = active
              \/ OfActive(missing) \subseteq attempted'
              \/ Cardinality(missing \cap attempted) + BatchSize > MaxFetch
    BY DEF EditorFirst
  <2>1. attempted' = attempted \cup Preferred(missing, attempted)
    BY NextTyped
  <2>. QED BY <2>1, BatchEditorFirst
<1>. QED BY <1>1, PumpTyped, PTL DEF Spec

(***************************************************************************)
(* At rest                                                                 *)
(***************************************************************************)
\* A batch and a wave are not empty, and a list has room for what it looks ahead for.
Limits == /\ Counts /\ BatchSize >= 1 /\ MaxPerWave >= 1
          /\ MaxFetch >= BatchSize * Ahead

\* Every idea without dates was asked for, or as many that were, and have no dates, as
\* a list looks ahead for.
Finished(left, done) == \/ left \subseteq done
                        \/ Cardinality(left \cap done) >= BatchSize * Ahead

\* No wave runs, and none is due.
PumpAtRest == ~ timer /\ ~ wave.running

\* A wave that runs has room for another idea, and a pump at rest has finished.
RestInv == /\ wave.processed < MaxPerWave
           /\ ready /\ PumpAtRest => Finished(missing, attempted)

\* A wave with room wants an idea.
LEMMA WantsSome ==
    ASSUME Limits, TypeOK, wave.processed < MaxPerWave
    PROVE  Want >= 1
<1>1. wave.processed \in Nat /\ MaxPerWave \in Nat
  BY DEF Limits, Counts, TypeOK
<1>. QED BY <1>1 DEF Want, Limits, Counts

\* A list of ideas that were all asked for leaves none out, or is full of them.
LEMMA AskedList ==
    ASSUME Counts, TypeOK, NEW left \in SUBSET Ideas, NEW done \in SUBSET Ideas,
           Listed(left) \subseteq done
    PROVE  left \subseteq done \/ Cardinality(left \cap done) >= Fetch
<1>1. CASE Listed(left) = left
  BY <1>1
<1>2. CASE Listed(left) # left
  <2>1. Fetch \in Nat
    BY FetchBounds
  <2>2. Cardinality(Listed(left)) >= Fetch
    BY <1>2, <2>1, FirstIsFull DEF Listed, Counts
  <2>3. Listed(left) \in SUBSET (left \cap done) /\ left \cap done \in SUBSET Ideas
    BY DEF Listed, First
  <2>4. Cardinality(Listed(left)) <= Cardinality(left \cap done)
    BY <2>3, PartHasFewer DEF Counts
  <2>5. Cardinality(Listed(left)) \in Nat /\ Cardinality(left \cap done) \in Nat
    BY <2>3, IdeasFinite DEF Counts
  <2>. QED BY <2>1, <2>2, <2>4, <2>5
<1>. QED BY <1>1, <1>2

\* A batch shorter than it may be holds all that the list of all ideas found.
LEMMA ShortBatch ==
    ASSUME Counts, TypeOK, Cardinality(Preferred(missing, attempted)) < Want
    PROVE  Listed(missing) \subseteq attempted \cup Preferred(missing, attempted)
<1>. DEFINE rest == Listed(missing) \ (attempted \cup Mine)
            n == Want - Cardinality(Mine)
<1>1. Mine \in SUBSET Ideas /\ rest \in SUBSET Ideas
  BY DEF Mine, Listed, First, OfActive, TypeOK
<1>2. Cardinality(Mine) \in Nat /\ Want \in Nat
  BY <1>1, IdeasFinite, WantBounds DEF Counts
<1>. HIDE DEF rest
<1>3. CASE Cardinality(Mine) >= Want
  <2>1. Preferred(missing, attempted) = First(Want, Mine)
    BY <1>3 DEF Preferred, Mine
  <2>2. First(Want, Mine) = Mine \/ Cardinality(First(Want, Mine)) >= Want
    BY <1>1, <1>2, FirstIsFull DEF Counts
  <2>3. Cardinality(First(Want, Mine)) \in Nat
    BY <1>1, IdeasFinite DEF Counts, First
  <2>. QED BY <1>2, <1>3, <2>1, <2>2, <2>3
<1>4. CASE ~ (Cardinality(Mine) >= Want)
  <2>1. Preferred(missing, attempted) = Mine \cup First(n, rest)
    BY <1>4 DEF Preferred, Mine, rest
  <2>2. n \in Nat
    BY <1>2, <1>4
  <2>. HIDE DEF n
  <2>3. First(n, rest) \in SUBSET rest
    BY DEF First
  <2>4. CASE First(n, rest) = rest
    <3>. QED BY <2>1, <2>4 DEF rest
  <2>5. CASE First(n, rest) # rest
    <3>1. Cardinality(First(n, rest)) >= n
      BY <1>1, <2>2, <2>5, FirstIsFull DEF Counts
    <3>2. /\ IsFiniteSet(Mine) /\ IsFiniteSet(First(n, rest))
          /\ Cardinality(First(n, rest)) \in Nat
      BY <1>1, <2>3, IdeasFinite DEF Counts
    <3>3. Mine \cap First(n, rest) = {}
      BY <2>3 DEF rest
    <3>4. Cardinality(Mine \cup First(n, rest))
             = Cardinality(Mine) + Cardinality(First(n, rest)) - Cardinality({})
      BY <3>2, <3>3, FS_Union
    <3>5. Cardinality({}) = 0
      BY FS_EmptySet
    <3>6. Cardinality(Mine) + n = Want
      BY <1>2 DEF n
    <3>7. FALSE
      BY <1>2, <2>1, <2>2, <3>1, <3>2, <3>4, <3>5, <3>6
    <3>. QED BY <3>7
  <2>. QED BY <2>4, <2>5
<1>. QED BY <1>3, <1>4

\* The set of those that were asked for, with a batch, has no more than both.
LEMMA AskedWithBatch ==
    ASSUME Counts, TypeOK, NEW batch \in SUBSET Ideas
    PROVE  Cardinality(attempted \cup batch) <= Cardinality(attempted) + Cardinality(batch)
<1>1. /\ IsFiniteSet(attempted) /\ IsFiniteSet(batch)
      /\ Cardinality(attempted) \in Nat /\ Cardinality(batch) \in Nat
      /\ Cardinality(attempted \cap batch) \in Nat
  BY IdeasFinite DEF Counts, TypeOK
<1>2. Cardinality(attempted \cup batch)
         = Cardinality(attempted) + Cardinality(batch) - Cardinality(attempted \cap batch)
  BY <1>1, FS_Union
<1>. QED BY <1>1, <1>2

\* A batch that leaves room in its wave, after which the lists find nothing new, has
\* finished; so has the turn that finds nothing to begin with.
LEMMA BatchFinishes ==
    ASSUME Limits, TypeOK, wave.processed < MaxPerWave,
           NEW left \in SUBSET missing,
           wave.processed + Cardinality(Preferred(missing, attempted)) < MaxPerWave,
           Listed(left) \subseteq attempted \cup Preferred(missing, attempted)
    PROVE  Finished(left, attempted \cup Preferred(missing, attempted))
<1>. DEFINE batch == Preferred(missing, attempted)
            done == attempted \cup batch
<1>0. Counts
  BY DEF Limits
<1>1. /\ batch \in SUBSET Ideas /\ Cardinality(batch) \in Nat /\ Cardinality(batch) <= Want
      /\ missing \in SUBSET Ideas /\ left \in SUBSET Ideas /\ done \in SUBSET Ideas
      /\ Want \in Nat
  BY <1>0, PreferredBounds, WantBounds DEF TypeOK
<1>2. left \subseteq done \/ Cardinality(left \cap done) >= Fetch
  BY <1>0, <1>1, AskedList
<1>3. CASE left \subseteq done
  BY <1>3 DEF Finished
<1>4. CASE Cardinality(left \cap done) >= Fetch /\ ~ (left \subseteq done)
  <2>1. /\ Cardinality(left \cap done) \in Nat /\ Cardinality(done) \in Nat
        /\ Cardinality(attempted) \in Nat
        /\ Cardinality(left \cap done) <= Cardinality(done)
    BY <1>0, <1>1, IdeasFinite, PartHasFewer DEF Counts, TypeOK
  <2>2. Cardinality(done) <= Cardinality(attempted) + Cardinality(batch)
    BY <1>0, <1>1, AskedWithBatch
  <2>3. Fetch \in Nat /\ MaxFetch \in Nat /\ BatchSize * Ahead \in Nat /\ MaxFetch >= BatchSize * Ahead
    BY <1>0, FetchBounds DEF Limits, Counts
  <2>4. \/ Fetch = MaxFetch
        \/ Fetch >= Want * Ahead /\ Fetch >= Want + Cardinality(attempted)
    BY <1>0, FetchBounds
  <2>. HIDE DEF batch
  <2>5. CASE Fetch = MaxFetch
    <3>. HIDE DEF done
    <3>1. Cardinality(left \cap done) >= BatchSize * Ahead
      BY <1>4, <2>1, <2>3, <2>5
    <3>. QED BY <3>1 DEF Finished, done, batch
  <2>6. CASE Want = BatchSize /\ Fetch >= Want * Ahead
    <3>. HIDE DEF done
    <3>1. Cardinality(left \cap done) >= BatchSize * Ahead
      BY <1>4, <2>1, <2>3, <2>6
    <3>. QED BY <3>1 DEF Finished, done, batch
  <2>7. CASE Want # BatchSize /\ Fetch >= Want + Cardinality(attempted)
    <3>1. Cardinality(batch) < Want
      <4>1. Want = MaxPerWave - wave.processed
        BY <2>7 DEF Want
      <4>2. wave.processed \in Nat /\ MaxPerWave \in Nat
        BY DEF Limits, Counts, TypeOK
      <4>. QED BY <1>1, <4>1, <4>2 DEF batch
    <3>2. Cardinality(attempted) + Cardinality(batch) < Fetch
      BY <1>1, <2>1, <2>3, <2>7, <3>1
    <3>3. FALSE
      <4>. HIDE DEF done
      <4>. QED BY <1>1, <1>4, <2>1, <2>2, <2>3, <3>2
    <3>. QED BY <3>3
  <2>. QED BY <2>4, <2>5, <2>6, <2>7
<1>. QED BY <1>2, <1>3, <1>4

\* A turn begins no wave, or leaves room in it, and ends one with the timer set, or
\* finished.
LEMMA TurnRests ==
    ASSUME Limits, TypeOK, wave.processed < MaxPerWave, NEW set \in BOOLEAN, Turn(set),
           UNCHANGED ready
    PROVE  RestInv'
<1>. DEFINE batch == Preferred(missing, attempted)
            stops == ~ ready \/ wave.stale \/ batch = {}
<1>0. Counts
  BY DEF Limits
<1>1. /\ batch \in SUBSET Ideas /\ Cardinality(batch) \in Nat
      /\ wave.processed \in Nat /\ MaxPerWave \in Nat /\ NoWave.processed < MaxPerWave
  BY <1>0, PreferredBounds, WantBounds DEF TypeOK, NoWave, Limits, Counts
<1>2. CASE stops
  <2>1. AfterWave(wave, set) /\ UNCHANGED <<missing, attempted>>
    BY <1>2 DEF Turn
  <2>2. wave' = NoWave /\ timer' = (set \/ (ready /\ (wave.stale \/ wave.processed >= MaxPerWave)))
    BY <2>1 DEF AfterWave
  <2>3. ASSUME ready', PumpAtRest' PROVE Finished(missing', attempted')
    <3>1. ready /\ ~ wave.stale /\ batch = {}
      BY <1>2, <2>2, <2>3 DEF PumpAtRest
    <3>2. Cardinality(batch) = 0
      BY <3>1, FS_EmptySet
    <3>3. Listed(missing) \subseteq attempted \cup batch
      <4>1. Cardinality(batch) < Want
        BY <1>0, <3>2, WantsSome, WantBounds
      <4>. QED BY <1>0, <4>1, ShortBatch
    <3>4. Finished(missing, attempted \cup batch)
      BY <1>1, <3>2, <3>3, BatchFinishes
    <3>. QED BY <2>1, <3>1, <3>4
  <2>. QED BY <1>1, <2>2, <2>3 DEF RestInv, Finished
<1>3. CASE ~ stops
  <2>. DEFINE now == [wave EXCEPT !.running = TRUE, !.processed = @ + Cardinality(batch)]
  <2>1. PICK dated \in SUBSET batch :
           LET left == missing \ dated
               done == attempted \cup batch
               more == (Listed(OfActive(left)) \cup Listed(left)) \ done # {}
           IN  /\ missing' = left /\ attempted' = done
               /\ IF now.processed < MaxPerWave /\ more
                  THEN wave' = now /\ timer' = set
                  ELSE AfterWave(now, set)
    BY <1>3 DEF Turn
  <2>. DEFINE left == missing \ dated
              more == (Listed(OfActive(left)) \cup Listed(left)) \ (attempted \cup batch) # {}
  <2>2. now.processed = wave.processed + Cardinality(batch) /\ now.running
    BY DEF TypeOK
  <2>. HIDE DEF now
  <2>3. CASE now.processed < MaxPerWave /\ more
    <3>1. wave' = now
      BY <2>1, <2>3
    <3>. QED BY <2>2, <2>3, <3>1 DEF RestInv, PumpAtRest
  <2>4. CASE ~ (now.processed < MaxPerWave /\ more)
    <3>1. AfterWave(now, set) /\ missing' = left /\ attempted' = attempted \cup batch
      BY <2>1, <2>4
    <3>2. wave' = NoWave /\ timer' = (set \/ (ready /\ (now.stale \/ now.processed >= MaxPerWave)))
      BY <3>1 DEF AfterWave
    <3>3. ASSUME ready', PumpAtRest' PROVE Finished(missing', attempted')
      <4>1. ready /\ ~ (now.processed >= MaxPerWave)
        BY <3>2, <3>3 DEF PumpAtRest
      <4>2. wave.processed + Cardinality(batch) < MaxPerWave
        BY <1>1, <2>2, <4>1
      <4>3. Listed(left) \subseteq attempted \cup batch
        BY <2>2, <2>4, <4>2
      <4>4. Finished(left, attempted \cup batch)
        BY <1>1, <4>2, <4>3, BatchFinishes
      <4>. QED BY <3>1, <4>4
    <3>. QED BY <1>1, <3>2, <3>3 DEF RestInv, Finished
  <2>. QED BY <2>3, <2>4
<1>. QED BY <1>2, <1>3

\* A pump that is at rest, with no wave due, has asked once for every idea that has no
\* dates, or for as many in vain as a list looks ahead for
\* (register-git-dates-background.ts:72-135, git-dates-background.ts:105-170), whatever
\* the ideas, their files and the limits: neither a change of the index nor another
\* editor, at any point of a wave, leaves an idea behind.
THEOREM PumpRests ==
    ASSUME Limits
    PROVE  Spec => [](PumpAtRest => AllAttempted)
<1>1. Init => RestInv
  BY DEF Init, RestInv, NoWave, PumpAtRest, Limits, Counts
<1>2. TypeOK /\ RestInv /\ [Next]_pumpVars => RestInv'
  <2>. SUFFICES ASSUME TypeOK, RestInv, [Next]_pumpVars PROVE RestInv'
    OBVIOUS
  <2>1. CASE LeavesReady
    BY <2>1 DEF LeavesReady, RestInv
  <2>2. CASE BecomesReady
    BY <2>2 DEF BecomesReady, RestInv, PumpAtRest
  <2>3. ASSUME NEW i \in Ideas, Indexed(i) PROVE RestInv'
    BY <2>3 DEF Indexed, RestInv, PumpAtRest
  <2>4. ASSUME NEW f \in RqFiles \cup {NoFile}, EditorChanges(f) PROVE RestInv'
    <3>1. CASE ready /\ f # NoFile
      <4>1. timer' = TRUE /\ wave'.processed = wave.processed
        BY <2>4, <3>1 DEF EditorChanges, TypeOK
      <4>. QED BY <4>1 DEF RestInv, PumpAtRest
    <3>2. CASE ~ (ready /\ f # NoFile)
      BY <2>4, <3>2 DEF EditorChanges, RestInv, PumpAtRest, Finished
    <3>. QED BY <3>1, <3>2
  <2>5. CASE PumpMissingGitDates
    <3>1. CASE wave.running \/ ~ ready
      BY <2>5, <3>1 DEF PumpMissingGitDates, RestInv, PumpAtRest
    <3>2. CASE ~ (wave.running \/ ~ ready)
      BY <2>5, <3>2, TurnRests DEF PumpMissingGitDates, RestInv
    <3>. QED BY <3>1, <3>2
  <2>6. CASE NextBatch
    BY <2>6, TurnRests DEF NextBatch, RestInv, TypeOK
  <2>7. CASE UNCHANGED pumpVars
    BY <2>7 DEF pumpVars, RestInv, PumpAtRest, Finished
  <2>. QED BY <2>1, <2>2, <2>3, <2>4, <2>5, <2>6, <2>7 DEF Next, Program
<1>3. RestInv => (PumpAtRest => AllAttempted)
  BY DEF RestInv, Finished, AllAttempted
<1>. QED BY <1>1, <1>2, <1>3, PumpTyped, PTL DEF Spec, Limits
=============================================================================
