------------------------- MODULE Editor_proofs -------------------------
(***************************************************************************)
(* Proofs about the editor: of the parts that have no proof module of      *)
(* their own, and of the parts side by side.                               *)
(*                                                                         *)
(* Bases: its types, the agreement of the two routes to the base of a      *)
(* file, and the pin of the user.  The bases that contain one file are     *)
(* prefixes of one path, so depth orders them: two of one depth are equal, *)
(* and of two of different depths the deeper is inside the other.          *)
(*                                                                         *)
(* IdeaSearch: the pages of the search pane are those of one query, in     *)
(* order.  The current request is in one place only, and when it asks for  *)
(* a further page, that is the one after the pages shown.                  *)
(*                                                                         *)
(* BaseSwitch, IdeaSearch and GraphPanel at rest: nothing waits that no    *)
(* message, timer or pass is on its way to end.  The invariants say of     *)
(* each flag what is under way for it.                                     *)
(*                                                                         *)
(* The types of IdeaSearch: each id, page and message is paid for out of   *)
(* the bounds of the instance, and each account adds up.                   *)
(*                                                                         *)
(* The parts side by side: a behaviour of EditorSpec is one of the part in *)
(* focus, so each theorem about a part holds of the editor.                *)
(***************************************************************************)
EXTENDS Editor, TLAPS, NaturalsInduction, WellFoundedInduction, SequenceTheorems,
        FiniteSetTheorems

(***************************************************************************)
(* Prefixes                                                                *)
(***************************************************************************)
\* Of two directories that contain one path, the deeper is inside the other.
LEMMA PrefixesNest ==
    ASSUME NEW f \in Seq(Names), NEW b \in Seq(Names), NEW c \in Seq(Names),
           Inside(f, b), Inside(f, c), Len(b) <= Len(c)
    PROVE  Inside(c, b)
<1>1. ASSUME NEW i \in 1 .. Len(b) PROVE b[i] = c[i]
  <2>1. i \in 1 .. Len(c)
    OBVIOUS
  <2>2. b[i] = f[i] /\ c[i] = f[i]
    BY <2>1 DEF Inside
  <2>. QED BY <2>2
<1>. QED BY <1>1 DEF Inside

\* Two directories of one depth that contain one path are one.
LEMMA PrefixesOfOneDepth ==
    ASSUME NEW f \in Seq(Names), NEW b \in Seq(Names), NEW c \in Seq(Names),
           Inside(f, b), Inside(f, c), Len(b) = Len(c)
    PROVE  b = c
<1>1. Inside(c, b)
  BY PrefixesNest
<1>2. \A i \in 1 .. Len(b) : b[i] = c[i]
  BY <1>1 DEF Inside
<1>. QED BY <1>2

\* Each file that a base contains has a longest base: depth is bounded below
\* the depth of the file.
LEMMA LongestExists ==
    ASSUME NEW f \in Seq(Names), NEW bases \in SUBSET Seq(Names),
           NEW b \in bases, Inside(f, b)
    PROVE  \E d \in bases : Longest(bases, f, d)
<1>. DEFINE Above == {n \in Nat : \E d \in bases : Inside(f, d) /\ Len(d) = Len(f) - n}
            R     == {p \in Nat \X Nat : p[1] < p[2]}
<1>1. \A d \in bases : Inside(f, d) => Len(f) - Len(d) \in Above
  <2>. SUFFICES ASSUME NEW d \in bases, Inside(f, d) PROVE Len(f) - Len(d) \in Above
    OBVIOUS
  <2>1. Len(d) \in Nat /\ Len(f) \in Nat /\ Len(d) <= Len(f)
    BY DEF Inside
  <2>2. Len(f) - Len(d) \in Nat /\ Len(d) = Len(f) - (Len(f) - Len(d))
    BY <2>1
  <2>. QED BY <2>2
<1>2. Above \subseteq Nat /\ Above # {}
  BY <1>1
<1>3. PICK n \in Above : \A m \in Above : <<m, n>> \notin R
  <2>1. IsWellFoundedOn(R, Nat)
    BY NatLessThanWellFounded DEF OpToRel
  <2>. HIDE DEF R, Above
  <2>. QED BY <2>1, <1>2, WFMin
<1>4. \A m \in Above : n <= m
  <2>. SUFFICES ASSUME NEW m \in Above, m < n PROVE FALSE
    BY <1>2
  <2>1. <<m, n>> \in R
    BY <1>2
  <2>. QED BY <2>1, <1>3
<1>5. PICK d \in bases : Inside(f, d) /\ Len(d) = Len(f) - n
  OBVIOUS
<1>6. ASSUME NEW c \in bases, Inside(f, c) PROVE Len(c) <= Len(d)
  <2>1. n <= Len(f) - Len(c)
    BY <1>1, <1>4, <1>6
  <2>. QED BY <2>1, <1>2, <1>5
<1>. QED BY <1>5, <1>6 DEF Longest

(***************************************************************************)
(* The two routes                                                          *)
(***************************************************************************)
\* Where a file goes is the one longest base.
LEMMA LongestIsUnique ==
    ASSUME NEW f \in Seq(Names), NEW bases \in SUBSET Seq(Names),
           NEW b, Longest(bases, f, b), NEW c, Longest(bases, f, c)
    PROVE  b = c
<1>1. b \in Seq(Names) /\ c \in Seq(Names) /\ Inside(f, b) /\ Inside(f, c)
  BY DEF Longest
<1>2. Len(b) <= Len(c) /\ Len(c) <= Len(b)
  BY DEF Longest
<1>3. Len(b) = Len(c)
  BY <1>1, <1>2
<1>. QED BY <1>1, <1>3, PrefixesOfOneDepth

LEMMA BaseForPathIsLongest ==
    ASSUME NEW f \in Seq(Names), NEW bases \in SUBSET Seq(Names), NoBase \notin bases,
           NEW b \in bases
    PROVE  BaseForPath(bases, f) = b <=> Longest(bases, f, b)
<1>1. ASSUME Longest(bases, f, b) PROVE BaseForPath(bases, f) = b
  <2>1. BaseForPath(bases, f) = CHOOSE d \in bases : Longest(bases, f, d)
    BY <1>1 DEF BaseForPath
  <2>2. Longest(bases, f, CHOOSE d \in bases : Longest(bases, f, d))
    BY <1>1
  <2>. QED BY <1>1, <2>1, <2>2, LongestIsUnique
<1>2. ASSUME BaseForPath(bases, f) = b PROVE Longest(bases, f, b)
  <2>1. \E d \in bases : Longest(bases, f, d)
    BY <1>2 DEF BaseForPath
  <2>. QED BY <1>2, <2>1 DEF BaseForPath
<1>. QED BY <1>1, <1>2

\* A sync leaves a base exactly the files it is the longest base of.
LEMMA OwnedIsLongest ==
    ASSUME NEW files \in SUBSET Seq(Names), NEW f \in files,
           NEW bases \in SUBSET Seq(Names), NEW b \in bases
    PROVE  f \in FilesOwnedByBase(b, files, bases) <=> Longest(bases, f, b)
<1>. f \in Seq(Names) /\ b \in Seq(Names)
  OBVIOUS
<1>1. ASSUME f \in FilesOwnedByBase(b, files, bases) PROVE Longest(bases, f, b)
  <2>1. Inside(f, b) /\ \A c \in ChildBases(b, bases) : ~ Inside(f, c)
    BY <1>1 DEF FilesOwnedByBase
  <2>2. ASSUME NEW c \in bases, Inside(f, c), ~ (Len(c) <= Len(b)) PROVE FALSE
    <3>1. c \in Seq(Names) /\ Len(b) <= Len(c) /\ c # b
      BY <2>2
    <3>2. Inside(c, b)
      BY <2>1, <2>2, <3>1, PrefixesNest
    <3>. QED BY <2>1, <2>2, <3>1, <3>2 DEF ChildBases
  <2>. QED BY <2>1, <2>2 DEF Longest
<1>2. ASSUME Longest(bases, f, b) PROVE f \in FilesOwnedByBase(b, files, bases)
  <2>1. ASSUME NEW c \in ChildBases(b, bases), Inside(f, c) PROVE FALSE
    <3>1. c \in bases /\ c # b /\ Inside(c, b) /\ c \in Seq(Names)
      BY DEF ChildBases
    <3>2. Len(c) <= Len(b) /\ Len(b) <= Len(c)
      BY <1>2, <2>1, <3>1 DEF Longest, Inside
    <3>3. Len(b) = Len(c) /\ Inside(f, b)
      BY <1>2, <3>1, <3>2 DEF Longest
    <3>. QED BY <2>1, <3>1, <3>3, PrefixesOfOneDepth
  <2>. QED BY <1>2, <2>1 DEF FilesOwnedByBase, Longest
<1>. QED BY <1>1, <1>2

(***************************************************************************)
(* The invariants                                                          *)
(***************************************************************************)
LEMMA DefaultIsFound ==
    ASSUME NEW found \in SUBSET Roots, NEW cwd,
           NEW b \in SelectDefaultBase(found, cwd)
    PROVE  b \in found \/ (b = NoBase /\ found = {})
<1>1. BaseForPath(found, cwd) # NoBase => BaseForPath(found, cwd) \in found
  BY DEF BaseForPath
<1>. QED BY <1>1 DEF SelectDefaultBase

\* The registry and the pin keep their types.
THEOREM BasesTyped == Spec => []TypeOK
<1>1. Init => TypeOK
  BY DEF Init, TypeOK, BaseOrNone
<1>2. TypeOK /\ [Next]_baseVars => TypeOK'
  <2>. SUFFICES ASSUME TypeOK, [Next]_baseVars PROVE TypeOK'
    OBVIOUS
  <2>. USE DEF TypeOK, BaseOrNone
  <2>1. ASSUME NEW r \in Refreshes, NEW found \in SUBSET Roots, NEW cwd \in Files,
               RefreshStarts(r, found, cwd)
        PROVE  TypeOK'
    <3>1. PICK b \in Selected(found, cwd) : pending' = [pending EXCEPT ![r] = b]
      BY <2>1 DEF RefreshStarts
    <3>2. b \in BaseOrNone
      BY DefaultIsFound DEF Selected
    <3>. QED BY <2>1, <3>1, <3>2 DEF RefreshStarts
  <2>2. ASSUME NEW r \in Refreshes, RefreshEnds(r) PROVE TypeOK'
    BY <2>2 DEF RefreshEnds
  <2>3. ASSUME NEW b \in Roots, SetActiveBaseId(b) PROVE TypeOK'
    BY <2>3 DEF SetActiveBaseId, Pin
  <2>4. ASSUME NEW f \in Files, ActivateBaseForPath(f) PROVE TypeOK'
    <3>1. BaseForPath(registered, f) \in Roots
      BY <2>4 DEF ActivateBaseForPath, BaseForPath
    <3>. QED BY <2>4, <3>1 DEF ActivateBaseForPath, Pin
  <2>5. CASE UNCHANGED baseVars
    BY <2>5 DEF baseVars
  <2>. QED BY <2>1, <2>2, <2>3, <2>4, <2>5 DEF Next
<1>. QED BY <1>1, <1>2, PTL DEF Spec

\* In every registry, the sync and the watcher agree on the base of each file.
THEOREM RoutesAgree == Spec => []OwnersAgree
<1>1. TypeOK => OwnersAgree
  <2>. SUFFICES ASSUME TypeOK, NEW b \in registered, NEW f \in Files
                PROVE  f \in FilesOwnedByBase(b, Files, registered)
                           <=> BaseForPath(registered, f) = b
    BY DEF OwnersAgree
  <2>1. /\ registered \in SUBSET Seq(Names) /\ Files \in SUBSET Seq(Names)
        /\ NoBase \notin registered /\ f \in Seq(Names)
    BY PathAssumption, NoBaseAssumption DEF TypeOK
  <2>2. f \in FilesOwnedByBase(b, Files, registered) <=> Longest(registered, f, b)
    BY <2>1, OwnedIsLongest
  <2>3. BaseForPath(registered, f) = b <=> Longest(registered, f, b)
    BY <2>1, BaseForPathIsLongest
  <2>. QED BY <2>2, <2>3
<1>. QED BY <1>1, BasesTyped, PTL

\* Why the pin of the user survives: a refresh that starts after it pins the same.
PinInv == chosen.base # NoBase /\ ~ chosen.overtaken =>
              /\ active = chosen.base
              /\ chosen.base \in registered
              /\ \A r \in Refreshes : pending[r] \in {NotRunning, chosen.base}

\* The base pinned last by the user stays pinned, if no refresh was under way.
THEOREM PinKept == Spec => []SelectionKept
<1>1. Init => PinInv
  BY DEF Init, PinInv
<1>2. TypeOK /\ PinInv /\ [Next]_baseVars => PinInv'
  <2>. SUFFICES ASSUME TypeOK, PinInv, [Next]_baseVars PROVE PinInv'
    OBVIOUS
  <2>1. ASSUME NEW r \in Refreshes, NEW found \in SUBSET Roots, NEW cwd \in Files,
               RefreshStarts(r, found, cwd)
        PROVE  PinInv'
    <3>. SUFFICES ASSUME chosen'.base # NoBase, ~ chosen'.overtaken
                  PROVE  /\ active' = chosen'.base
                         /\ chosen'.base \in registered'
                         /\ \A q \in Refreshes : pending'[q] \in {NotRunning, chosen'.base}
      BY DEF PinInv
    <3>1. chosen' = chosen /\ chosen.base \in found
      BY <2>1 DEF RefreshStarts, TypeOK
    <3>2. active = chosen.base /\ Selected(found, cwd) = {active}
      BY <3>1 DEF PinInv, Selected
    <3>3. pending' = [pending EXCEPT ![r] = active]
      BY <2>1, <3>2 DEF RefreshStarts
    <3>. QED BY <2>1, <3>1, <3>2, <3>3 DEF RefreshStarts, PinInv, TypeOK
  <2>2. ASSUME NEW r \in Refreshes, RefreshEnds(r) PROVE PinInv'
    BY <2>2 DEF RefreshEnds, PinInv, TypeOK
  <2>3. ASSUME NEW b \in registered, Pin(b) PROVE PinInv'
    BY <2>3 DEF Pin, PinInv, TypeOK
  <2>4. ASSUME NEW b \in Roots, SetActiveBaseId(b) PROVE PinInv'
    BY <2>3, <2>4 DEF SetActiveBaseId
  <2>5. ASSUME NEW f \in Files, ActivateBaseForPath(f) PROVE PinInv'
    <3>1. BaseForPath(registered, f) \in registered
      BY <2>5 DEF ActivateBaseForPath, BaseForPath
    <3>. QED BY <2>3, <2>5, <3>1 DEF ActivateBaseForPath
  <2>6. CASE UNCHANGED baseVars
    BY <2>6 DEF baseVars, PinInv
  <2>. QED BY <2>1, <2>2, <2>4, <2>5, <2>6 DEF Next
<1>3. PinInv => SelectionKept
  BY DEF PinInv, SelectionKept
<1>. QED BY <1>1, <1>2, <1>3, BasesTyped, PTL DEF Spec

(***************************************************************************)
(* The search pane                                                         *)
(***************************************************************************)
\* A request of the view, and what the host sends it.
Requests   == [id : Nat \ {0}, query : Searches, page : Nat]
Answers == [kind : {"progress", "results", "error"}, request : Requests]
             \cup [kind : {"seed"}, request : [id : Nat, query : Searches, page : Nat]]

\* The types, without the bounds of the instances.
PaneType ==
    /\ box \in [query : Search!Texts, timer : Search!Texts]
    /\ view \in [pages : Seq([query : Searches, page : Nat]), applied : Search!Texts,
                 truncated : BOOLEAN, loading : BOOLEAN, more : BOOLEAN, id : Nat]
    /\ note \in [lost : BOOLEAN, cleared : BOOLEAN]
    /\ toHost \in Seq(Requests \cup {Search!OpenMessage})
    /\ flying \subseteq [request : Requests, live : BOOLEAN]
    /\ toView \in Seq(Answers)

\* Where the current request is: on its way to the host, begun there, or answered.
AtHost(i) == i \in 1 .. Len(toHost) /\ toHost[i] # Search!OpenMessage /\ toHost[i].id = view.id
Flies(s)  == s \in flying /\ s.request.id = view.id
AtView(i) == /\ i \in 1 .. Len(toView) /\ toView[i].kind = "results"
             /\ toView[i].request.id = view.id

\* No request is later than the current one.
NoneLater ==
    /\ \A i \in 1 .. Len(toHost) : toHost[i].id <= view.id
    /\ \A s \in flying : s.request.id <= view.id
    /\ \A i \in 1 .. Len(toView) : toView[i].kind = "results" => toView[i].request.id <= view.id

\* The current request is in one place.
OutOnce ==
    /\ \A i, j : AtHost(i) /\ AtHost(j) => i = j
    /\ \A s, t : Flies(s) /\ Flies(t) => s = t
    /\ \A i, j : AtView(i) /\ AtView(j) => i = j
    /\ \A i, s : ~ (AtHost(i) /\ Flies(s))
    /\ \A i, j : ~ (AtHost(i) /\ AtView(j))
    /\ \A s, j : ~ (Flies(s) /\ AtView(j))

\* A further page that is asked for is the one after those shown, of the same query.
Fits(r) == r.page > 0 => r.query = view.applied /\ r.page = Len(view.pages)

NextPage ==
    ~ note.cleared => /\ \A i : AtHost(i) => Fits(toHost[i])
                      /\ \A s : Flies(s) => Fits(s.request)
                      /\ \A i : AtView(i) => Fits(toView[i].request)

\* A query that was applied shows a page.
PagesThere == view.applied # None => view.pages # <<>>

PaneInv == PaneType /\ NoneLater /\ OutOnce /\ NextPage /\ PagesThere /\ Search!PagesContiguous

\* The messages behind the first.
LEMMA Behind ==
    ASSUME NEW S, NEW s \in Seq(S), s # <<>>
    PROVE  /\ Tail(s) \in Seq(S) /\ Len(s) \in Nat \ {0} /\ Len(Tail(s)) = Len(s) - 1
           /\ Head(s) = s[1] /\ s[1] \in S
           /\ \A i \in 1 .. Len(Tail(s)) : Tail(s)[i] = s[i + 1] /\ i + 1 \in 1 .. Len(s)
  BY HeadTailProperties

\* One more message.
LEMMA Sent ==
    ASSUME NEW S, NEW s \in Seq(S), NEW m \in S
    PROVE  /\ Append(s, m) \in Seq(S) /\ Len(s) \in Nat /\ Len(Append(s, m)) = Len(s) + 1
           /\ \A i \in 1 .. Len(s) : Append(s, m)[i] = s[i]
           /\ Append(s, m)[Len(s) + 1] = m
  BY AppendProperties

\* What the types say of one message.
LEMMA Parts ==
    ASSUME PaneType
    PROVE  /\ view.id \in Nat
           /\ \A i \in 1 .. Len(toHost) :
                 toHost[i].id \in Nat
                 /\ (toHost[i] # Search!OpenMessage => toHost[i] \in Requests)
           /\ \A s \in flying : s.request \in Requests /\ s.live \in BOOLEAN
           /\ \A i \in 1 .. Len(toView) :
                 toView[i] \in Answers /\ toView[i].request.id \in Nat
                 /\ toView[i].request.query \in Searches
                 /\ (toView[i].kind # "seed" => toView[i].request \in Requests)
<1>1. \A i \in 1 .. Len(toHost) : toHost[i] \in Requests \cup {Search!OpenMessage}
  BY DEF PaneType
<1>2. \A i \in 1 .. Len(toView) : toView[i] \in Answers
  BY DEF PaneType
<1>3. \A m \in Answers : /\ m.request.id \in Nat /\ m.request.query \in Searches
                         /\ m.kind # "seed" => m.request \in Requests
  BY DEF Answers, Requests
<1>4. \A m \in Requests \cup {Search!OpenMessage} : m.id \in Nat
  BY DEF Requests, Search!OpenMessage
<1>. QED BY <1>1, <1>2, <1>3, <1>4 DEF PaneType

\* The view makes a request, which is the current one then, or drops the one it has.
LEMMA Asking ==
    ASSUME PaneInv, NEW m \in Requests \cup {Search!OpenMessage},
           view'.id = view.id + 1, view'.pages = view.pages, view'.applied = view.applied,
           toHost' = Append(toHost, m), m # Search!OpenMessage => m.id = view.id + 1,
           ~ note'.cleared => ~ note.cleared /\ (m # Search!OpenMessage => Fits(m)),
           flying' = flying, toView' = toView \/ (toView # <<>> /\ toView' = Tail(toView)),
           PaneType'
    PROVE  PaneInv'
<1>0. PaneType /\ NoneLater /\ OutOnce /\ NextPage
  BY DEF PaneInv
<1>1. view.id \in Nat /\ m.id \in Nat /\ m.id <= view.id + 1
  BY <1>0, Parts DEF Requests, Search!OpenMessage
<1>2. /\ Len(toHost) \in Nat /\ Len(toHost') = Len(toHost) + 1
      /\ \A i \in 1 .. Len(toHost) : toHost'[i] = toHost[i]
      /\ toHost'[Len(toHost) + 1] = m
  <2>1. toHost \in Seq(Requests \cup {Search!OpenMessage})
    BY <1>0 DEF PaneType
  <2>. QED BY <2>1, Sent
<1>3. \A i \in 1 .. Len(toView') : \E j \in 1 .. Len(toView) : toView'[i] = toView[j]
  <2>1. toView \in Seq(Answers)
    BY <1>0 DEF PaneType
  <2>2. CASE toView' = toView
    BY <2>2
  <2>3. CASE toView # <<>> /\ toView' = Tail(toView)
    <3>1. \A i \in 1 .. Len(Tail(toView)) :
             Tail(toView)[i] = toView[i + 1] /\ i + 1 \in 1 .. Len(toView)
      BY <2>1, <2>3, Behind
    <3>. QED BY <2>3, <3>1
  <2>. QED BY <2>2, <2>3
<1>4. \A i : AtHost(i)' => i = Len(toHost) + 1 /\ m # Search!OpenMessage
  <2>. SUFFICES ASSUME NEW i, AtHost(i)'
                PROVE  i = Len(toHost) + 1 /\ m # Search!OpenMessage
    OBVIOUS
  <2>1. i \in 1 .. Len(toHost) + 1 /\ toHost'[i].id = view.id + 1 /\ toHost'[i] # Search!OpenMessage
    BY <1>2 DEF AtHost
  <2>2. ASSUME i \in 1 .. Len(toHost)
        PROVE  FALSE
    <3>1. toHost[i].id <= view.id /\ toHost[i].id = view.id + 1 /\ toHost[i].id \in Nat
      BY <1>0, <1>2, <2>1, <2>2, Parts DEF NoneLater
    <3>. QED BY <1>1, <3>1
  <2>. QED BY <1>2, <2>1, <2>2
<1>5. \A s : ~ Flies(s)'
  <2>. SUFFICES ASSUME NEW s \in flying, s.request.id = view.id + 1
                PROVE  FALSE
    BY DEF Flies
  <2>1. s.request.id <= view.id
    BY <1>0 DEF NoneLater
  <2>. QED BY <1>1, <2>1
<1>6. \A i : ~ AtView(i)'
  <2>. SUFFICES ASSUME NEW i, AtView(i)'
                PROVE  FALSE
    OBVIOUS
  <2>1. i \in 1 .. Len(toView') /\ toView'[i].kind = "results" /\ toView'[i].request.id = view.id + 1
    BY DEF AtView
  <2>2. PICK j \in 1 .. Len(toView) : toView'[i] = toView[j]
    BY <1>3, <2>1
  <2>3. toView[j].request.id <= view.id
    BY <1>0, <2>1, <2>2 DEF NoneLater
  <2>. QED BY <1>1, <2>1, <2>2, <2>3
<1>7. NoneLater'
  <2>1. ASSUME NEW i \in 1 .. Len(toHost')
        PROVE  toHost'[i].id <= view'.id
    <3>1. CASE i \in 1 .. Len(toHost)
      <4>1. toHost[i].id <= view.id /\ toHost[i].id \in Nat
        BY <1>0, <3>1, Parts DEF NoneLater
      <4>. QED BY <1>1, <1>2, <3>1, <4>1
    <3>2. CASE i = Len(toHost) + 1
      BY <1>1, <1>2, <3>2
    <3>. QED BY <1>2, <3>1, <3>2
  <2>2. ASSUME NEW s \in flying
        PROVE  s.request.id <= view'.id
    <3>1. s.request.id <= view.id /\ s.request.id \in Nat
      BY <1>0, Parts DEF NoneLater, Requests
    <3>. QED BY <1>1, <3>1
  <2>3. ASSUME NEW i \in 1 .. Len(toView'), toView'[i].kind = "results"
        PROVE  toView'[i].request.id <= view'.id
    <3>1. PICK j \in 1 .. Len(toView) : toView'[i] = toView[j]
      BY <1>3
    <3>2. toView[j].request.id <= view.id /\ toView[j].request.id \in Nat
      BY <1>0, <2>3, <3>1, Parts DEF NoneLater
    <3>. QED BY <1>1, <3>1, <3>2
  <2>. QED BY <2>1, <2>2, <2>3 DEF NoneLater
<1>8. OutOnce'
  BY <1>4, <1>5, <1>6 DEF OutOnce
<1>9. NextPage'
  <2>1. ASSUME ~ note'.cleared, NEW i, AtHost(i)'
        PROVE  Fits(toHost[i])'
    BY <1>2, <1>4, <2>1 DEF Fits
  <2>. QED BY <1>5, <1>6, <2>1 DEF NextPage
<1>10. PagesThere' /\ Search!PagesContiguous'
  BY DEF PaneInv, PagesThere, Search!PagesContiguous
<1>. QED BY <1>7, <1>8, <1>9, <1>10 DEF PaneInv

\* A current request, wherever it is.
Out(r) == \/ \E i : AtHost(i) /\ toHost[i] = r
          \/ \E s : Flies(s) /\ s.request = r
          \/ \E i : AtView(i) /\ toView[i].request = r

\* The messages move, the pane stays.
LEMMA Moving ==
    ASSUME PaneInv, PaneType', NoneLater', OutOnce',
           view'.id = view.id, view'.pages = view.pages, view'.applied = view.applied,
           ~ note'.cleared => ~ note.cleared,
           \A i : AtHost(i)' => Out(toHost'[i]),
           \A s : Flies(s)' => Out(s.request),
           \A i : AtView(i)' => Out(toView'[i].request)
    PROVE  PaneInv'
<1>1. ASSUME ~ note'.cleared, NEW r, Out(r)
      PROVE  Fits(r)'
  <2>1. Fits(r)
    BY <1>1 DEF PaneInv, NextPage, Out
  <2>. QED BY <2>1 DEF Fits
<1>2. NextPage'
  BY <1>1 DEF NextPage
<1>3. PagesThere' /\ Search!PagesContiguous'
  BY DEF PaneInv, PagesThere, Search!PagesContiguous
<1>. QED BY <1>2, <1>3 DEF PaneInv

\* The host sends what is not an answer with hits.
LEMMA NotHits ==
    ASSUME PaneType, UNCHANGED view,
           \/ toView' = toView
           \/ \E m \in Answers : m.kind # "results" /\ toView' = Append(toView, m)
    PROVE  /\ \A i : AtView(i)' <=> AtView(i)
           /\ \A i : AtView(i) => toView'[i] = toView[i]
           /\ NoneLater => \A i \in 1 .. Len(toView') : toView'[i].kind = "results" =>
                               toView'[i].request.id <= view.id
<1>1. toView \in Seq(Answers) /\ Len(toView) \in Nat
  BY DEF PaneType
<1>2. CASE toView' = toView
  BY <1>2 DEF AtView, NoneLater
<1>3. ASSUME NEW m \in Answers, m.kind # "results", toView' = Append(toView, m)
      PROVE  /\ \A i : AtView(i)' <=> AtView(i)
             /\ \A i : AtView(i) => toView'[i] = toView[i]
             /\ NoneLater => \A i \in 1 .. Len(toView') : toView'[i].kind = "results" =>
                                 toView'[i].request.id <= view.id
  <2>1. /\ Len(toView') = Len(toView) + 1 /\ toView'[Len(toView) + 1] = m
        /\ \A i \in 1 .. Len(toView) : toView'[i] = toView[i]
    BY <1>1, <1>3, Sent
  <2>2. \A i \in 1 .. Len(toView') : i \in 1 .. Len(toView) \/ i = Len(toView) + 1
    BY <1>1, <2>1
  <2>3. 1 .. Len(toView) \subseteq 1 .. Len(toView')
    BY <1>1, <2>1
  <2>. QED BY <2>1, <2>2, <2>3 DEF AtView, NoneLater
<1>. QED BY <1>2, <1>3

\* What was begun is given up.
Dropped(s) == [s EXCEPT !.live = FALSE]

LEMMA Given ==
    ASSUME PaneType, NEW s \in Search!GivenUp
    PROVE  \E t \in flying : s = Dropped(t) /\ s.request = t.request /\ s.request \in Requests
<1>1. PICK t \in flying : s = [t EXCEPT !.live = FALSE]
  BY DEF Search!GivenUp
<1>2. t \in [request : Requests, live : BOOLEAN]
  BY DEF PaneType
<1>. QED BY <1>1, <1>2 DEF Dropped

LEMMA GivenType == PaneType => Search!GivenUp \subseteq [request : Requests, live : BOOLEAN]
<1>. SUFFICES ASSUME PaneType, NEW t \in flying
              PROVE  [t EXCEPT !.live = FALSE] \in [request : Requests, live : BOOLEAN]
  BY DEF Search!GivenUp
<1>1. t \in [request : Requests, live : BOOLEAN]
  BY DEF PaneType
<1>. QED BY <1>1

\* The host takes a message.
LEMMA Received ==
    ASSUME PaneInv, PaneType', Search!HostReceives
    PROVE  PaneInv'
<1>. DEFINE r == Head(toHost)
<1>0. PaneType /\ NoneLater /\ OutOnce
  BY DEF PaneInv
<1>1. /\ toHost # <<>> /\ toHost' = Tail(toHost) /\ UNCHANGED <<view, note>>
      /\ \/ r = Search!OpenMessage /\ flying' = Search!GivenUp /\ toView' = toView
         \/ /\ r # Search!OpenMessage /\ flying' = flying
            /\ toView' = Append(toView, [kind |-> "error", request |-> r])
         \/ /\ r # Search!OpenMessage
            /\ flying' = Search!GivenUp \cup {[request |-> r, live |-> TRUE]}
            /\ \/ toView' = Append(toView, [kind |-> "progress", request |-> r])
               \/ toView' = toView
  BY DEF Search!HostReceives, Search!NotReady, Search!Send
<1>2. /\ r = toHost[1] /\ Len(toHost) \in Nat \ {0} /\ Len(toHost') = Len(toHost) - 1
      /\ \A i \in 1 .. Len(toHost') : toHost'[i] = toHost[i + 1] /\ i + 1 \in 1 .. Len(toHost)
  <2>1. toHost \in Seq(Requests \cup {Search!OpenMessage})
    BY <1>0 DEF PaneType
  <2>. QED BY <1>1, <2>1, Behind
<1>3. r # Search!OpenMessage => r \in Requests
  BY <1>0, <1>2, Parts
<1>. HIDE DEF r
<1>4. /\ \A i : AtView(i)' <=> AtView(i)
      /\ \A i : AtView(i) => toView'[i] = toView[i]
      /\ \A i \in 1 .. Len(toView') : toView'[i].kind = "results" =>
             toView'[i].request.id <= view.id
  <2>1. r \in Requests => [kind |-> "error", request |-> r] \in Answers
                    /\ [kind |-> "progress", request |-> r] \in Answers
    BY DEF Answers
  <2>2. \/ toView' = toView
        \/ \E m \in Answers : m.kind # "results" /\ toView' = Append(toView, m)
    BY <1>1, <1>3, <2>1
  <2>. QED BY <1>0, <1>1, <2>2, NotHits
<1>5. \A i : AtHost(i)' => AtHost(i + 1) /\ toHost'[i] = toHost[i + 1] /\ i \in Nat \ {0}
  BY <1>1, <1>2 DEF AtHost
<1>6. /\ \A s : Flies(s)' => \/ \E t : Flies(t) /\ s.request = t.request
                             \/ s.request = r /\ AtHost(1)
      /\ \A s, t : Flies(s)' /\ Flies(t)' => s = t
  <2>1. CASE flying' = flying
    BY <1>0, <1>1, <2>1 DEF Flies, OutOnce
  <2>2. CASE flying' \subseteq Search!GivenUp \cup {[request |-> r, live |-> TRUE]} /\ r # Search!OpenMessage
    <3>. DEFINE new == [request |-> r, live |-> TRUE]
    <3>0. new.request = r /\ flying' \subseteq Search!GivenUp \cup {new}
      BY <2>2
    <3>. HIDE DEF new
    <3>1. \A s : Flies(s)' => \/ \E t : Flies(t) /\ s = Dropped(t) /\ s.request = t.request
                              \/ s = new /\ AtHost(1)
      <4>. SUFFICES ASSUME NEW s, Flies(s)'
                    PROVE  \/ \E t : Flies(t) /\ s = Dropped(t) /\ s.request = t.request
                           \/ s = new /\ AtHost(1)
        OBVIOUS
      <4>0. s \in flying' /\ s.request.id = view.id
        BY <1>1 DEF Flies
      <4>1. CASE s \in Search!GivenUp
        <5>1. PICK t \in flying : s = Dropped(t) /\ s.request = t.request
          BY <1>0, <4>1, Given
        <5>. QED BY <4>0, <5>1 DEF Flies
      <4>2. CASE s = new
        BY <1>2, <2>2, <3>0, <4>0, <4>2 DEF AtHost
      <4>. QED BY <3>0, <4>0, <4>1, <4>2
    <3>2. AtHost(1) => \A t : ~ Flies(t)
      BY <1>0 DEF OutOnce
    <3>3. \A s, t : Flies(s) /\ Flies(t) => s = t
      BY <1>0 DEF OutOnce
    <3>4. ASSUME NEW s, NEW t, Flies(s)', Flies(t)'
          PROVE  s = t
      <4>1. CASE AtHost(1)
        BY <3>1, <3>2, <3>4, <4>1
      <4>2. CASE ~ AtHost(1)
        <5>1. PICK p : Flies(p) /\ s = Dropped(p)
          BY <3>1, <3>4, <4>2
        <5>2. PICK q : Flies(q) /\ t = Dropped(q)
          BY <3>1, <3>4, <4>2
        <5>3. p = q
          BY <3>3, <5>1, <5>2
        <5>. QED BY <5>1, <5>2, <5>3
      <4>. QED BY <4>1, <4>2
    <3>5. \A s : Flies(s)' => \/ \E t : Flies(t) /\ s.request = t.request
                              \/ s.request = r /\ AtHost(1)
      BY <3>0, <3>1
    <3>. QED BY <3>4, <3>5
  <2>3. CASE flying' = Search!GivenUp
    <3>1. \A s : Flies(s)' => \E t : Flies(t) /\ s = Dropped(t) /\ s.request = t.request
      <4>. SUFFICES ASSUME NEW s, Flies(s)'
                    PROVE  \E t : Flies(t) /\ s = Dropped(t) /\ s.request = t.request
        OBVIOUS
      <4>0. s \in Search!GivenUp /\ s.request.id = view.id
        BY <1>1, <2>3 DEF Flies
      <4>1. PICK t \in flying : s = Dropped(t) /\ s.request = t.request
        BY <1>0, <4>0, Given
      <4>. QED BY <4>0, <4>1 DEF Flies
    <3>2. \A s, t : Flies(s) /\ Flies(t) => s = t
      BY <1>0 DEF OutOnce
    <3>3. ASSUME NEW s, NEW t, Flies(s)', Flies(t)'
          PROVE  s = t
      BY <3>1, <3>2, <3>3
    <3>. QED BY <3>1, <3>3
  <2>. QED BY <1>1, <2>1, <2>2, <2>3
<1>7. \A i, j : AtHost(i)' /\ AtHost(j)' => i = j
  BY <1>0, <1>5 DEF OutOnce
<1>8. \A i : AtHost(i)' => ~ AtHost(1)
  <2>1. \A i \in Nat \ {0} : i + 1 # 1
    OBVIOUS
  <2>. QED BY <1>0, <1>5, <2>1 DEF OutOnce
<1>9. OutOnce'
  BY <1>0, <1>4, <1>5, <1>6, <1>7, <1>8 DEF OutOnce
<1>10. NoneLater'
  <2>1. \A i \in 1 .. Len(toHost') : toHost'[i].id <= view.id
    BY <1>0, <1>2 DEF NoneLater
  <2>2. ASSUME NEW s \in flying'
        PROVE  s.request.id <= view.id
    <3>1. CASE s \in Search!GivenUp
      BY <1>0, <3>1, Given DEF NoneLater
    <3>2. CASE s = [request |-> r, live |-> TRUE]
      BY <1>0, <1>2, <3>2 DEF NoneLater
    <3>. QED BY <1>0, <1>1, <2>2, <3>1, <3>2 DEF NoneLater
  <2>. QED BY <1>1, <1>4, <2>1, <2>2 DEF NoneLater
<1>11. /\ \A i : AtHost(i)' => Out(toHost'[i])
       /\ \A s : Flies(s)' => Out(s.request)
       /\ \A i : AtView(i)' => Out(toView'[i].request)
  BY <1>2, <1>4, <1>5, <1>6 DEF Out
<1>. QED BY <1>1, <1>9, <1>10, <1>11, Moving

\* A search has its turn.
LEMMA Answered ==
    ASSUME PaneInv, PaneType', Search!Answer
    PROVE  PaneInv'
<1>0. PaneType /\ NoneLater /\ OutOnce
  BY DEF PaneInv
<1>1. PICK s \in flying :
         /\ flying' = flying \ {s} /\ UNCHANGED <<view, toHost, note>>
         /\ \/ toView' = Append(toView, [kind |-> "results", request |-> s.request])
            \/ toView' = Append(toView, [kind |-> "error", request |-> s.request])
            \/ toView' = toView
  BY DEF Search!Answer, Search!Send
<1>2. s.request \in Requests /\ s.request.id <= view.id
  BY <1>0, Parts DEF NoneLater
<1>3. /\ \A i : AtHost(i)' <=> AtHost(i)
      /\ \A t : Flies(t)' => Flies(t) /\ t # s
  BY <1>1 DEF AtHost, Flies
<1>4. \A i \in 1 .. Len(toHost) : toHost[i].id <= view.id
  BY <1>0 DEF NoneLater
<1>5. CASE toView' = Append(toView, [kind |-> "results", request |-> s.request])
  <2>. DEFINE m == [kind |-> "results", request |-> s.request]
  <2>1. toView \in Seq(Answers) /\ m \in Answers /\ m.kind = "results" /\ m.request = s.request
    BY <1>0, <1>2 DEF PaneType, Answers
  <2>. HIDE DEF m
  <2>2. /\ Len(toView) \in Nat /\ Len(toView') = Len(toView) + 1 /\ toView'[Len(toView) + 1] = m
        /\ \A i \in 1 .. Len(toView) : toView'[i] = toView[i]
    <3>1. toView' = Append(toView, m)
      BY <1>5 DEF m
    <3>. QED BY <2>1, <3>1, Sent
  <2>3. \A i : AtView(i)' => \/ AtView(i) /\ toView'[i] = toView[i]
                             \/ i = Len(toView) + 1 /\ toView'[i] = m /\ Flies(s)
    <3>. SUFFICES ASSUME NEW i, AtView(i)'
                  PROVE  \/ AtView(i) /\ toView'[i] = toView[i]
                         \/ i = Len(toView) + 1 /\ toView'[i] = m /\ Flies(s)
      OBVIOUS
    <3>1. i \in 1 .. Len(toView) + 1 /\ toView'[i].kind = "results" /\ toView'[i].request.id = view.id
      BY <1>1, <2>2 DEF AtView
    <3>2. CASE i \in 1 .. Len(toView)
      BY <2>2, <3>1, <3>2 DEF AtView
    <3>3. CASE i = Len(toView) + 1
      BY <2>1, <2>2, <3>1, <3>3 DEF Flies
    <3>. QED BY <2>2, <3>1, <3>2, <3>3
  <2>4. OutOnce'
    BY <1>0, <1>3, <2>3 DEF OutOnce
  <2>5. NoneLater'
    <3>1. ASSUME NEW i \in 1 .. Len(toView'), toView'[i].kind = "results"
          PROVE  toView'[i].request.id <= view.id
      <4>1. CASE i \in 1 .. Len(toView)
        BY <1>0, <2>2, <3>1, <4>1 DEF NoneLater
      <4>2. CASE i = Len(toView) + 1
        BY <1>2, <2>1, <2>2, <4>2
      <4>. QED BY <2>2, <4>1, <4>2
    <3>. QED BY <1>0, <1>1, <3>1 DEF NoneLater
  <2>6. /\ \A i : AtHost(i)' => Out(toHost'[i])
        /\ \A t : Flies(t)' => Out(t.request)
        /\ \A i : AtView(i)' => Out(toView'[i].request)
    BY <1>1, <1>3, <2>1, <2>3 DEF Out
  <2>. QED BY <1>1, <2>4, <2>5, <2>6, Moving
<1>6. CASE toView' = Append(toView, [kind |-> "error", request |-> s.request]) \/ toView' = toView
  <2>1. \/ toView' = toView
        \/ \E m \in Answers : m.kind # "results" /\ toView' = Append(toView, m)
    <3>1. [kind |-> "error", request |-> s.request] \in Answers
      BY <1>2 DEF Answers
    <3>. QED BY <1>6, <3>1
  <2>2. /\ \A i : AtView(i)' <=> AtView(i)
        /\ \A i : AtView(i) => toView'[i] = toView[i]
        /\ \A i \in 1 .. Len(toView') : toView'[i].kind = "results" =>
               toView'[i].request.id <= view.id
    BY <1>0, <1>1, <2>1, NotHits
  <2>3. OutOnce'
    BY <1>0, <1>3, <2>2 DEF OutOnce
  <2>4. NoneLater'
    BY <1>0, <1>1, <2>2 DEF NoneLater
  <2>5. /\ \A i : AtHost(i)' => Out(toHost'[i])
        /\ \A t : Flies(t)' => Out(t.request)
        /\ \A i : AtView(i)' => Out(toView'[i].request)
    BY <1>1, <1>3, <2>2 DEF Out
  <2>. QED BY <1>1, <2>3, <2>4, <2>5, Moving
<1>. QED BY <1>1, <1>5, <1>6

\* The view takes an answer.
LEMMA Taken ==
    ASSUME PaneInv, PaneType', Search!ViewAnswered
    PROVE  PaneInv'
<1>. DEFINE m == Head(toView)
            r == m.request
<1>0. PaneType /\ NoneLater /\ OutOnce
  BY DEF PaneInv
<1>1. /\ toView # <<>> /\ m.kind # "seed" /\ toView' = Tail(toView)
      /\ UNCHANGED <<toHost, flying, note>>
  BY DEF Search!ViewAnswered, Search!HostAlone
<1>2. /\ m = toView[1] /\ Len(toView) \in Nat \ {0} /\ Len(toView') = Len(toView) - 1
      /\ \A i \in 1 .. Len(toView') : toView'[i] = toView[i + 1] /\ i + 1 \in 1 .. Len(toView)
  <2>1. toView \in Seq(Answers)
    BY <1>0 DEF PaneType
  <2>. QED BY <1>1, <2>1, Behind
<1>3. m \in Answers /\ r \in Requests /\ view.id \in Nat
  BY <1>0, <1>1, <1>2, Parts
<1>4. view' = CASE m.kind = "error" -> [view EXCEPT !.loading = FALSE, !.more = FALSE]
                [] m.kind = "progress" /\ ~ Search!Stale(r) -> [view EXCEPT !.loading = TRUE]
                [] m.kind = "results" /\ ~ Search!Stale(r) ->
                       [pages |-> Search!Shown(r), applied |-> r.query,
                        truncated |-> r.page + 1 < Pages,
                        loading |-> FALSE, more |-> FALSE, id |-> view.id]
                [] OTHER -> view
  BY DEF Search!ViewAnswered
<1>5. view'.id = view.id
  BY <1>0, <1>4 DEF PaneType
<1>. HIDE DEF m
<1>6. /\ \A i : AtHost(i)' <=> AtHost(i)
      /\ \A s : Flies(s)' <=> Flies(s)
      /\ \A i : AtView(i)' => AtView(i + 1) /\ toView'[i] = toView[i + 1] /\ i \in Nat \ {0}
  BY <1>1, <1>2, <1>5 DEF AtHost, Flies, AtView
<1>7. \A i, j : AtView(i)' /\ AtView(j)' => i = j
  BY <1>0, <1>6 DEF OutOnce
<1>8. OutOnce'
  BY <1>0, <1>6, <1>7 DEF OutOnce
<1>9. NoneLater'
  BY <1>0, <1>1, <1>2, <1>5 DEF NoneLater
<1>10. CASE m.kind = "results" /\ ~ Search!Stale(r)
  <2>1. AtView(1) /\ r.id = view.id
    <3>1. r.id <= view.id
      BY <1>0, <1>2, <1>10 DEF NoneLater
    <3>2. r.id = view.id
      BY <1>3, <1>10, <3>1 DEF Search!Stale, Requests
    <3>. QED BY <1>2, <1>10, <3>2 DEF AtView
  <2>2. /\ \A i : ~ AtHost(i)' /\ ~ AtView(i)'
        /\ \A s : ~ Flies(s)'
    <3>1. \A i \in Nat \ {0} : i + 1 # 1
      OBVIOUS
    <3>. QED BY <1>0, <1>6, <2>1, <3>1 DEF OutOnce
  <2>3. NextPage'
    BY <2>2 DEF NextPage
  <2>4. view'.pages = Search!Shown(r) /\ view'.applied = r.query
    BY <1>4, <1>10
  <2>5. /\ Search!Shown(r) # <<>>
        /\ ~ note.cleared => \A i \in DOMAIN Search!Shown(r) :
              Search!Shown(r)[i] = [query |-> r.query, page |-> i - 1]
    <3>. DEFINE page == [query |-> r.query, page |-> r.page]
    <3>1. CASE r.page > 0 /\ r.query = view.applied
      <4>1. view.pages \in Seq([query : Searches, page : Nat]) /\ page \in [query : Searches, page : Nat]
        BY <1>0, <1>3 DEF PaneType, Requests
      <4>2. Search!Shown(r) = Append(view.pages, page)
        BY <3>1 DEF Search!Shown
      <4>. HIDE DEF page
      <4>3. /\ Len(Append(view.pages, page)) = Len(view.pages) + 1 /\ Len(view.pages) \in Nat
            /\ Append(view.pages, page) \in Seq([query : Searches, page : Nat])
            /\ Append(view.pages, page)[Len(view.pages) + 1] = page
            /\ \A i \in 1 .. Len(view.pages) : Append(view.pages, page)[i] = view.pages[i]
        BY <4>1, Sent
      <4>4. ASSUME ~ note.cleared, NEW i \in 1 .. Len(view.pages) + 1
            PROVE  Append(view.pages, page)[i] = [query |-> r.query, page |-> i - 1]
        <5>1. CASE i \in 1 .. Len(view.pages)
          <6>1. i \in DOMAIN view.pages
            BY <4>1, <5>1
          <6>2. view.pages[i] = [query |-> view.applied, page |-> i - 1]
            BY <4>4, <6>1 DEF PaneInv, Search!PagesContiguous
          <6>. QED BY <3>1, <4>3, <5>1, <6>2
        <5>2. CASE i = Len(view.pages) + 1
          <6>1. r.page = Len(view.pages)
            BY <1>2, <2>1, <3>1, <4>4 DEF PaneInv, NextPage, Fits
          <6>2. i - 1 = Len(view.pages)
            BY <4>3, <5>2
          <6>. QED BY <4>3, <5>2, <6>1, <6>2 DEF page
        <5>. QED BY <4>3, <5>1, <5>2
      <4>5. DOMAIN Append(view.pages, page) = 1 .. Len(view.pages) + 1
        BY <4>3
      <4>6. Append(view.pages, page) # <<>>
        <5>. DEFINE more == Append(view.pages, page)
        <5>1. Len(more) = Len(view.pages) + 1 /\ Len(view.pages) \in Nat
          BY <4>3
        <5>. HIDE DEF more
        <5>2. more # <<>>
          BY <5>1
        <5>. QED BY <5>2 DEF more
      <4>. QED BY <4>2, <4>4, <4>5, <4>6
    <3>2. CASE r.page = 0
      BY <1>3, <3>2 DEF Search!Shown
    <3>3. CASE r.page > 0 /\ r.query # view.applied
      <4>1. note.cleared
        BY <1>2, <2>1, <3>3 DEF PaneInv, NextPage, Fits
      <4>. QED BY <3>3, <4>1 DEF Search!Shown
    <3>. QED BY <1>3, <3>1, <3>2, <3>3 DEF Requests
  <2>6. PagesThere' /\ Search!PagesContiguous'
    BY <1>1, <2>4, <2>5 DEF PagesThere, Search!PagesContiguous
  <2>. QED BY <1>8, <1>9, <2>3, <2>6 DEF PaneInv
<1>11. CASE ~ (m.kind = "results" /\ ~ Search!Stale(r))
  <2>1. view'.pages = view.pages /\ view'.applied = view.applied
    BY <1>0, <1>4, <1>11 DEF PaneType
  <2>2. /\ \A i : AtHost(i)' => Out(toHost'[i])
        /\ \A s : Flies(s)' => Out(s.request)
        /\ \A i : AtView(i)' => Out(toView'[i].request)
    BY <1>1, <1>6 DEF Out
  <2>. QED BY <1>1, <1>5, <1>8, <1>9, <2>1, <2>2, Moving
<1>. QED BY <1>10, <1>11

\* The box is emptied.
LEMMA Emptied ==
    ASSUME PaneInv, PaneType', Search!Clear
    PROVE  PaneInv'
<1>0. PaneType /\ NoneLater /\ OutOnce
  BY DEF PaneInv
<1>1. /\ view' = [Search!NoHits EXCEPT !.id = view.id] /\ UNCHANGED <<toHost, toView, flying>>
      /\ note' = [note EXCEPT !.cleared = @ \/ Search!CurrentIsOut]
  BY DEF Search!Clear, Search!HostAlone
<1>2. view'.id = view.id /\ view'.pages = <<>> /\ view'.applied = None
  BY <1>1 DEF Search!NoHits
<1>3. /\ \A i : AtHost(i)' <=> AtHost(i)
      /\ \A s : Flies(s)' <=> Flies(s)
      /\ \A i : AtView(i)' <=> AtView(i)
  BY <1>1, <1>2 DEF AtHost, Flies, AtView
<1>4. OutOnce' /\ NoneLater'
  BY <1>0, <1>1, <1>2, <1>3 DEF OutOnce, NoneLater
<1>5. ASSUME ~ note'.cleared
      PROVE  (\A i : ~ AtHost(i) /\ ~ AtView(i)) /\ \A s : ~ Flies(s)
  <2>1. ~ Search!CurrentIsOut
    BY <1>0, <1>1, <1>5 DEF PaneType
  <2>2. DOMAIN toHost = 1 .. Len(toHost) /\ DOMAIN toView = 1 .. Len(toView)
    BY <1>0 DEF PaneType
  <2>. QED BY <2>1, <2>2 DEF Search!CurrentIsOut, AtHost, AtView, Flies
<1>6. NextPage' /\ PagesThere' /\ Search!PagesContiguous'
  BY <1>2, <1>3, <1>5 DEF NextPage, PagesThere, Search!PagesContiguous
<1>. QED BY <1>4, <1>6 DEF PaneInv

\* What a new request of the view changes.
Views == [pages : Seq([query : Searches, page : Nat]), applied : Search!Texts,
          truncated : BOOLEAN, loading : BOOLEAN, more : BOOLEAN, id : Nat]
Notes == [lost : BOOLEAN, cleared : BOOLEAN]

LEMMA AskType ==
    ASSUME PaneType, NEW query \in Searches, NEW page \in Nat, Search!Ask(query, page)
    PROVE  /\ view' \in Views /\ note' \in Notes
           /\ toHost' \in Seq(Requests \cup {Search!OpenMessage})
           /\ note'.cleared = note.cleared
           /\ view'.id = view.id + 1 /\ view'.pages = view.pages /\ view'.applied = view.applied
           /\ \E m \in Requests : /\ m.id = view.id + 1 /\ m.query = query /\ m.page = page
                               /\ toHost' = Append(toHost, m)
<1>. DEFINE l == page = 0
            n == page > 0
            m == [id |-> view.id + 1, query |-> query, page |-> page]
<1>1. /\ view' = [view EXCEPT !.id = @ + 1, !.loading = l, !.more = n]
      /\ toHost' = Append(toHost, m) /\ note' = [note EXCEPT !.lost = FALSE]
  BY DEF Search!Ask
<1>2. view \in Views /\ note \in Notes /\ toHost \in Seq(Requests \cup {Search!OpenMessage})
  BY DEF PaneType, Views, Notes
<1>3. view.id + 1 \in Nat \ {0} /\ l \in BOOLEAN /\ n \in BOOLEAN
  BY <1>2 DEF Views
<1>4. m \in Requests /\ m.id = view.id + 1 /\ m.query = query /\ m.page = page
  BY <1>3 DEF Requests
<1>. HIDE DEF l, n, m
<1>5. view' \in Views
  <2>. DEFINE v == [view EXCEPT !.loading = l]
              w == [v EXCEPT !.more = n]
  <2>1. v \in Views /\ v.id = view.id
    BY <1>2, <1>3 DEF Views
  <2>. HIDE DEF v
  <2>2. w \in Views /\ w.id = view.id
    BY <1>3, <2>1 DEF Views
  <2>3. view' = [w EXCEPT !.id = view.id + 1]
    BY <1>1, <1>2 DEF v, Views
  <2>. HIDE DEF w
  <2>. QED BY <1>3, <2>2, <2>3 DEF Views
<1>6. view'.id = view.id + 1 /\ view'.pages = view.pages /\ view'.applied = view.applied
  BY <1>1, <1>2 DEF Views
<1>7. note' \in Notes /\ note'.cleared = note.cleared
  BY <1>1, <1>2 DEF Notes
<1>8. toHost' \in Seq(Requests \cup {Search!OpenMessage})
  BY <1>1, <1>2, <1>4, Sent
<1>. QED BY <1>1, <1>4, <1>5, <1>6, <1>7, <1>8

\* The timer runs out; more is asked for; the view is seeded.
LEMMA Requested ==
    ASSUME PaneInv, Search!Search \/ Search!LoadMore \/ Search!ViewSeeded
    PROVE  PaneInv'
<1>0. PaneType /\ view \in Views /\ Len(view.pages) \in Nat
  BY DEF PaneInv, PaneType, Views
<1>1. box \in [query : Search!Texts, timer : Search!Texts]
  BY <1>0 DEF PaneType
<1>2. flying' = flying
  BY DEF Search!Search, Search!LoadMore, Search!ViewSeeded, Search!HostAlone
<1>3. CASE Search!Search
  <2>1. box.timer \in Searches /\ Search!Ask(box.timer, 0) /\ toView' = toView
    BY <1>1, <1>3 DEF Search!Search, Search!Texts
  <2>2. PICK m \in Requests : m.id = view.id + 1 /\ m.page = 0 /\ toHost' = Append(toHost, m)
    BY <1>0, <2>1, AskType
  <2>3. box' \in [query : Search!Texts, timer : Search!Texts]
    BY <1>1, <1>3 DEF Search!Search, Search!Texts
  <2>4. /\ view' \in Views /\ note' \in Notes
        /\ toHost' \in Seq(Requests \cup {Search!OpenMessage})
        /\ note'.cleared = note.cleared
        /\ view'.id = view.id + 1 /\ view'.pages = view.pages /\ view'.applied = view.applied
    BY <1>0, <2>1, AskType
  <2>5. PaneType'
    BY <1>0, <1>2, <2>1, <2>3, <2>4 DEF PaneType, Views, Notes
  <2>6. Fits(m)
    BY <2>2 DEF Fits
  <2>. QED BY <1>2, <2>1, <2>2, <2>4, <2>5, <2>6, Asking
<1>4. CASE Search!LoadMore
  <2>. DEFINE page == view.pages[Len(view.pages)].page + 1
  <2>1. view.applied \in Searches /\ Search!Ask(view.applied, page) /\ UNCHANGED <<box, toView>>
    BY <1>0, <1>4 DEF Search!LoadMore, Search!MayLoadMore, Search!Texts, Views
  <2>2. Len(view.pages) \in DOMAIN view.pages
    <3>1. view.pages # <<>>
      BY <1>4 DEF PaneInv, PagesThere, Search!LoadMore, Search!MayLoadMore
    <3>. QED BY <1>0, <3>1 DEF Views
  <2>3. page \in Nat
    <3>1. view.pages \in Seq([query : Searches, page : Nat])
      BY <1>0 DEF Views
    <3>2. ASSUME NEW S, NEW s \in Seq(S), NEW i \in DOMAIN s
          PROVE  s[i] \in S
      OBVIOUS
    <3>3. view.pages[Len(view.pages)] \in [query : Searches, page : Nat]
      BY <2>2, <3>1, <3>2
    <3>. QED BY <3>3
  <2>4. ~ note.cleared => page = Len(view.pages)
    <3>1. ASSUME ~ note.cleared
          PROVE  view.pages[Len(view.pages)]
                   = [query |-> view.applied, page |-> Len(view.pages) - 1]
      BY <2>2, <3>1 DEF PaneInv, Search!PagesContiguous
    <3>2. ~ note.cleared => view.pages[Len(view.pages)].page = Len(view.pages) - 1
      BY <3>1
    <3>. QED BY <1>0, <3>2
  <2>. HIDE DEF page
  <2>5. PICK m \in Requests : /\ m.id = view.id + 1 /\ m.query = view.applied /\ m.page = page
                           /\ toHost' = Append(toHost, m)
    BY <1>0, <2>1, <2>3, AskType
  <2>6. /\ view' \in Views /\ note' \in Notes
        /\ toHost' \in Seq(Requests \cup {Search!OpenMessage})
        /\ note'.cleared = note.cleared
        /\ view'.id = view.id + 1 /\ view'.pages = view.pages /\ view'.applied = view.applied
    BY <1>0, <2>1, <2>3, AskType
  <2>7. PaneType'
    BY <1>0, <1>2, <2>1, <2>6 DEF PaneType, Views, Notes
  <2>8. ~ note.cleared => Fits(m)
    BY <2>4, <2>5 DEF Fits
  <2>. QED BY <1>2, <2>1, <2>5, <2>6, <2>7, <2>8, Asking
<1>5. CASE Search!ViewSeeded
  <2>. DEFINE q == Head(toView).request.query
  <2>1. /\ toView # <<>> /\ toView' = Tail(toView) /\ Search!Ask(q, 0)
        /\ box' = [box EXCEPT !.query = q]
    BY <1>5 DEF Search!ViewSeeded
  <2>2. toView' \in Seq(Answers) /\ Head(toView) \in Answers
    <3>1. toView \in Seq(Answers)
      BY <1>0 DEF PaneType
    <3>. QED BY <2>1, <3>1, Behind
  <2>3. q \in Searches
    BY <2>2 DEF Answers, Requests
  <2>. HIDE DEF q
  <2>4. box' \in [query : Search!Texts, timer : Search!Texts]
    BY <1>1, <2>1, <2>3 DEF Search!Texts
  <2>5. PICK m \in Requests : m.id = view.id + 1 /\ m.page = 0 /\ toHost' = Append(toHost, m)
    BY <1>0, <2>1, <2>3, AskType
  <2>6. /\ view' \in Views /\ note' \in Notes
        /\ toHost' \in Seq(Requests \cup {Search!OpenMessage})
        /\ note'.cleared = note.cleared
        /\ view'.id = view.id + 1 /\ view'.pages = view.pages /\ view'.applied = view.applied
    BY <1>0, <2>1, <2>3, AskType
  <2>7. PaneType'
    BY <1>0, <1>2, <2>2, <2>4, <2>6 DEF PaneType, Views, Notes
  <2>8. Fits(m)
    BY <2>5 DEF Fits
  <2>. QED BY <1>2, <2>1, <2>5, <2>6, <2>7, <2>8, Asking
<1>. QED BY <1>3, <1>4, <1>5

\* A hit is opened.
LEMMA Opened ==
    ASSUME PaneInv, Search!OpenIdea
    PROVE  PaneInv'
<1>0. PaneType /\ view \in Views /\ note \in Notes
  BY DEF PaneInv, PaneType, Views, Notes
<1>1. /\ view' = [view EXCEPT !.id = @ + 1, !.loading = FALSE]
      /\ toHost' = Append(toHost, Search!OpenMessage) /\ note' = [note EXCEPT !.lost = view.more]
      /\ box' = [box EXCEPT !.timer = None] /\ UNCHANGED <<toView, flying>>
  BY DEF Search!OpenIdea, Search!HostAlone
<1>2. view' \in Views /\ view'.id = view.id + 1 /\ view'.pages = view.pages /\ view'.applied = view.applied
  <2>. DEFINE v == [view EXCEPT !.loading = FALSE]
  <2>1. v \in Views /\ v.id = view.id /\ v.pages = view.pages /\ v.applied = view.applied
    BY <1>0 DEF Views
  <2>2. view' = [v EXCEPT !.id = view.id + 1]
    BY <1>0, <1>1 DEF Views
  <2>3. view.id + 1 \in Nat
    BY <1>0 DEF Views
  <2>. HIDE DEF v
  <2>. QED BY <2>1, <2>2, <2>3 DEF Views
<1>3. note' \in Notes /\ note'.cleared = note.cleared
  <2>1. view.more \in BOOLEAN
    BY <1>0 DEF Views
  <2>. QED BY <1>0, <1>1, <2>1 DEF Notes
<1>4. toHost' \in Seq(Requests \cup {Search!OpenMessage})
  BY <1>0, <1>1 DEF PaneType
<1>5. box' \in [query : Search!Texts, timer : Search!Texts]
  BY <1>0, <1>1 DEF PaneType, Search!Texts
<1>6. PaneType'
  BY <1>0, <1>1, <1>2, <1>3, <1>4, <1>5 DEF PaneType, Views, Notes
<1>7. Search!OpenMessage \in Requests \cup {Search!OpenMessage}
  OBVIOUS
<1>. QED BY <1>1, <1>2, <1>3, <1>6, <1>7, Asking

\* What the view makes of an answer.
LEMMA AnswerType ==
    ASSUME PaneType, Search!ViewAnswered
    PROVE  PaneType'
<1>. DEFINE m == Head(toView)
            r == m.request
            more == r.page + 1 < Pages
<1>0. view \in Views /\ view.id \in Nat
  BY DEF PaneType, Views
<1>1. /\ toView # <<>> /\ m.kind # "seed" /\ toView' = Tail(toView)
      /\ UNCHANGED <<box, toHost, flying, note>>
      /\ \/ view' = [view EXCEPT !.loading = FALSE, !.more = FALSE]
         \/ view' = [view EXCEPT !.loading = TRUE]
         \/ view' = [pages |-> Search!Shown(r), applied |-> r.query, truncated |-> more,
                     loading |-> FALSE, more |-> FALSE, id |-> view.id]
         \/ view' = view
  BY DEF Search!ViewAnswered, Search!HostAlone
<1>2. toView' \in Seq(Answers) /\ m \in Answers
  <2>1. toView \in Seq(Answers)
    BY DEF PaneType
  <2>. QED BY <1>1, <2>1, Behind
<1>3. r \in Requests
  BY <1>1, <1>2 DEF Answers
<1>4. more \in BOOLEAN
  OBVIOUS
<1>. HIDE DEF m, r, more
<1>5. Search!Shown(r) \in Seq([query : Searches, page : Nat]) /\ r.query \in Search!Texts
  <2>. DEFINE page == [query |-> r.query, page |-> r.page]
  <2>1. page \in [query : Searches, page : Nat] /\ view.pages \in Seq([query : Searches, page : Nat])
    BY <1>0, <1>3 DEF Requests, Views
  <2>2. Search!Shown(r) = Append(view.pages, page) \/ Search!Shown(r) = <<page>>
    BY DEF Search!Shown
  <2>3. r.query \in Search!Texts
    BY <1>3 DEF Requests, Search!Texts
  <2>. HIDE DEF page
  <2>4. Append(view.pages, page) \in Seq([query : Searches, page : Nat])
    BY <2>1, Sent
  <2>5. <<page>> \in Seq([query : Searches, page : Nat])
    BY <2>1
  <2>. QED BY <2>2, <2>3, <2>4, <2>5
<1>6. view' \in Views
  <2>. DEFINE p == Search!Shown(r)
              q == r.query
  <2>1. p \in Seq([query : Searches, page : Nat]) /\ q \in Search!Texts
    BY <1>5
  <2>2. \/ view' = [view EXCEPT !.loading = FALSE, !.more = FALSE]
        \/ view' = [view EXCEPT !.loading = TRUE]
        \/ view' = [pages |-> p, applied |-> q, truncated |-> more,
                    loading |-> FALSE, more |-> FALSE, id |-> view.id]
        \/ view' = view
    BY <1>1
  <2>. HIDE DEF p, q
  <2>3. [view EXCEPT !.loading = FALSE, !.more = FALSE] \in Views
    BY <1>0 DEF Views
  <2>4. [view EXCEPT !.loading = TRUE] \in Views
    BY <1>0 DEF Views
  <2>5. [pages |-> p, applied |-> q, truncated |-> more,
         loading |-> FALSE, more |-> FALSE, id |-> view.id] \in Views
    BY <1>0, <1>4, <2>1 DEF Views
  <2>. QED BY <1>0, <2>2, <2>3, <2>4, <2>5
<1>. QED BY <1>1, <1>2, <1>6 DEF PaneType, Views

LEMMA ReceiveType ==
    ASSUME PaneType, Search!HostReceives
    PROVE  PaneType'
<1>. DEFINE r == Head(toHost)
<1>1. /\ toHost # <<>> /\ toHost' = Tail(toHost) /\ UNCHANGED <<box, view, note>>
      /\ \/ flying' = Search!GivenUp /\ toView' = toView
         \/ /\ r # Search!OpenMessage /\ flying' = flying
            /\ toView' = Append(toView, [kind |-> "error", request |-> r])
         \/ /\ r # Search!OpenMessage
            /\ flying' = Search!GivenUp \cup {[request |-> r, live |-> TRUE]}
            /\ \/ toView' = Append(toView, [kind |-> "progress", request |-> r])
               \/ toView' = toView
  BY DEF Search!HostReceives, Search!NotReady, Search!Send
<1>2. toHost' \in Seq(Requests \cup {Search!OpenMessage}) /\ (r # Search!OpenMessage => r \in Requests)
  <2>1. toHost \in Seq(Requests \cup {Search!OpenMessage})
    BY DEF PaneType
  <2>. QED BY <1>1, <2>1, Behind
<1>. HIDE DEF r
<1>3. r # Search!OpenMessage => /\ [kind |-> "error", request |-> r] \in Answers
                              /\ [kind |-> "progress", request |-> r] \in Answers
                              /\ [request |-> r, live |-> TRUE] \in [request : Requests, live : BOOLEAN]
  BY <1>2 DEF Answers
<1>4. toView \in Seq(Answers) /\ flying \subseteq [request : Requests, live : BOOLEAN]
  BY DEF PaneType
<1>5. toView' \in Seq(Answers)
  <2>. DEFINE e == [kind |-> "error", request |-> r]
              p == [kind |-> "progress", request |-> r]
  <2>1. \/ toView' = toView
        \/ e \in Answers /\ toView' = Append(toView, e)
        \/ p \in Answers /\ toView' = Append(toView, p)
    BY <1>1, <1>3
  <2>. HIDE DEF e, p
  <2>. QED BY <1>4, <2>1, Sent
<1>6. flying' \subseteq [request : Requests, live : BOOLEAN]
  BY <1>1, <1>3, <1>4, GivenType
<1>. QED BY <1>1, <1>2, <1>5, <1>6 DEF PaneType

LEMMA PaneStep ==
    ASSUME PaneInv, [Search!Next]_(Search!searchVars)
    PROVE  PaneInv'
<1>0. PaneType /\ NoneLater /\ OutOnce /\ view \in Views /\ note \in Notes
  BY DEF PaneInv, PaneType, Views, Notes
<1>1. box \in [query : Search!Texts, timer : Search!Texts]
  BY <1>0 DEF PaneType
<1>2. CASE UNCHANGED <<view, toHost, flying, toView, note>> /\ box' \in [query : Search!Texts, timer : Search!Texts]
  BY <1>0, <1>2 DEF PaneInv, PaneType, NoneLater, OutOnce, NextPage, Fits, PagesThere,
                    Search!PagesContiguous, AtHost, Flies, AtView
<1>3. ASSUME NEW q \in Searches, Search!Type(q)
      PROVE  PaneInv'
  BY <1>2, <1>3 DEF Search!Type, Search!HostAlone, Search!Texts
<1>4. ASSUME NEW q \in Searches, Search!OpenSearch(q)
      PROVE  PaneInv'
  <2>. DEFINE m == [kind |-> "seed", request |-> [id |-> 0, query |-> q, page |-> 0]]
  <2>1. toView' = Append(toView, m) /\ UNCHANGED <<box, view, toHost, flying, note>>
    BY <1>4 DEF Search!OpenSearch, Search!HostAlone, Search!Send
  <2>2. m \in Answers /\ m.kind # "results"
    BY DEF Answers
  <2>. HIDE DEF m
  <2>3. toView \in Seq(Answers) /\ toView' \in Seq(Answers)
    BY <1>0, <2>1, <2>2 DEF PaneType
  <2>4. PaneType'
    BY <1>0, <2>1, <2>3 DEF PaneType
  <2>5. /\ \A i : AtView(i)' <=> AtView(i)
        /\ \A i : AtView(i) => toView'[i] = toView[i]
        /\ \A i \in 1 .. Len(toView') : toView'[i].kind = "results" =>
               toView'[i].request.id <= view.id
    BY <1>0, <2>1, <2>2, NotHits
  <2>6. /\ \A i : AtHost(i)' <=> AtHost(i)
        /\ \A s : Flies(s)' <=> Flies(s)
    BY <2>1 DEF AtHost, Flies
  <2>7. OutOnce'
    BY <1>0, <2>5, <2>6 DEF OutOnce
  <2>8. NoneLater'
    BY <1>0, <2>1, <2>5 DEF NoneLater
  <2>9. /\ \A i : AtHost(i)' => Out(toHost'[i])
        /\ \A s : Flies(s)' => Out(s.request)
        /\ \A i : AtView(i)' => Out(toView'[i].request)
    BY <2>1, <2>5, <2>6 DEF Out
  <2>. QED BY <2>1, <2>4, <2>7, <2>8, <2>9, Moving
<1>5. CASE Search!Clear
  <2>1. PaneType'
    <3>1. /\ view' = [Search!NoHits EXCEPT !.id = view.id] /\ UNCHANGED <<toHost, toView, flying>>
          /\ note' = [note EXCEPT !.cleared = @ \/ Search!CurrentIsOut]
          /\ box' = [query |-> None, timer |-> None]
      BY <1>5 DEF Search!Clear, Search!HostAlone
    <3>2. view' \in Views
      <4>1. view.id \in Nat /\ <<>> \in Seq([query : Searches, page : Nat]) /\ None \in Search!Texts
        BY <1>0 DEF Views, Search!Texts
      <4>. QED BY <3>1, <4>1 DEF Views, Search!NoHits
    <3>3. note' \in Notes
      <4>. DEFINE b == note.cleared \/ Search!CurrentIsOut
      <4>1. b \in BOOLEAN /\ note' = [note EXCEPT !.cleared = b]
        BY <1>0, <3>1 DEF Notes
      <4>. HIDE DEF b
      <4>. QED BY <1>0, <4>1 DEF Notes
    <3>4. box' \in [query : Search!Texts, timer : Search!Texts]
      BY <3>1 DEF Search!Texts
    <3>. QED BY <1>0, <3>1, <3>2, <3>3, <3>4 DEF PaneType, Views, Notes
  <2>. QED BY <1>5, <2>1, Emptied
<1>6. CASE Search!LoadMore \/ Search!Search \/ Search!ViewSeeded
  BY <1>6, Requested
<1>7. CASE Search!OpenIdea
  BY <1>7, Opened
<1>8. CASE Search!Navigate
  <2>. DEFINE lost == note.lost \/ \E s \in flying : s.request.id = view.id
  <2>1. /\ flying' = Search!GivenUp /\ UNCHANGED <<box, view, toHost, toView>>
        /\ note' = [note EXCEPT !.lost = lost] /\ lost \in BOOLEAN
    BY <1>0, <1>8 DEF Search!Navigate, Notes
  <2>. HIDE DEF lost
  <2>2. note' \in Notes /\ note'.cleared = note.cleared
    BY <1>0, <2>1 DEF Notes
  <2>3. PaneType'
    BY <1>0, <2>1, <2>2, GivenType DEF PaneType, Notes
  <2>4. \A s : Flies(s)' => \E t : Flies(t) /\ s = Dropped(t) /\ s.request = t.request
    <3>. SUFFICES ASSUME NEW s \in Search!GivenUp, s.request.id = view.id
                  PROVE  \E t : Flies(t) /\ s = Dropped(t) /\ s.request = t.request
      BY <2>1 DEF Flies
    <3>1. PICK t \in flying : s = Dropped(t) /\ s.request = t.request
      BY <1>0, Given
    <3>. QED BY <3>1 DEF Flies
  <2>5. /\ \A i : AtHost(i)' <=> AtHost(i)
        /\ \A i : AtView(i)' <=> AtView(i)
    BY <2>1 DEF AtHost, AtView
  <2>6. \A s, t : Flies(s)' /\ Flies(t)' => s = t
    <3>1. \A s, t : Flies(s) /\ Flies(t) => s = t
      BY <1>0 DEF OutOnce
    <3>. QED BY <2>4, <3>1
  <2>7. OutOnce'
    BY <1>0, <2>4, <2>5, <2>6 DEF OutOnce
  <2>8. NoneLater'
    <3>1. \A s \in Search!GivenUp : s.request.id <= view.id
      BY <1>0, Given DEF NoneLater
    <3>. QED BY <1>0, <2>1, <3>1 DEF NoneLater
  <2>9. /\ \A i : AtHost(i)' => Out(toHost'[i])
        /\ \A s : Flies(s)' => Out(s.request)
        /\ \A i : AtView(i)' => Out(toView'[i].request)
    BY <2>1, <2>4, <2>5 DEF Out
  <2>. QED BY <2>1, <2>2, <2>3, <2>7, <2>8, <2>9, Moving
<1>9. CASE Search!IndexChanges
  BY <1>1, <1>2, <1>9 DEF Search!IndexChanges
<1>10. CASE Search!ViewAnswered
  BY <1>0, <1>10, AnswerType, Taken
<1>11. CASE Search!HostReceives
  BY <1>0, <1>11, ReceiveType, Received
<1>12. CASE Search!Answer
  <2>1. PICK s \in flying :
           /\ flying' = flying \ {s} /\ UNCHANGED <<box, view, toHost, note>>
           /\ \/ toView' = Append(toView, [kind |-> "results", request |-> s.request])
              \/ toView' = Append(toView, [kind |-> "error", request |-> s.request])
              \/ toView' = toView
    BY <1>12 DEF Search!Answer, Search!Send
  <2>2. /\ [kind |-> "results", request |-> s.request] \in Answers
        /\ [kind |-> "error", request |-> s.request] \in Answers
    BY <1>0, Parts DEF Answers
  <2>3. toView \in Seq(Answers)
    BY <1>0 DEF PaneType
  <2>4. \A a \in Answers : Append(toView, a) \in Seq(Answers)
    BY <2>3, AppendProperties
  <2>5. toView' \in Seq(Answers)
    BY <2>1, <2>2, <2>3, <2>4
  <2>6. PaneType'
    BY <1>0, <2>1, <2>5 DEF PaneType
  <2>. QED BY <1>12, <2>6, Answered
<1>13. CASE UNCHANGED Search!searchVars
  BY <1>1, <1>2, <1>13 DEF Search!searchVars
<1>. QED
  BY <1>3, <1>4, <1>5, <1>6, <1>7, <1>8, <1>9, <1>10, <1>11, <1>12, <1>13 DEF Search!Next, Search!Program

LEMMA PaneInvariant == Search!Spec => []PaneInv
<1>1. Search!Init => PaneInv
  <2>. SUFFICES ASSUME Search!Init PROVE PaneInv
    OBVIOUS
  <2>1. /\ view = Search!NoHits /\ toHost = <<>> /\ flying = {} /\ toView = <<>>
        /\ note = [lost |-> FALSE, cleared |-> FALSE] /\ box = [query |-> None, timer |-> None]
    BY DEF Search!Init
  <2>2. view \in Views /\ view.pages = <<>> /\ view.applied = None
    <3>1. <<>> \in Seq([query : Searches, page : Nat]) /\ None \in Search!Texts
      BY DEF Search!Texts
    <3>. QED BY <2>1, <3>1 DEF Views, Search!NoHits
  <2>3. toHost \in Seq(Requests \cup {Search!OpenMessage}) /\ Len(toHost) = 0
    BY <2>1
  <2>4. toView \in Seq(Answers) /\ Len(toView) = 0
    BY <2>1
  <2>5. PaneType
    BY <2>1, <2>2, <2>3, <2>4 DEF PaneType, Views, Search!Texts
  <2>6. NoneLater /\ OutOnce /\ NextPage
    BY <2>1, <2>3, <2>4 DEF NoneLater, OutOnce, NextPage, AtHost, Flies, AtView
  <2>7. PagesThere /\ Search!PagesContiguous
    BY <2>2 DEF PagesThere, Search!PagesContiguous
  <2>. QED BY <2>5, <2>6, <2>7 DEF PaneInv
<1>2. PaneInv /\ [Search!Next]_(Search!searchVars) => PaneInv'
  BY PaneStep
<1>. QED BY <1>1, <1>2, PTL DEF Search!Spec

\* The pages shown are the first pages of one query, each once and in order, whatever
\* requests, answers and navigations are under way, unless the box was emptied while
\* the current request was out.
THEOREM PagesInOrder == Search!Spec => []Search!PagesContiguous
<1>1. PaneInv => Search!PagesContiguous
  BY DEF PaneInv
<1>. QED BY <1>1, PaneInvariant, PTL

(***************************************************************************)
(* The switcher                                                            *)
(***************************************************************************)
\* A message is in a channel.
Holds(s, m) == \E i \in 1 .. Len(s) : s[i] = m

\* What is in a channel is its head or behind it.
LEMMA HeadOrBehind ==
    ASSUME NEW S, NEW s \in Seq(S), s # <<>>, NEW m, Holds(s, m)
    PROVE  m = Head(s) \/ Holds(Tail(s), m)
<1>1. PICK i \in 1 .. Len(s) : s[i] = m
  BY DEF Holds
<1>2. CASE i = 1
  BY <1>1, <1>2, Behind
<1>3. CASE i # 1
  <2>1. i - 1 \in 1 .. Len(Tail(s)) /\ Tail(s)[i - 1] = s[i]
    <3>1. /\ Len(s) \in Nat \ {0} /\ Len(Tail(s)) = Len(s) - 1
          /\ \A k \in 1 .. Len(Tail(s)) : Tail(s)[k] = s[k + 1]
      BY Behind
    <3>2. i - 1 \in 1 .. Len(Tail(s)) /\ (i - 1) + 1 = i
      BY <1>3, <3>1
    <3>. QED BY <3>1, <3>2
  <2>. QED BY <1>1, <2>1 DEF Holds
<1>. QED BY <1>2, <1>3

\* A channel keeps what it has when a message is appended.
LEMMA AppendHolds ==
    ASSUME NEW S, NEW s \in Seq(S), NEW x \in S
    PROVE  /\ Append(s, x) \in Seq(S) /\ Holds(Append(s, x), x)
           /\ \A m : Holds(s, m) => Holds(Append(s, x), m)
<1>1. /\ Append(s, x) \in Seq(S) /\ Len(s) \in Nat /\ Len(Append(s, x)) = Len(s) + 1
      /\ \A i \in 1 .. Len(s) : Append(s, x)[i] = s[i]
      /\ Append(s, x)[Len(s) + 1] = x
  BY Sent
<1>. QED BY <1>1 DEF Holds

\* So does one that a report is posted to.
LEMMA ReportHolds ==
    ASSUME NEW S, NEW s \in Seq(S), NEW x \in S
    PROVE  /\ Switch!Reported(s, x) \in Seq(S) /\ Holds(Switch!Reported(s, x), x)
           /\ \A m : Holds(s, m) => Holds(Switch!Reported(s, x), m)
<1>1. CASE s # <<>> /\ s[Len(s)] = x
  <2>1. Len(s) \in 1 .. Len(s)
    BY <1>1, Behind
  <2>. QED BY <1>1, <2>1 DEF Switch!Reported, Holds
<1>2. CASE ~ (s # <<>> /\ s[Len(s)] = x)
  BY <1>2, AppendHolds DEF Switch!Reported
<1>. QED BY <1>1, <1>2

\* The base that the user waits for is asked for, or the answer is on its way.
Told == view.pending # None =>
            Holds(toHost, view.pending) \/ Holds(toView, view.pending) \/ Holds(toView, "refused")

Stores == [Open -> {"closed", "idle", "syncing", "synced", "changed", "error"}]
Passes == [Open -> {"none", "live", "broken"}]

\* An index syncs while its pass is live; a pass that runs on a closed runtime is broken;
\* who is caught up has a pass.
Runs(open, running, inFlight) ==
    \A b \in Open : /\ open[b] = "syncing" <=> running[b] = "live"
                    /\ running[b] = "broken" => open[b] = "closed"
                    /\ b \in inFlight => running[b] # "none"

\* A base that was entered is ready, or its pass is under way.
Entered == ~ adrift => store[pinned] \in {"synced", "changed"} \/ pass[pinned] = "live"

SwitchInv == Switch!TypeOK /\ Told /\ Runs(store, pass, caught) /\ Entered

\* What a release of the base that is left makes of the stores.
LEMMA ReleaseRuns ==
    ASSUME SwitchInv, NEW b \in Open, NEW next
    PROVE  LET open == Switch!Released(b, next)
               running == Switch!Broken(b, next)
           IN  open \in Stores /\ running \in Passes /\ Runs(open, running, caught)
BY DEF SwitchInv, Switch!TypeOK, Switch!Released, Switch!Broken, Runs, Stores, Passes

\* A base that is entered is open, or a pass runs that opens it, or it is adrift.
LEMMA CatchUpRuns ==
    ASSUME caught \in SUBSET Open, NEW b \in Open, NEW open \in Stores, NEW running \in Passes,
           Runs(open, running, caught), Switch!CatchUp(b, open, running)
    PROVE  /\ store' \in Stores /\ pass' \in Passes /\ caught' \in SUBSET Open
           /\ adrift' \in BOOLEAN
           /\ Runs(store', pass', caught')
           /\ ~ adrift' => store'[b] \in {"synced", "changed"} \/ pass'[b] = "live"
<1>1. /\ caught' = IF Switch!Owed(b, open) THEN caught \cup {b} ELSE caught
      /\ adrift' = (running[b] = "broken")
  BY DEF Switch!CatchUp
<1>2. CASE Switch!Owed(b, open) /\ running[b] = "none"
  <2>1. store' = [open EXCEPT ![b] = "syncing"] /\ pass' = [running EXCEPT ![b] = "live"]
    BY <1>2 DEF Switch!CatchUp
  <2>. QED BY <1>1, <1>2, <2>1 DEF Runs, Stores, Passes, Switch!Owed
<1>3. CASE ~ (Switch!Owed(b, open) /\ running[b] = "none")
  <2>1. store' = open /\ pass' = running
    BY <1>3 DEF Switch!CatchUp
  <2>2. ~ adrift' => open[b] \in {"synced", "changed"} \/ running[b] = "live"
    BY <1>1, <1>3 DEF Runs, Stores, Passes, Switch!Owed, Switch!Unsynced
  <2>. QED BY <1>1, <1>3, <2>1, <2>2 DEF Runs, Switch!Owed
<1>. QED BY <1>2, <1>3

\* A step that pins a base and catches it up.
LEMMA PinKeeps ==
    ASSUME SwitchInv, NEW b \in Open, pinned' = b,
           Switch!CatchUp(b, Switch!Released(pinned, b), Switch!Broken(pinned, b))
    PROVE  /\ store' \in Stores /\ pass' \in Passes /\ caught' \in SUBSET Open
           /\ adrift' \in BOOLEAN
           /\ Runs(store', pass', caught') /\ Entered'
<1>1. pinned \in Open /\ caught \in SUBSET Open
  BY DEF SwitchInv, Switch!TypeOK
<1>2. /\ Switch!Released(pinned, b) \in Stores /\ Switch!Broken(pinned, b) \in Passes
      /\ Runs(Switch!Released(pinned, b), Switch!Broken(pinned, b), caught)
  BY <1>1, ReleaseRuns
<1>. QED BY <1>1, <1>2, CatchUpRuns DEF Entered

LEMMA SwitchStep ==
    ASSUME SwitchInv, [Switch!Next]_(Switch!switchVars)
    PROVE  SwitchInv'
<1>. DEFINE Shown == Open \cup {"refused"}
<1>0. /\ view \in [pending : Switch!Listed \cup {None}, shown : Open]
      /\ toHost \in Seq(Switch!Listed) /\ toView \in Seq(Shown)
      /\ pinned \in Open /\ store \in Stores /\ pass \in Passes /\ caught \in SUBSET Open
      /\ adrift \in BOOLEAN
      /\ steps \in [selects : 0 .. MaxSelects, events : 0 .. MaxSwitchEvents]
      /\ Told /\ Runs(store, pass, caught) /\ Entered
  BY DEF SwitchInv, Switch!TypeOK, Stores, Passes
<1>1. MaxSelects \in Nat /\ MaxSwitchEvents \in Nat
  BY EditorAssumption
<1>2. Switch!Event => steps' \in [selects : 0 .. MaxSelects, events : 0 .. MaxSwitchEvents]
  BY <1>0, <1>1 DEF Switch!Event
\* The messages and the rest, one by one.
<1>3. ASSUME toHost' = toHost, view' = view, toView' \in Seq(Shown),
             \A m : Holds(toView, m) => Holds(toView', m)
      PROVE  Told'
  BY <1>0, <1>3 DEF Told
<1>4. ASSUME NEW b \in Open
      PROVE  /\ Switch!Reported(toView, b) \in Seq(Shown)
             /\ Holds(Switch!Reported(toView, b), b)
             /\ \A m : Holds(toView, m) => Holds(Switch!Reported(toView, b), m)
  BY <1>0, ReportHolds
<1>. HIDE DEF Shown
<1>5. ASSUME NEW b \in Switch!Listed, Switch!Select(b) PROVE SwitchInv'
  <2>1. toHost' \in Seq(Switch!Listed) /\ Holds(toHost', b)
    BY <1>0, <1>5, AppendHolds DEF Switch!Select
  <2>2. view' \in [pending : Switch!Listed \cup {None}, shown : Open] /\ view'.pending = b
    BY <1>0, <1>5 DEF Switch!Select
  <2>3. steps' \in [selects : 0 .. MaxSelects, events : 0 .. MaxSwitchEvents]
    <3>1. steps.selects < MaxSelects /\ steps' = [steps EXCEPT !.selects = @ + 1]
      BY <1>5 DEF Switch!Select
    <3>. QED BY <1>0, <1>1, <3>1
  <2>4. Told'
    BY <2>1, <2>2 DEF Told
  <2>. QED BY <1>0, <1>5, <2>1, <2>2, <2>3, <2>4
           DEF Switch!Select, SwitchInv, Switch!TypeOK, Entered, Stores, Passes, Shown
<1>6. CASE Switch!HostSelects
  <2>. DEFINE b == Head(toHost)
  <2>1. /\ toHost # <<>> /\ toHost' = Tail(toHost) /\ view' = view /\ steps' = steps
        /\ \/ b \in Open /\ Switch!SetActiveBaseId(b)
           \/ b = GoneBase /\ Switch!Refused /\ UNCHANGED <<pinned, store, pass, caught, adrift>>
    BY <1>6 DEF Switch!HostSelects
  <2>2. /\ toHost' \in Seq(Switch!Listed)
        /\ \A m : Holds(toHost, m) => m = b \/ Holds(toHost', m)
    BY <1>0, <2>1, Behind, HeadOrBehind
  <2>. HIDE DEF b
  <2>3. CASE b \in Open /\ Switch!SetActiveBaseId(b)
    <3>1. /\ pinned' = b /\ toView' = Switch!Reported(toView, b)
          /\ Switch!CatchUp(b, Switch!Released(pinned, b), Switch!Broken(pinned, b))
      BY <2>3 DEF Switch!SetActiveBaseId
    <3>2. /\ store' \in Stores /\ pass' \in Passes /\ caught' \in SUBSET Open
          /\ adrift' \in BOOLEAN
          /\ Runs(store', pass', caught') /\ Entered'
      BY <2>3, <3>1, PinKeeps
    <3>3. Told'
      BY <1>0, <1>4, <2>1, <2>2, <2>3, <3>1 DEF Told
    <3>. QED BY <1>0, <1>4, <2>1, <2>2, <2>3, <3>1, <3>2, <3>3
             DEF SwitchInv, Switch!TypeOK, Stores, Passes, Shown
  <2>4. CASE b = GoneBase /\ Switch!Refused /\ UNCHANGED <<pinned, store, pass, caught, adrift>>
    <3>1. /\ toView' \in Seq(Shown) /\ Holds(toView', "refused")
          /\ \A m : Holds(toView, m) => Holds(toView', m)
      BY <1>0, <2>4, AppendHolds DEF Switch!Refused, Shown
    <3>2. Told'
      BY <3>1 DEF Told
    <3>. QED BY <1>0, <2>1, <2>2, <2>4, <3>1, <3>2
             DEF SwitchInv, Switch!TypeOK, Entered, Stores, Passes, Shown
  <2>. QED BY <2>1, <2>3, <2>4
<1>7. ASSUME NEW b \in Open, Switch!Navigate(b) PROVE SwitchInv'
  <2>1. /\ pinned' = b /\ view' = view /\ toHost' = toHost
        /\ Switch!CatchUp(b, Switch!Released(pinned, b), Switch!Broken(pinned, b))
        /\ toView' = toView \/ toView' = Switch!Reported(toView, b)
    BY <1>7 DEF Switch!Navigate
  <2>2. /\ store' \in Stores /\ pass' \in Passes /\ caught' \in SUBSET Open
        /\ adrift' \in BOOLEAN
        /\ Runs(store', pass', caught') /\ Entered'
    BY <2>1, PinKeeps
  <2>3. toView' \in Seq(Shown) /\ \A m : Holds(toView, m) => Holds(toView', m)
    BY <1>0, <1>4, <2>1
  <2>4. Told'
    BY <1>3, <2>1, <2>3
  <2>5. steps' \in [selects : 0 .. MaxSelects, events : 0 .. MaxSwitchEvents]
    BY <1>2, <1>7 DEF Switch!Navigate
  <2>. QED BY <1>0, <2>1, <2>2, <2>3, <2>4, <2>5
           DEF SwitchInv, Switch!TypeOK, Stores, Passes, Shown
\* The steps that report the base pinned.
<1>8. ASSUME toView' = Switch!Reported(toView, pinned), view' = view, toHost' = toHost
      PROVE  toView' \in Seq(Shown) /\ Told'
  BY <1>0, <1>3, <1>4, <1>8
<1>9. ASSUME NEW b \in Open, Switch!PassEnds(b) PROVE SwitchInv'
  <2>1. toView' \in Seq(Shown) /\ Told'
    BY <1>8, <1>9 DEF Switch!PassEnds
  <2>2. store' \in Stores /\ pass' \in Passes /\ Runs(store', pass', caught')
    <3>1. PICK s \in {"synced", "error"} :
             store' = IF pass[b] = "live" THEN [store EXCEPT ![b] = s] ELSE store
      BY <1>9 DEF Switch!PassEnds
    <3>2. pass' = [pass EXCEPT ![b] = "none"] /\ caught' = caught \ {b} /\ pass[b] # "none"
      BY <1>9 DEF Switch!PassEnds
    <3>3. store' \in Stores /\ pass' \in Passes
      BY <1>0, <3>1, <3>2 DEF Stores, Passes
    <3>4. \A c \in Open \ {b} : store'[c] = store[c] /\ pass'[c] = pass[c]
      BY <1>0, <3>1, <3>2 DEF Stores, Passes
    <3>5. pass'[b] = "none" /\ store'[b] # "syncing"
      BY <1>0, <3>1, <3>2 DEF Stores, Passes, Runs
    <3>. QED BY <1>0, <3>2, <3>3, <3>4, <3>5 DEF Runs
  <2>3. Entered'
    <3>1. CASE b = pinned
      <4>1. pinned' = pinned
        BY <1>9 DEF Switch!PassEnds
      <4>2. CASE store' = [store EXCEPT ![b] = "synced"]
        BY <1>0, <3>1, <4>1, <4>2 DEF Entered, Stores
      <4>3. CASE adrift' = (adrift \/ b = pinned)
        BY <3>1, <4>3 DEF Entered
      <4>4. CASE pass[b] = "broken" /\ UNCHANGED <<store, adrift>>
        BY <1>0, <3>1, <4>1, <4>4 DEF Entered, Runs
      <4>. QED BY <1>9, <4>2, <4>3, <4>4 DEF Switch!PassEnds
    <3>2. CASE b # pinned
      <4>1. /\ store'[pinned] = store[pinned] /\ pass'[pinned] = pass[pinned]
            /\ pinned' = pinned /\ adrift' = adrift
        BY <1>0, <1>9, <3>2 DEF Switch!PassEnds, Stores, Passes
      <4>. QED BY <1>0, <4>1 DEF Entered
    <3>. QED BY <3>1, <3>2
  <2>. QED BY <1>0, <1>9, <2>1, <2>2, <2>3
           DEF Switch!PassEnds, SwitchInv, Switch!TypeOK, Stores, Passes, Shown
<1>10. ASSUME NEW b \in Open, Switch!FileChanged(b) PROVE SwitchInv'
  <2>1. toView' \in Seq(Shown) /\ Told'
    BY <1>8, <1>10 DEF Switch!FileChanged
  <2>2. store' \in Stores /\ Runs(store', pass, caught) /\ Entered'
    BY <1>0, <1>10 DEF Switch!FileChanged, Switch!Unsynced, Stores, Passes, Runs, Entered
  <2>. QED BY <1>0, <1>2, <1>10, <2>1, <2>2
           DEF Switch!FileChanged, SwitchInv, Switch!TypeOK, Stores, Passes, Shown
<1>11. CASE Switch!ReleaseUnusedArtifacts
  <2>1. toView' \in Seq(Shown) /\ Told'
    BY <1>8, <1>11 DEF Switch!ReleaseUnusedArtifacts
  <2>2. store' \in Stores /\ pass' \in Passes /\ Runs(store', pass', caught)
    BY <1>0, <1>11 DEF Switch!ReleaseUnusedArtifacts, Stores, Passes, Runs
  <2>. QED BY <1>0, <1>2, <1>11, <2>1, <2>2
           DEF Switch!ReleaseUnusedArtifacts, SwitchInv, Switch!TypeOK, Entered, Stores, Passes, Shown
<1>12. CASE Switch!WindowFocused
  <2>1. /\ Switch!CatchUp(pinned, store, pass)
        /\ UNCHANGED <<view, toHost, toView, pinned>>
    BY <1>12 DEF Switch!WindowFocused
  <2>2. /\ store' \in Stores /\ pass' \in Passes /\ caught' \in SUBSET Open
        /\ adrift' \in BOOLEAN
        /\ Runs(store', pass', caught') /\ Entered'
    BY <1>0, <2>1, CatchUpRuns DEF Entered
  <2>3. steps' \in [selects : 0 .. MaxSelects, events : 0 .. MaxSwitchEvents]
    BY <1>2, <1>12 DEF Switch!WindowFocused
  <2>. QED BY <1>0, <2>1, <2>2, <2>3
           DEF SwitchInv, Switch!TypeOK, Stores, Passes, Shown, Told
<1>13. CASE Switch!ViewReceives
  <2>. DEFINE m == Head(toView)
  <2>1. /\ toView # <<>> /\ toView' = Tail(toView)
        /\ view' = IF m = "refused" THEN [view EXCEPT !.pending = None]
                   ELSE [pending |-> IF m = view.pending THEN None ELSE view.pending,
                         shown   |-> m]
        /\ UNCHANGED <<toHost, pinned, store, pass, caught, adrift, steps>>
    BY <1>13 DEF Switch!ViewReceives
  <2>2. /\ toView' \in Seq(Shown) /\ m \in Shown
        /\ \A x : Holds(toView, x) => x = m \/ Holds(toView', x)
    BY <1>0, <2>1, Behind, HeadOrBehind
  <2>. HIDE DEF m
  <2>3. view' \in [pending : Switch!Listed \cup {None}, shown : Open]
    BY <1>0, <2>1, <2>2 DEF Shown
  <2>4. Told'
    BY <1>0, <2>1, <2>2 DEF Told
  <2>. QED BY <1>0, <2>1, <2>2, <2>3, <2>4
           DEF SwitchInv, Switch!TypeOK, Entered, Stores, Passes, Shown
<1>14. CASE UNCHANGED Switch!switchVars
  BY <1>0, <1>14 DEF Switch!switchVars, SwitchInv, Switch!TypeOK, Told, Entered, Stores, Passes, Shown
<1>. QED
  BY <1>5, <1>6, <1>7, <1>9, <1>10, <1>11, <1>12, <1>13, <1>14 DEF Switch!Next, Switch!Program

LEMMA SwitchInvariant == Switch!Spec => []SwitchInv
<1>1. ASSUME Switch!Init PROVE SwitchInv
  <2>1. PICK b \in Open :
           /\ view = [pending |-> None, shown |-> b] /\ toHost = <<>> /\ toView = <<>>
           /\ pinned = b
           /\ store = [c \in Open |-> IF c = b THEN "synced" ELSE "closed"]
           /\ pass = [c \in Open |-> "none"]
           /\ caught = {} /\ adrift = FALSE
           /\ steps = [selects |-> 0, events |-> 0]
    BY <1>1 DEF Switch!Init
  <2>2. steps \in [selects : 0 .. MaxSelects, events : 0 .. MaxSwitchEvents]
    BY <2>1, EditorAssumption
  <2>3. toHost \in Seq(Switch!Listed) /\ toView \in Seq(Open \cup {"refused"})
    BY <2>1
  <2>4. Told /\ Runs(store, pass, caught) /\ Entered
    BY <2>1 DEF Told, Runs, Entered
  <2>. QED BY <2>1, <2>2, <2>3, <2>4 DEF SwitchInv, Switch!TypeOK
<1>. QED BY <1>1, SwitchStep, PTL DEF Switch!Spec

\* The host and the view have nothing left to do.
SwitchAtRest == toHost = <<>> /\ toView = <<>> /\ \A b \in Open : pass[b] = "none"

\* Whatever the user, the editor and the idle timer do, and for any bases: when no message
\* and no pass is under way, the switcher waits for nothing (app.svelte.ts:352-360,
\* 737-745) and the pinned base is ready, by a pass of its own or by a watched change
\* before it was pinned, unless it was left adrift or its pass failed
\* (index-service.ts:780-807).  The passes, and the messages, end of themselves.
THEOREM SwitchRests ==
    Switch!Spec => [](SwitchAtRest => ~ Switch!SwitchWaits /\ Switch!PinnedOpen)
<1>1. SwitchInv => (SwitchAtRest => ~ Switch!SwitchWaits /\ Switch!PinnedOpen)
  <2>. SUFFICES ASSUME SwitchInv, SwitchAtRest PROVE ~ Switch!SwitchWaits /\ Switch!PinnedOpen
    OBVIOUS
  <2>1. \A m : ~ Holds(toHost, m) /\ ~ Holds(toView, m)
    BY DEF SwitchAtRest, Holds
  <2>. QED BY <2>1 DEF SwitchInv, SwitchAtRest, Told, Entered, Switch!TypeOK,
                       Switch!SwitchWaits, Switch!PinnedOpen
<1>. QED BY <1>1, SwitchInvariant, PTL

(***************************************************************************)
(* The spinners of the search pane                                         *)
(***************************************************************************)
\* The current request is answered, or its search is said to have begun.
Back(i)  == /\ i \in 1 .. Len(toView) /\ toView[i].kind \in {"results", "error"}
            /\ toView[i].request.id = view.id
Begun(i) == /\ i \in 1 .. Len(toView) /\ toView[i].kind = "progress"
            /\ toView[i].request.id = view.id

\* No answer is to a later request than the current one.
Earlier == \A i \in 1 .. Len(toView) : toView[i].kind # "seed" => toView[i].request.id <= view.id

\* Nothing follows the current request to the host.
LastSent == /\ \A i : AtHost(i) => i = Len(toHost)
            /\ (\E s : Flies(s)) \/ (\E i : Back(i) \/ Begun(i)) => toHost = <<>>

\* The search begins before it ends.
InOrder == \A i, j : Begun(i) /\ Back(j) => i < j

GivenUpIsLost == \A s : Flies(s) /\ ~ s.live => note.lost

\* What the view waits for, or will wait for, is on its way, unless it was lost.
StillOut == (Search!Waiting \/ \E i : Begun(i)) /\ ~ note.lost =>
                (\E i : AtHost(i)) \/ (\E s : Flies(s)) \/ (\E i : Back(i))

SpinInv == Earlier /\ LastSent /\ InOrder /\ GivenUpIsLost /\ StillOut

\* The messages to the view, one taken.
LEMMA OneTaken ==
    ASSUME PaneType, toView # <<>>, toView' = Tail(toView), view'.id = view.id
    PROVE  /\ \A i : Back(i)' => Back(i + 1) /\ i \in Nat
           /\ \A i : Begun(i)' => Begun(i + 1) /\ i \in Nat
           /\ \A i : Back(i) => i = 1 \/ Back(i - 1)'
           /\ Earlier => Earlier'
           /\ 1 \in 1 .. Len(toView) /\ toView[1] = Head(toView)
<1>1. /\ Len(toView) \in Nat \ {0} /\ Len(toView') = Len(toView) - 1
      /\ \A i \in 1 .. Len(toView') : toView'[i] = toView[i + 1] /\ i + 1 \in 1 .. Len(toView)
      /\ Head(toView) = toView[1]
  BY Behind DEF PaneType
<1>2. ASSUME NEW i \in 1 .. Len(toView), i # 1
      PROVE  i - 1 \in 1 .. Len(toView') /\ toView'[i - 1] = toView[i]
  <2>1. i - 1 \in 1 .. Len(toView') /\ (i - 1) + 1 = i
    BY <1>1, <1>2
  <2>. QED BY <1>1, <2>1
<1>3. \A i \in 1 .. Len(toView') : i \in Nat
  BY <1>1
<1>. QED BY <1>1, <1>2, <1>3 DEF Back, Begun, Earlier

\* And one more.
LEMMA OnePosted ==
    ASSUME PaneType, NEW m, toView' = Append(toView, m), view'.id = view.id, m \in Answers
    PROVE  /\ \A i : Back(i)' <=> \/ Back(i)
                                  \/ /\ i = Len(toView) + 1 /\ m.kind \in {"results", "error"}
                                     /\ m.request.id = view.id
           /\ \A i : Begun(i)' <=> \/ Begun(i)
                                   \/ /\ i = Len(toView) + 1 /\ m.kind = "progress"
                                      /\ m.request.id = view.id
           /\ \A i : Back(i) \/ Begun(i) => i < Len(toView) + 1
           /\ Earlier /\ (m.kind # "seed" => m.request.id <= view.id) => Earlier'
<1>1. /\ Len(toView) \in Nat /\ Len(toView') = Len(toView) + 1 /\ toView'[Len(toView) + 1] = m
      /\ \A i \in 1 .. Len(toView) : toView'[i] = toView[i]
  BY Sent DEF PaneType
<1>2. \A i : i \in 1 .. Len(toView') <=> i \in 1 .. Len(toView) \/ i = Len(toView) + 1
  BY <1>1
<1>3. \A i \in 1 .. Len(toView) : i < Len(toView) + 1
  BY <1>1
<1>. QED BY <1>1, <1>2, <1>3 DEF Back, Begun, Earlier

\* The view makes a new request, or drops the one it has.
LEMMA SpinAsks ==
    ASSUME PaneInv, SpinInv, NEW m \in Requests \cup {Search!OpenMessage},
           view'.id = view.id + 1, toHost' = Append(toHost, m), flying' = flying,
           \/ toView' = toView
           \/ toView # <<>> /\ toView' = Tail(toView),
           \/ m # Search!OpenMessage /\ m.id = view.id + 1
           \/ m = Search!OpenMessage /\ (Search!Waiting' => note'.lost)
    PROVE  SpinInv'
<1>0. PaneType /\ NoneLater /\ Earlier
  BY DEF PaneInv, SpinInv
<1>1. /\ view.id \in Nat
      /\ toHost' \in Seq(Requests \cup {Search!OpenMessage}) /\ Len(toHost) \in Nat
      /\ Len(toHost') = Len(toHost) + 1 /\ toHost'[Len(toHost) + 1] = m
      /\ \A i \in 1 .. Len(toHost) : toHost'[i] = toHost[i] /\ toHost[i].id \in Nat
  <2>1. toHost \in Seq(Requests \cup {Search!OpenMessage})
    BY <1>0 DEF PaneType
  <2>. QED BY <1>0, <2>1, Parts, Sent
<1>2. \A i \in 1 .. Len(toHost) : toHost[i].id # view.id + 1
  BY <1>0, <1>1 DEF NoneLater
<1>3. \A i : AtHost(i)' => i = Len(toHost')
  <2>1. \A i \in 1 .. Len(toHost') : i \in 1 .. Len(toHost) \/ i = Len(toHost')
    BY <1>1
  <2>. QED BY <1>1, <1>2, <2>1 DEF AtHost
<1>4. \A s : ~ Flies(s)'
  <2>1. \A s \in flying : s.request.id \in Nat /\ s.request.id <= view.id
    BY <1>0, Parts DEF NoneLater, Requests
  <2>. QED BY <1>1, <2>1 DEF Flies
<1>5. /\ \A i \in 1 .. Len(toView') : toView'[i].kind # "seed" =>
            toView'[i].request.id \in Nat /\ toView'[i].request.id <= view.id
  <2>1. \A i \in 1 .. Len(toView) : toView[i].request.id \in Nat
    BY <1>0, Parts
  <2>2. CASE toView' = toView
    BY <1>0, <2>1, <2>2 DEF Earlier
  <2>3. CASE toView # <<>> /\ toView' = Tail(toView)
    <3>1. \A i \in 1 .. Len(toView') : toView'[i] = toView[i + 1] /\ i + 1 \in 1 .. Len(toView)
      BY <1>0, <2>3, Behind DEF PaneType
    <3>. QED BY <1>0, <2>1, <3>1 DEF Earlier
  <2>. QED BY <2>2, <2>3
<1>6. Earlier' /\ \A i : ~ Back(i)' /\ ~ Begun(i)'
  <2>1. \A n \in Nat : n <= view.id => n <= view'.id /\ n # view'.id
    BY <1>1
  <2>2. \A i \in 1 .. Len(toView') : toView'[i].kind # "seed" =>
            toView'[i].request.id <= view'.id /\ toView'[i].request.id # view'.id
    BY <1>5, <2>1
  <2>3. Earlier'
    BY <2>2 DEF Earlier
  <2>. QED BY <2>2, <2>3 DEF Back, Begun
<1>7. m # Search!OpenMessage /\ m.id = view.id + 1 => \E i : AtHost(i)'
  <2>1. ASSUME NEW n, n = Len(toHost'), m # Search!OpenMessage, m.id = view.id + 1
        PROVE  AtHost(n)'
    BY <1>1, <2>1 DEF AtHost
  <2>. QED BY <2>1
<1>8. StillOut'
  BY <1>6, <1>7 DEF StillOut
<1>. QED BY <1>3, <1>4, <1>6, <1>8 DEF SpinInv, LastSent, InOrder, GivenUpIsLost

\* The host takes a message.
LEMMA SpinReceives ==
    ASSUME PaneInv, SpinInv, Search!HostReceives
    PROVE  SpinInv'
<1>. DEFINE r == Head(toHost)
            e == [kind |-> "error", request |-> r]
            p == [kind |-> "progress", request |-> r]
            b == [request |-> r, live |-> TRUE]
<1>0. /\ PaneType /\ NoneLater
      /\ Earlier /\ LastSent /\ InOrder /\ GivenUpIsLost /\ StillOut
  BY DEF PaneInv, SpinInv
<1>1. /\ toHost # <<>> /\ toHost' = Tail(toHost) /\ UNCHANGED <<view, note>>
      /\ \/ r = Search!OpenMessage /\ flying' = Search!GivenUp /\ toView' = toView
         \/ /\ r # Search!OpenMessage /\ flying' = flying /\ toView' = Append(toView, e)
         \/ /\ r # Search!OpenMessage /\ flying' = Search!GivenUp \cup {b}
            /\ toView' = Append(toView, p) \/ toView' = toView
  BY DEF Search!HostReceives, Search!NotReady, Search!Send
<1>2. /\ toHost \in Seq(Requests \cup {Search!OpenMessage})
      /\ r = toHost[1] /\ Len(toHost) \in Nat \ {0} /\ Len(toHost') = Len(toHost) - 1
      /\ \A i \in 1 .. Len(toHost') : toHost'[i] = toHost[i + 1] /\ i + 1 \in 1 .. Len(toHost)
      /\ 1 \in 1 .. Len(toHost) /\ view.id \in Nat
  <2>1. toHost \in Seq(Requests \cup {Search!OpenMessage})
    BY <1>0 DEF PaneType
  <2>2. view.id \in Nat
    BY <1>0, Parts
  <2>. QED BY <1>1, <2>1, <2>2, Behind
<1>3. r # Search!OpenMessage => r \in Requests /\ r.id \in Nat /\ r.id <= view.id
  BY <1>0, <1>2, Parts DEF NoneLater, Requests
<1>4. /\ r # Search!OpenMessage => e \in Answers /\ p \in Answers
      /\ e.kind = "error" /\ e.request = r /\ p.kind = "progress" /\ p.request = r
      /\ b.request = r /\ b.live = TRUE
  BY <1>3 DEF Answers
<1>. HIDE DEF e, p, b, r
\* What the current request is not, since a message went to the host.
<1>5. (\A s : ~ Flies(s)) /\ (\A i : ~ Back(i) /\ ~ Begun(i))
  BY <1>0, <1>1 DEF LastSent
<1>6. /\ \A i : AtHost(i)' => AtHost(i + 1) /\ i \in 1 .. Len(toHost')
      /\ \A i : AtHost(i) => i = 1 \/ AtHost(i - 1)'
  <2>1. ASSUME NEW i \in 1 .. Len(toHost), i # 1
        PROVE  i - 1 \in 1 .. Len(toHost') /\ toHost'[i - 1] = toHost[i]
    <3>1. i - 1 \in 1 .. Len(toHost') /\ (i - 1) + 1 = i
      BY <1>2, <2>1
    <3>. QED BY <1>2, <3>1
  <2>. QED BY <1>1, <1>2, <2>1 DEF AtHost
<1>7. \A i : AtHost(i)' => i = Len(toHost')
  <2>. SUFFICES ASSUME NEW i, AtHost(i)' PROVE i = Len(toHost')
    OBVIOUS
  <2>1. i + 1 = Len(toHost) /\ i \in 1 .. Len(toHost')
    BY <1>0, <1>6 DEF LastSent
  <2>. QED BY <1>2, <2>1
\* When the current request is taken, no message is left.
<1>8. AtHost(1) => toHost' = <<>> /\ r # Search!OpenMessage /\ r.id = view.id
  <2>. SUFFICES ASSUME AtHost(1) PROVE toHost' = <<>> /\ r # Search!OpenMessage /\ r.id = view.id
    OBVIOUS
  <2>1. Len(toHost') = 0
    BY <1>0, <1>2 DEF LastSent
  <2>2. toHost' \in Seq(Requests \cup {Search!OpenMessage})
    BY <1>1, <1>2, Behind
  <2>. QED BY <1>2, <2>1, <2>2 DEF AtHost
<1>9. r # Search!OpenMessage /\ r.id = view.id => AtHost(1)
  BY <1>2 DEF AtHost
<1>10. \A s \in Search!GivenUp : s.request.id # view.id
  BY <1>0, <1>5, Given DEF Flies
<1>11. (Search!Waiting' <=> Search!Waiting) /\ view'.id = view.id
  BY <1>1 DEF Search!Waiting
<1>12. CASE r = Search!OpenMessage /\ flying' = Search!GivenUp /\ toView' = toView
  <2>1. \A s : ~ Flies(s)'
    BY <1>1, <1>10, <1>12 DEF Flies
  <2>2. (\A i : ~ Back(i)' /\ ~ Begun(i)') /\ Earlier'
    BY <1>0, <1>1, <1>5, <1>12 DEF Back, Begun, Earlier
  <2>3. (\E i : AtHost(i)) => \E i : AtHost(i)'
    BY <1>6, <1>8, <1>12
  <2>. QED BY <1>0, <1>1, <1>5, <1>7, <1>11, <2>1, <2>2, <2>3
           DEF SpinInv, LastSent, InOrder, GivenUpIsLost, StillOut
<1>13. CASE r # Search!OpenMessage /\ flying' = flying /\ toView' = Append(toView, e)
  <2>1. /\ \A i : Back(i)' <=> i = Len(toView) + 1 /\ r.id = view.id
        /\ \A i : ~ Begun(i)'
        /\ Earlier'
    BY <1>0, <1>3, <1>4, <1>5, <1>11, <1>13, OnePosted
  <2>2. \A s : ~ Flies(s)'
    BY <1>1, <1>5, <1>13 DEF Flies
  <2>3. r.id = view.id => (\E i : Back(i)') /\ toHost' = <<>>
    BY <1>8, <1>9, <1>13, <2>1
  <2>4. r.id # view.id /\ (\E i : AtHost(i)) => \E i : AtHost(i)'
    BY <1>6, <1>8
  <2>5. StillOut'
    BY <1>0, <1>1, <1>5, <1>11, <2>1, <2>3, <2>4 DEF StillOut
  <2>. QED BY <1>7, <2>1, <2>2, <2>3, <2>5 DEF SpinInv, LastSent, InOrder, GivenUpIsLost
<1>14. CASE /\ r # Search!OpenMessage /\ flying' = Search!GivenUp \cup {b}
            /\ toView' = Append(toView, p) \/ toView' = toView
  <2>1. /\ \A i : ~ Back(i)'
        /\ \A i : Begun(i)' => r.id = view.id
        /\ Earlier'
    <3>1. CASE toView' = Append(toView, p)
      BY <1>0, <1>3, <1>4, <1>5, <1>11, <1>14, <3>1, OnePosted
    <3>2. CASE toView' = toView
      BY <1>0, <1>1, <1>5, <3>2 DEF Back, Begun, Earlier
    <3>. QED BY <1>14, <3>1, <3>2
  <2>2. \A s : Flies(s)' <=> s = b /\ r.id = view.id
    BY <1>1, <1>4, <1>10, <1>14 DEF Flies
  <2>3. r.id = view.id => toHost' = <<>>
    BY <1>8, <1>9, <1>14
  <2>4. r.id # view.id /\ (\E i : AtHost(i)) => \E i : AtHost(i)'
    BY <1>6, <1>8
  <2>5. StillOut'
    BY <1>0, <1>1, <1>5, <1>11, <2>1, <2>2, <2>4 DEF StillOut
  <2>6. LastSent' /\ InOrder' /\ GivenUpIsLost'
    BY <1>4, <1>7, <2>1, <2>2, <2>3 DEF LastSent, InOrder, GivenUpIsLost
  <2>. QED BY <2>1, <2>5, <2>6 DEF SpinInv
<1>. QED BY <1>1, <1>12, <1>13, <1>14

\* A search has its turn.
LEMMA SpinAnswers ==
    ASSUME PaneInv, SpinInv, Search!Answer
    PROVE  SpinInv'
<1>0. /\ PaneType /\ NoneLater /\ OutOnce
      /\ Earlier /\ LastSent /\ InOrder /\ GivenUpIsLost /\ StillOut
  BY DEF PaneInv, SpinInv
<1>1. PICK s \in flying :
         /\ flying' = flying \ {s} /\ UNCHANGED <<view, toHost, note>>
         /\ \/ /\ s.live
               /\ \/ toView' = Append(toView, [kind |-> "results", request |-> s.request])
                  \/ toView' = Append(toView, [kind |-> "error", request |-> s.request])
            \/ ~ s.live /\ toView' = toView
  BY DEF Search!Answer, Search!Send
<1>2. s.request \in Requests /\ s.request.id \in Nat /\ s.request.id <= view.id
  BY <1>0, Parts DEF NoneLater, Requests
<1>3. /\ \A t : Flies(t)' => Flies(t)
      /\ \A t : Flies(t) => Flies(t)' \/ t = s
      /\ \A i : AtHost(i)' <=> AtHost(i)
      /\ Search!Waiting' <=> Search!Waiting
  BY <1>1 DEF Flies, AtHost, Search!Waiting
<1>4. CASE ~ s.live /\ toView' = toView
  <2>1. (\A i : (Back(i)' <=> Back(i)) /\ (Begun(i)' <=> Begun(i))) /\ Earlier'
    BY <1>0, <1>1, <1>4 DEF Back, Begun, Earlier
  <2>2. Flies(s) => note.lost
    BY <1>0, <1>4 DEF GivenUpIsLost
  <2>3. LastSent' /\ InOrder' /\ GivenUpIsLost'
    BY <1>0, <1>1, <1>3, <2>1 DEF LastSent, InOrder, GivenUpIsLost
  <2>4. StillOut'
    BY <1>0, <1>1, <1>3, <2>1, <2>2 DEF StillOut
  <2>. QED BY <2>1, <2>3, <2>4 DEF SpinInv
<1>5. ASSUME NEW kind \in {"results", "error"},
             toView' = Append(toView, [kind |-> kind, request |-> s.request])
      PROVE  SpinInv'
  <2>. DEFINE m == [kind |-> kind, request |-> s.request]
  <2>1. m \in Answers /\ m.kind = kind /\ m.request = s.request
    BY <1>2 DEF Answers
  <2>. HIDE DEF m
  <2>2. /\ \A i : Back(i)' <=> Back(i) \/ (i = Len(toView) + 1 /\ s.request.id = view.id)
        /\ \A i : Begun(i)' <=> Begun(i)
        /\ \A i : Begun(i) => i < Len(toView) + 1
        /\ Earlier'
    <3>1. toView' = Append(toView, m) /\ view'.id = view.id
      BY <1>1, <1>5 DEF m
    <3>2. m.kind \in {"results", "error"} /\ m.kind # "progress"
      BY <2>1
    <3>. QED BY <1>0, <1>2, <2>1, <3>1, <3>2, OnePosted
  <2>3. Flies(s) => \E i : Back(i)'
    BY <2>2 DEF Flies
  <2>4. s.request.id = view.id => Flies(s)
    BY DEF Flies
  <2>5. LastSent'
    BY <1>0, <1>1, <1>3, <2>2, <2>4 DEF LastSent
  <2>6. InOrder' /\ GivenUpIsLost'
    BY <1>0, <1>1, <1>3, <2>2 DEF InOrder, GivenUpIsLost
  <2>7. StillOut'
    BY <1>0, <1>1, <1>3, <2>2, <2>3 DEF StillOut
  <2>. QED BY <2>2, <2>5, <2>6, <2>7 DEF SpinInv
<1>. QED BY <1>1, <1>4, <1>5

LEMMA SpinStep ==
    ASSUME PaneInv, SpinInv, [Search!Next]_(Search!searchVars)
    PROVE  SpinInv'
<1>0. /\ PaneType /\ NoneLater /\ view \in Views /\ note \in Notes
      /\ Earlier /\ LastSent /\ InOrder /\ GivenUpIsLost /\ StillOut
  BY DEF PaneInv, PaneType, SpinInv, Views, Notes
<1>. DEFINE Same == UNCHANGED <<view, toHost, flying, toView, note>>
<1>1. ASSUME Same PROVE SpinInv'
  BY <1>0, <1>1 DEF SpinInv, Earlier, LastSent, InOrder, GivenUpIsLost, StillOut, Search!Waiting,
                    AtHost, Flies, Back, Begun
\* Of what the view waits for, only the spinners and the loss change.
<1>2. ASSUME UNCHANGED <<toHost, flying, toView>>, view'.id = view.id,
             Search!Waiting' => Search!Waiting, note.lost => note'.lost
      PROVE  SpinInv'
  BY <1>0, <1>2 DEF SpinInv, Earlier, LastSent, InOrder, GivenUpIsLost, StillOut,
                    AtHost, Flies, Back, Begun
<1>3. ASSUME NEW q \in Searches, Search!Type(q) PROVE SpinInv'
  BY <1>1, <1>3 DEF Search!Type, Search!HostAlone
<1>4. ASSUME NEW q \in Searches, Search!OpenSearch(q) PROVE SpinInv'
  <2>. DEFINE m == [kind |-> "seed", request |-> [id |-> 0, query |-> q, page |-> 0]]
  <2>1. toView' = Append(toView, m) /\ UNCHANGED <<view, toHost, flying, note>>
    BY <1>4 DEF Search!OpenSearch, Search!HostAlone, Search!Send
  <2>2. m \in Answers /\ m.kind = "seed"
    BY DEF Answers
  <2>. HIDE DEF m
  <2>3. (\A i : (Back(i)' <=> Back(i)) /\ (Begun(i)' <=> Begun(i))) /\ Earlier'
    BY <1>0, <2>1, <2>2, OnePosted
  <2>4. (\A i : AtHost(i)' <=> AtHost(i)) /\ (\A s : Flies(s)' <=> Flies(s))
        /\ (Search!Waiting' <=> Search!Waiting)
    BY <2>1 DEF AtHost, Flies, Search!Waiting
  <2>. QED BY <1>0, <2>1, <2>3, <2>4
           DEF SpinInv, LastSent, InOrder, GivenUpIsLost, StillOut
<1>5. CASE Search!Clear
  <2>1. /\ view' = [Search!NoHits EXCEPT !.id = view.id] /\ UNCHANGED <<toHost, toView, flying>>
        /\ note' = [note EXCEPT !.cleared = @ \/ Search!CurrentIsOut]
    BY <1>5 DEF Search!Clear, Search!HostAlone
  <2>2. view'.id = view.id /\ ~ Search!Waiting'
    BY <2>1 DEF Search!NoHits, Search!Waiting
  <2>3. note'.lost = note.lost
    BY <1>0, <2>1 DEF Notes
  <2>. QED BY <1>2, <2>1, <2>2, <2>3
<1>6. CASE Search!LoadMore \/ Search!Search \/ Search!ViewSeeded
  <2>1. PICK m \in Requests :
           /\ m.id = view.id + 1 /\ view'.id = view.id + 1
           /\ toHost' = Append(toHost, m) /\ flying' = flying
           /\ toView' = toView \/ (toView # <<>> /\ toView' = Tail(toView))
    <3>1. CASE Search!LoadMore
      <4>. DEFINE n == view.pages[Len(view.pages)].page + 1
      <4>1. view.applied \in Searches /\ view.applied # None
        BY <1>0, <3>1 DEF Search!LoadMore, Search!MayLoadMore, Views, Search!Texts
      <4>2. n \in Nat
        <5>1. view.pages \in Seq([query : Searches, page : Nat]) /\ view.pages # <<>>
          BY <1>0, <4>1 DEF Views, PaneInv, PagesThere
        <5>2. Len(view.pages) \in 1 .. Len(view.pages)
          BY <5>1, Behind
        <5>3. view.pages[Len(view.pages)] \in [query : Searches, page : Nat]
          BY <5>1, <5>2, ElementOfSeq
        <5>. QED BY <5>3
      <4>3. Search!Ask(view.applied, n) /\ UNCHANGED <<toView, flying>>
        BY <3>1 DEF Search!LoadMore, Search!HostAlone
      <4>. HIDE DEF n
      <4>. QED BY <1>0, <4>1, <4>2, <4>3, AskType
    <3>2. CASE Search!Search
      <4>1. box.timer \in Searches /\ Search!Ask(box.timer, 0) /\ UNCHANGED <<toView, flying>>
        BY <1>0, <3>2 DEF Search!Search, PaneType, Search!Texts, Search!HostAlone
      <4>. QED BY <1>0, <4>1, AskType
    <3>3. CASE Search!ViewSeeded
      <4>. DEFINE q == Head(toView).request.query
      <4>1. /\ toView # <<>> /\ toView' = Tail(toView) /\ flying' = flying
            /\ Search!Ask(q, 0)
        BY <3>3 DEF Search!ViewSeeded, Search!HostAlone
      <4>2. q \in Searches
        BY <1>0, <4>1, OneTaken, Behind, Parts DEF PaneType
      <4>. HIDE DEF q
      <4>. QED BY <1>0, <4>1, <4>2, AskType
    <3>. QED BY <1>6, <3>1, <3>2, <3>3
  <2>2. m # Search!OpenMessage
    BY DEF Requests, Search!OpenMessage
  <2>. QED BY <2>1, <2>2, SpinAsks
<1>7. CASE Search!OpenIdea
  <2>1. /\ view' = [view EXCEPT !.id = @ + 1, !.loading = FALSE]
        /\ toHost' = Append(toHost, Search!OpenMessage) /\ UNCHANGED <<toView, flying>>
        /\ note' = [note EXCEPT !.lost = view.more]
    BY <1>7 DEF Search!OpenIdea, Search!HostAlone
  <2>2. view'.id = view.id + 1 /\ (Search!Waiting' => note'.lost)
    BY <1>0, <2>1 DEF Views, Notes, Search!Waiting
  <2>. QED BY <2>1, <2>2, SpinAsks
<1>8. CASE Search!Navigate
  <2>. DEFINE lost == note.lost \/ \E s \in flying : s.request.id = view.id
  <2>1. /\ flying' = Search!GivenUp /\ UNCHANGED <<view, toHost, toView>>
        /\ note' = [note EXCEPT !.lost = lost]
    BY <1>8 DEF Search!Navigate
  <2>2. note'.lost = lost
    BY <1>0, <2>1 DEF Notes
  <2>3. \A s : Flies(s)' => \E t : Flies(t)
    BY <1>0, <2>1, Given DEF Flies
  <2>4. (\E s : Flies(s)) => note'.lost
    BY <2>2 DEF Flies
  <2>5. note.lost => note'.lost
    BY <2>2
  <2>. HIDE DEF lost
  <2>6. /\ \A i : AtHost(i)' <=> AtHost(i)
        /\ \A i : (Back(i)' <=> Back(i)) /\ (Begun(i)' <=> Begun(i))
        /\ Search!Waiting' <=> Search!Waiting
        /\ Earlier'
    BY <1>0, <2>1 DEF AtHost, Back, Begun, Search!Waiting, Earlier
  <2>7. LastSent' /\ InOrder' /\ GivenUpIsLost'
    BY <1>0, <2>1, <2>3, <2>4, <2>6 DEF LastSent, InOrder, GivenUpIsLost
  <2>8. StillOut'
    BY <1>0, <2>4, <2>5, <2>6 DEF StillOut
  <2>. QED BY <2>6, <2>7, <2>8 DEF SpinInv
<1>9. CASE Search!IndexChanges
  BY <1>1, <1>9 DEF Search!IndexChanges
<1>10. CASE Search!ViewAnswered
  <2>. DEFINE m == Head(toView)
              r == m.request
  <2>1. /\ toView # <<>> /\ m.kind # "seed" /\ toView' = Tail(toView)
        /\ UNCHANGED <<toHost, flying, note>>
        /\ \/ m.kind = "error" /\ view' = [view EXCEPT !.loading = FALSE, !.more = FALSE]
           \/ m.kind = "progress" /\ ~ (r.id < view.id) /\ view' = [view EXCEPT !.loading = TRUE]
           \/ /\ m.kind = "results" /\ ~ (r.id < view.id)
              /\ view' = [pages |-> Search!Shown(r), applied |-> r.query,
                          truncated |-> r.page + 1 < Pages,
                          loading |-> FALSE, more |-> FALSE, id |-> view.id]
           \/ m.kind \in {"progress", "results"} /\ r.id < view.id /\ view' = view
    <3>1. m \in Answers
      BY <1>0, <1>10, Behind DEF PaneType, Search!ViewAnswered
    <3>2. m.kind \in {"error", "progress", "results", "seed"}
      BY <3>1 DEF Answers
    <3>. HIDE DEF m
    <3>. QED BY <1>10, <3>2 DEF m, Search!ViewAnswered, Search!Stale, Search!HostAlone
  <2>2. view'.id = view.id /\ view.id \in Nat
    <3>. DEFINE pages == Search!Shown(r)
                more == r.page + 1 < Pages
                query == r.query
    <3>1. \/ view' = [view EXCEPT !.loading = FALSE, !.more = FALSE]
          \/ view' = [view EXCEPT !.loading = TRUE]
          \/ view' = [pages |-> pages, applied |-> query, truncated |-> more,
                      loading |-> FALSE, more |-> FALSE, id |-> view.id]
          \/ view' = view
      BY <2>1
    <3>2. view.id \in Nat /\ [view EXCEPT !.loading = FALSE, !.more = FALSE].id = view.id
          /\ [view EXCEPT !.loading = TRUE].id = view.id
      BY <1>0 DEF Views
    <3>. HIDE DEF pages, more, query
    <3>3. [pages |-> pages, applied |-> query, truncated |-> more,
           loading |-> FALSE, more |-> FALSE, id |-> view.id].id = view.id
      OBVIOUS
    <3>. QED BY <3>1, <3>2, <3>3
  <2>3. /\ \A i : Back(i)' => Back(i + 1) /\ i \in Nat
        /\ \A i : Begun(i)' => Begun(i + 1) /\ i \in Nat
        /\ \A i : Back(i) => i = 1 \/ Back(i - 1)'
        /\ Earlier'
        /\ 1 \in 1 .. Len(toView) /\ toView[1] = m
    BY <1>0, <2>1, <2>2, OneTaken
  <2>4. r.id \in Nat /\ r.id <= view.id
    BY <1>0, <2>1, <2>3, Parts DEF Earlier, Requests
  <2>. HIDE DEF m, r
  <2>5. (\A i : AtHost(i)' <=> AtHost(i)) /\ (\A s : Flies(s)' <=> Flies(s))
    BY <2>1, <2>2 DEF AtHost, Flies
  <2>6. LastSent'
    BY <1>0, <2>1, <2>3, <2>5 DEF LastSent
  <2>7. InOrder'
    <3>. SUFFICES ASSUME NEW i, NEW j, Begun(i)', Back(j)' PROVE i < j
      BY DEF InOrder
    <3>1. i + 1 < j + 1 /\ i \in Nat /\ j \in Nat
      BY <1>0, <2>3 DEF InOrder
    <3>. QED BY <3>1
  <2>8. GivenUpIsLost'
    BY <1>0, <2>1, <2>5 DEF GivenUpIsLost
  <2>9. StillOut'
    <3>. SUFFICES ASSUME Search!Waiting' \/ \E i : Begun(i)', ~ note.lost
                  PROVE  (\E i : AtHost(i)) \/ (\E s : Flies(s)) \/ (\E i : Back(i)')
      BY <2>1, <2>5 DEF StillOut
    <3>1. ASSUME Back(1) PROVE \A i : ~ Begun(i)'
      <4>. SUFFICES ASSUME NEW i, Begun(i)' PROVE FALSE
        OBVIOUS
      <4>1. i \in Nat /\ i + 1 < 1
        BY <1>0, <2>3, <3>1 DEF InOrder
      <4>. QED BY <4>1
    <3>2. ASSUME Search!Waiting \/ \E i : Begun(i), ~ Back(1)
          PROVE  (\E i : AtHost(i)) \/ (\E s : Flies(s)) \/ (\E i : Back(i)')
      BY <1>0, <2>3, <3>2 DEF StillOut
    <3>3. (\E i : Begun(i)') => \E i : Begun(i)
      BY <2>3
    <3>4. CASE m.kind = "error"
      <4>1. ~ Search!Waiting'
        BY <1>0, <2>1, <3>4 DEF Views, Search!Waiting
      <4>. QED BY <3>1, <3>2, <3>3, <4>1
    <3>5. CASE m.kind = "results" /\ ~ (r.id < view.id)
      <4>1. ~ Search!Waiting' /\ Back(1)
        BY <2>1, <2>3, <2>4, <2>2, <3>5 DEF Search!Waiting, Back, r
      <4>. QED BY <3>1, <4>1
    <3>6. CASE m.kind = "progress" /\ ~ (r.id < view.id)
      <4>1. Begun(1) /\ ~ Back(1)
        BY <2>2, <2>3, <2>4, <3>6 DEF Begun, Back, r
      <4>. QED BY <3>2, <4>1
    <3>7. CASE m.kind \in {"progress", "results"} /\ r.id < view.id /\ view' = view
      <4>1. ~ Back(1) /\ (Search!Waiting' <=> Search!Waiting)
        BY <2>2, <2>3, <2>4, <3>7 DEF Back, r, Search!Waiting
      <4>. QED BY <3>2, <3>3, <4>1
    <3>. QED BY <2>1, <3>4, <3>5, <3>6, <3>7
  <2>. QED BY <2>3, <2>6, <2>7, <2>8, <2>9 DEF SpinInv
<1>11. CASE Search!HostReceives
  BY <1>11, SpinReceives
<1>12. CASE Search!Answer
  BY <1>12, SpinAnswers
<1>13. CASE UNCHANGED Search!searchVars
  BY <1>1, <1>13 DEF Search!searchVars
<1>. QED
  BY <1>3, <1>4, <1>5, <1>6, <1>7, <1>8, <1>9, <1>10, <1>11, <1>12, <1>13 DEF Search!Next, Search!Program

LEMMA SpinInvariant == Search!Spec => []SpinInv
<1>1. ASSUME Search!Init PROVE SpinInv
  <2>1. /\ view = Search!NoHits /\ toHost = <<>> /\ flying = {} /\ toView = <<>>
    BY <1>1 DEF Search!Init
  <2>2. /\ \A i : ~ AtHost(i) /\ ~ Back(i) /\ ~ Begun(i)
        /\ \A s : ~ Flies(s)
        /\ Len(toView) = 0 /\ ~ Search!Waiting
    BY <2>1 DEF AtHost, Back, Begun, Flies, Search!Waiting, Search!NoHits
  <2>. QED BY <2>1, <2>2 DEF SpinInv, Earlier, LastSent, InOrder, GivenUpIsLost, StillOut
<1>. QED BY <1>1, PaneInvariant, SpinStep, PTL DEF Search!Spec

\* The host, the view and its timer have nothing left to do.
SearchAtRest == box.timer = None /\ toHost = <<>> /\ flying = {} /\ toView = <<>>

\* Whatever the user and the index do, and for any queries: when no message is under way,
\* no search begun and no timer set, no spinner turns, unless its search was lost to a
\* navigation (activity-bar-webview-provider.ts:983-1085).
THEOREM SearchRests == Search!Spec => [](SearchAtRest => Search!NoSpinner)
<1>1. SpinInv => (SearchAtRest => Search!NoSpinner)
  <2>. SUFFICES ASSUME SpinInv, SearchAtRest PROVE Search!NoSpinner
    OBVIOUS
  <2>1. /\ \A i : ~ AtHost(i) /\ ~ Back(i)
        /\ \A s : ~ Flies(s)
    BY DEF SearchAtRest, AtHost, Back, Flies
  <2>. QED BY <2>1 DEF SpinInv, StillOut, Search!NoSpinner
<1>. QED BY <1>1, SpinInvariant, PTL

(***************************************************************************)
(* The graph                                                               *)
(***************************************************************************)
\* A message of this kind is in a channel; the last one of its kind is m.
Carries(s, kind)  == \E i \in 1 .. Len(s) : s[i].kind = kind
Last(s, kind, m) ==
    \E i \in 1 .. Len(s) : /\ s[i] = m /\ m.kind = kind
                           /\ \A j \in 1 .. Len(s) : j > i => s[j].kind # kind

\* One more message.
LEMMA LastSent1 ==
    ASSUME NEW S, NEW s \in Seq(S), NEW m \in S
    PROVE  /\ Append(s, m) \in Seq(S)
           /\ \A k : Carries(Append(s, m), k) <=> Carries(s, k) \/ m.kind = k
           /\ \A k, x : m.kind # k => (Last(Append(s, m), k, x) <=> Last(s, k, x))
           /\ \A x : Last(Append(s, m), m.kind, x) => x = m
<1>. DEFINE t == Append(s, m)
<1>1. /\ t \in Seq(S) /\ Len(s) \in Nat /\ Len(t) = Len(s) + 1
      /\ \A i \in 1 .. Len(s) : t[i] = s[i]
      /\ t[Len(s) + 1] = m
  BY Sent
<1>. HIDE DEF t
<1>2. \A i : i \in 1 .. Len(t) <=> i \in 1 .. Len(s) \/ i = Len(s) + 1
  BY <1>1
<1>3. \A i \in 1 .. Len(s) : i # Len(s) + 1 /\ Len(s) + 1 > i
  BY <1>1
<1>4. \A k : Carries(t, k) <=> Carries(s, k) \/ m.kind = k
  BY <1>1, <1>2 DEF Carries
<1>5. ASSUME NEW k, NEW x, m.kind # k, Last(t, k, x) PROVE Last(s, k, x)
  <2>1. PICK i \in 1 .. Len(t) : /\ t[i] = x /\ x.kind = k
                                 /\ \A j \in 1 .. Len(t) : j > i => t[j].kind # k
    BY <1>5 DEF Last
  <2>2. i \in 1 .. Len(s) /\ s[i] = x
    BY <1>1, <1>2, <1>5, <2>1
  <2>3. \A j \in 1 .. Len(s) : j > i => s[j].kind # k
    BY <1>1, <1>2, <2>1
  <2>. QED BY <2>1, <2>2, <2>3 DEF Last
<1>6. ASSUME NEW k, NEW x, m.kind # k, Last(s, k, x) PROVE Last(t, k, x)
  <2>1. PICK i \in 1 .. Len(s) : /\ s[i] = x /\ x.kind = k
                                 /\ \A j \in 1 .. Len(s) : j > i => s[j].kind # k
    BY <1>6 DEF Last
  <2>2. i \in 1 .. Len(t) /\ t[i] = x
    BY <1>1, <1>2, <2>1
  <2>3. \A j \in 1 .. Len(t) : j > i => t[j].kind # k
    BY <1>1, <1>2, <1>6, <2>1
  <2>. QED BY <2>1, <2>2, <2>3 DEF Last
<1>7. ASSUME NEW x, Last(t, m.kind, x) PROVE x = m
  <2>1. PICK i \in 1 .. Len(t) : t[i] = x /\ \A j \in 1 .. Len(t) : j > i => t[j].kind # m.kind
    BY <1>7 DEF Last
  <2>2. ~ (Len(s) + 1 > i)
    BY <1>1, <1>2, <2>1
  <2>3. i = Len(s) + 1
    BY <1>2, <1>3, <2>2
  <2>. QED BY <1>1, <2>1, <2>3
<1>. QED BY <1>1, <1>4, <1>5, <1>6, <1>7 DEF t

\* One message taken.
LEMMA LastTaken ==
    ASSUME NEW S, NEW s \in Seq(S), s # <<>>
    PROVE  /\ Tail(s) \in Seq(S) /\ Head(s) \in S
           /\ \A k : Carries(s, k) <=> Carries(Tail(s), k) \/ Head(s).kind = k
           /\ \A k, x : Last(Tail(s), k, x) => Last(s, k, x)
           /\ \A k : Head(s).kind = k /\ ~ Carries(Tail(s), k) => Last(s, k, Head(s))
<1>. DEFINE t == Tail(s)
<1>1. /\ t \in Seq(S) /\ Len(s) \in Nat \ {0} /\ Len(t) = Len(s) - 1
      /\ Head(s) = s[1] /\ s[1] \in S
      /\ \A i \in 1 .. Len(t) : t[i] = s[i + 1] /\ i + 1 \in 1 .. Len(s)
  BY Behind
<1>. HIDE DEF t
<1>2. ASSUME NEW i \in 1 .. Len(s), i # 1
      PROVE  i - 1 \in 1 .. Len(t) /\ t[i - 1] = s[i] /\ i \in Nat
  <2>1. i - 1 \in 1 .. Len(t) /\ (i - 1) + 1 = i
    BY <1>1, <1>2
  <2>. QED BY <1>1, <2>1
<1>3. 1 \in 1 .. Len(s)
  BY <1>1
<1>4. \A k : Carries(s, k) <=> Carries(t, k) \/ Head(s).kind = k
  BY <1>1, <1>2, <1>3 DEF Carries
<1>5. ASSUME NEW k, NEW x, Last(t, k, x) PROVE Last(s, k, x)
  <2>1. PICK i \in 1 .. Len(t) : /\ t[i] = x /\ x.kind = k
                                 /\ \A j \in 1 .. Len(t) : j > i => t[j].kind # k
    BY <1>5 DEF Last
  <2>2. ASSUME NEW j \in 1 .. Len(s), j > i + 1 PROVE s[j].kind # k
    <3>1. j # 1 /\ j - 1 > i
      BY <1>1, <2>1, <2>2
    <3>. QED BY <1>2, <2>1, <3>1
  <2>. QED BY <1>1, <2>1, <2>2 DEF Last
<1>6. ASSUME NEW k, Head(s).kind = k, ~ Carries(t, k) PROVE Last(s, k, Head(s))
  <2>1. ASSUME NEW j \in 1 .. Len(s), j > 1 PROVE s[j].kind # k
    BY <1>2, <1>6, <2>1 DEF Carries
  <2>. QED BY <1>1, <1>3, <1>6, <2>1 DEF Last
<1>. QED BY <1>1, <1>4, <1>5, <1>6 DEF t

Indexes    == [base : Open, ready : BOOLEAN, syncing : BOOLEAN]
Panels     == [query : Graph!Queries, pending : BOOLEAN, timer : BOOLEAN, kicked : BOOLEAN,
               failed : BOOLEAN]
GraphViews == [query : Graph!Queries, slice : Graph!Slices \cup {None}, loading : BOOLEAN,
               error : BOOLEAN, wasReady : BOOLEAN, typed : Graph!Queries \cup {None},
               asked : Graph!Queries \cup {None}]

\* What the view asks for, and what the host posts.
Orders == [kind : {"loadGraph"}, query : Graph!Queries] \cup [kind : {"selectBase"}, base : Open]
Posts  == [kind : {"status"}, ready : BOOLEAN] \cup [kind : {"slice"}, slice : Graph!Slices]
             \cup [kind : {"navigate"}, centre : Centres] \cup [kind : {"uiState", "error"}]

GraphType ==
    /\ index \in Indexes /\ host \in Panels /\ view \in GraphViews
    /\ toHost \in Seq(Orders) /\ toView \in Seq(Posts)
    /\ moved \in BOOLEAN /\ acts \in 0 .. MaxGraphActs

\* A slice that answers the request asked, from the base pinned.
Serves(s, asked, elsewhere, base) ==
    /\ s.query.search = asked.search
    /\ asked # Graph!Whole => s.query = asked
    /\ ~ elsewhere => s.base = base

\* A request that waits for the status has a timer that posts one.
Timed == host.pending /\ index.ready => host.timer

\* What the view waits for is asked for, under way or answered.
Awaited == view.loading => \/ Carries(toHost, "loadGraph") \/ host.pending
                           \/ Carries(toView, "slice") \/ Carries(toView, "error")

LastRequest == \A m : Last(toHost, "loadGraph", m) => m.query = view.asked

\* Once the host has the last request, it works on it, could not build its slice, or the
\* last slice posted answers it.
LastAnswer ==
    ~ Carries(toHost, "loadGraph") /\ ~ Carries(toView, "navigate") /\ view.asked # None =>
        /\ host.pending => host.query = view.asked
        /\ ~ host.pending /\ ~ host.failed =>
              /\ \A m : Last(toView, "slice", m) => Serves(m.slice, view.asked, moved, index.base)
              /\ ~ Carries(toView, "slice") =>
                    view.slice # None /\ Serves(view.slice, view.asked, moved, index.base)

GraphInv == GraphType /\ Timed /\ Awaited /\ LastRequest /\ LastAnswer

LEMMA GraphParts ==
    /\ \A m \in Orders : \/ m.kind = "loadGraph" /\ m.query \in Graph!Queries
                         \/ m.kind = "selectBase" /\ m.base \in Open
    /\ \A m \in Posts : \/ m.kind = "status" /\ m.ready \in BOOLEAN
                        \/ m.kind = "slice" /\ m.slice \in Graph!Slices
                        \/ m.kind = "navigate" /\ m.centre \in Centres
                        \/ m.kind \in {"uiState", "error"}
BY DEF Orders, Posts

\* A status that is posted is neither a slice nor an intent.
LEMMA StatusKeeps ==
    ASSUME NEW s \in Seq(Posts), NEW ix \in Indexes
    PROVE  LET t == Graph!Reported(s, ix)
           IN  /\ t \in Seq(Posts)
               /\ Carries(t, "navigate") <=> Carries(s, "navigate")
               /\ Carries(t, "slice") <=> Carries(s, "slice")
               /\ Carries(t, "error") <=> Carries(s, "error")
               /\ \A x : Last(t, "slice", x) <=> Last(s, "slice", x)
<1>. DEFINE m == [kind |-> "status", ready |-> ix.ready]
<1>1. m \in Posts /\ m.kind = "status"
  BY DEF Indexes, Posts
<1>2. Graph!Reported(s, ix) = s \/ Graph!Reported(s, ix) = Append(s, m)
  BY DEF Graph!Reported
<1>. HIDE DEF m
<1>3. CASE Graph!Reported(s, ix) = Append(s, m)
  <2>1. /\ Append(s, m) \in Seq(Posts)
        /\ \A k : Carries(Append(s, m), k) <=> Carries(s, k) \/ m.kind = k
        /\ \A k, x : m.kind # k => (Last(Append(s, m), k, x) <=> Last(s, k, x))
    BY <1>1, LastSent1
  <2>. QED BY <1>1, <1>3, <2>1
<1>. QED BY <1>2, <1>3

\* What a slice is built for.
LEMMA ResolvedServes ==
    ASSUME NEW q \in Graph!Queries, NEW r \in Graph!Resolved(q)
    PROVE  r \in Graph!Queries /\ r.search = q.search /\ (q # Graph!Whole => r = q)
BY DEF Graph!Resolved, Graph!Queries, Graph!Whole

\* A run of runGraphSlice with the host as h, after the messages `posted`: its slice, or
\* an error.
LEMMA SliceRuns ==
    ASSUME NEW h \in Panels, NEW ix \in Indexes, NEW posted \in Seq(Posts),
           Graph!RunGraphSlice(h, ix, posted)
    PROVE  /\ host' \in Panels /\ toView' \in Seq(Posts) /\ host'.timer = h.timer
           /\ \/ /\ h.pending /\ ix.ready /\ ~ host'.pending /\ ~ host'.failed
                 /\ \E q \in Graph!Queries :
                      /\ q.search = h.query.search /\ (h.query # Graph!Whole => q = h.query)
                      /\ toView' = Append(posted, [kind |-> "slice",
                                                   slice |-> [query |-> q, base |-> ix.base]])
              \/ /\ ~ host'.pending /\ host'.failed
                 /\ toView' = Append(posted, [kind |-> "error"])
              \/ ~ (h.pending /\ ix.ready) /\ host' = h /\ toView' = posted
<1>. DEFINE Made(q) == /\ host' = [h EXCEPT !.query = q, !.pending = FALSE, !.failed = FALSE]
                       /\ toView' = Append(posted, [kind |-> "slice",
                                                    slice |-> [query |-> q, base |-> ix.base]])
            Failed(q) == /\ host' = [h EXCEPT !.query = q, !.pending = FALSE, !.failed = TRUE]
                         /\ toView' = Append(posted, [kind |-> "error"])
<1>1. h.query \in Graph!Queries
  BY DEF Panels
<1>2. CASE h.pending /\ ix.ready /\ Graph!Build(h, ix, posted)
  <2>1. PICK q \in Graph!Resolved(h.query) : Made(q)
    BY <1>2 DEF Graph!Build
  <2>2. q \in Graph!Queries /\ q.search = h.query.search /\ (h.query # Graph!Whole => q = h.query)
    BY <1>1, ResolvedServes
  <2>3. host' \in Panels /\ host'.timer = h.timer /\ ~ host'.pending /\ ~ host'.failed
    BY <2>1, <2>2 DEF Panels
  <2>. DEFINE m == [kind |-> "slice", slice |-> [query |-> q, base |-> ix.base]]
  <2>4. m \in Posts /\ toView' = Append(posted, m)
    BY <2>1, <2>2 DEF Posts, Graph!Slices, Indexes
  <2>. HIDE DEF m
  <2>5. toView' \in Seq(Posts)
    BY <2>4, LastSent1
  <2>. QED BY <1>2, <2>2, <2>3, <2>4, <2>5 DEF m
<1>3. CASE Graph!BuildFails(h, posted)
  <2>1. PICK q \in {h.query} \cup Graph!Resolved(h.query) : Failed(q)
    BY <1>3 DEF Graph!BuildFails
  <2>2. q \in Graph!Queries
    BY <1>1, ResolvedServes
  <2>3. host' \in Panels /\ host'.timer = h.timer /\ ~ host'.pending /\ host'.failed
    BY <2>1, <2>2 DEF Panels
  <2>. DEFINE e == [kind |-> "error"]
  <2>4. e \in Posts /\ toView' = Append(posted, e)
    BY <2>1 DEF Posts
  <2>. HIDE DEF e
  <2>5. toView' \in Seq(Posts)
    BY <2>4, LastSent1
  <2>. QED BY <2>3, <2>4, <2>5 DEF e
<1>4. CASE ~ (h.pending /\ ix.ready) /\ host' = h /\ toView' = posted
  BY <1>4
<1>. QED BY <1>2, <1>3, <1>4 DEF Graph!RunGraphSlice

\* A step of the host that ends with such a run.
LEMMA SliceKeeps ==
    ASSUME GraphInv, view' = view, toHost' \in Seq(Orders), index' \in Indexes,
           moved' \in BOOLEAN, acts' \in 0 .. MaxGraphActs, LastRequest',
           NEW h \in Panels, NEW posted \in Seq(Posts), Graph!RunGraphSlice(h, index', posted),
           Carries(toView, "slice") <=> Carries(posted, "slice"),
           \A x : Last(posted, "slice", x) <=> Last(toView, "slice", x),
           view.loading => \/ Carries(toHost', "loadGraph") \/ h.pending
                           \/ Carries(posted, "slice") \/ Carries(posted, "error"),
           ~ Carries(toHost', "loadGraph") /\ ~ Carries(posted, "navigate") /\ view.asked # None =>
              /\ h.pending => h.query = view.asked
              /\ ~ h.pending /\ ~ h.failed =>
                   /\ \A m : Last(toView, "slice", m) =>
                                 Serves(m.slice, view.asked, moved', index'.base)
                   /\ ~ Carries(toView, "slice") =>
                         view.slice # None /\ Serves(view.slice, view.asked, moved', index'.base)
    PROVE  GraphInv'
<1>1. /\ host' \in Panels /\ toView' \in Seq(Posts) /\ host'.timer = h.timer
      /\ \/ /\ h.pending /\ index'.ready /\ ~ host'.pending /\ ~ host'.failed
            /\ \E q \in Graph!Queries :
                 /\ q.search = h.query.search /\ (h.query # Graph!Whole => q = h.query)
                 /\ toView' = Append(posted, [kind |-> "slice",
                                              slice |-> [query |-> q, base |-> index'.base]])
         \/ /\ ~ host'.pending /\ host'.failed
            /\ toView' = Append(posted, [kind |-> "error"])
         \/ ~ (h.pending /\ index'.ready) /\ host' = h /\ toView' = posted
  BY SliceRuns
<1>2. GraphType'
  BY <1>1 DEF GraphInv, GraphType
<1>3. CASE ~ (h.pending /\ index'.ready) /\ host' = h /\ toView' = posted
  <2>1. Timed' /\ Awaited'
    BY <1>3 DEF Timed, Awaited
  <2>2. LastAnswer'
    BY <1>3 DEF LastAnswer
  <2>. QED BY <1>2, <2>1, <2>2 DEF GraphInv
<1>4. CASE ~ host'.pending /\ host'.failed /\ toView' = Append(posted, [kind |-> "error"])
  <2>. DEFINE e == [kind |-> "error"]
  <2>1. e \in Posts /\ e.kind = "error" /\ toView' = Append(posted, e)
    BY <1>4 DEF Posts
  <2>. HIDE DEF e
  <2>2. Carries(toView', "error")
    BY <2>1, LastSent1
  <2>3. Timed' /\ Awaited' /\ LastAnswer'
    BY <1>4, <2>2 DEF Timed, Awaited, LastAnswer
  <2>. QED BY <1>2, <2>3 DEF GraphInv
<1>5. CASE /\ h.pending /\ index'.ready /\ ~ host'.pending /\ ~ host'.failed
           /\ \E q \in Graph!Queries :
                 /\ q.search = h.query.search /\ (h.query # Graph!Whole => q = h.query)
                 /\ toView' = Append(posted, [kind |-> "slice",
                                              slice |-> [query |-> q, base |-> index'.base]])
  <2>1. PICK q \in Graph!Queries :
           /\ q.search = h.query.search /\ (h.query # Graph!Whole => q = h.query)
           /\ toView' = Append(posted, [kind |-> "slice",
                                        slice |-> [query |-> q, base |-> index'.base]])
    BY <1>5
  <2>. DEFINE s == [query |-> q, base |-> index'.base]
              m == [kind |-> "slice", slice |-> s]
  <2>2. m \in Posts /\ m.kind = "slice" /\ m.slice = s
    BY DEF Posts, Graph!Slices, Indexes
  <2>3. toView' = Append(posted, m) /\ s.query = q /\ s.base = index'.base
    BY <2>1
  <2>. HIDE DEF s, m
  <2>4. /\ Carries(toView', "slice") /\ \A x : Last(toView', "slice", x) => x = m
        /\ Carries(toView', "navigate") <=> Carries(posted, "navigate")
    <3>1. /\ \A k : Carries(Append(posted, m), k) <=> Carries(posted, k) \/ m.kind = k
          /\ \A x : Last(Append(posted, m), m.kind, x) => x = m
      BY <2>2, LastSent1
    <3>. QED BY <2>2, <2>3, <3>1
  <2>5. Timed' /\ Awaited'
    BY <1>5, <2>4 DEF Timed, Awaited
  <2>6. LastAnswer'
    <3>1. ASSUME ~ Carries(toHost', "loadGraph"), ~ Carries(toView', "navigate"),
                 view.asked # None
          PROVE  Serves(s, view.asked, moved', index'.base)
      <4>1. h.query = view.asked
        BY <1>5, <2>4, <3>1
      <4>. QED BY <2>1, <2>3, <4>1 DEF Serves
    <3>2. \A x : Last(toView', "slice", x) => x.slice = s
      BY <2>2, <2>4
    <3>. QED BY <1>5, <2>4, <3>1, <3>2 DEF LastAnswer
  <2>. QED BY <1>2, <2>5, <2>6 DEF GraphInv
<1>. QED BY <1>1, <1>3, <1>4, <1>5

\* The host takes a message.
LEMMA HostTakes ==
    ASSUME GraphInv, Graph!HostReceives
    PROVE  GraphInv'
<1>0. /\ index \in Indexes /\ host \in Panels /\ view \in GraphViews
      /\ toHost \in Seq(Orders) /\ toView \in Seq(Posts) /\ moved \in BOOLEAN
      /\ acts \in 0 .. MaxGraphActs /\ Awaited /\ LastRequest /\ LastAnswer
  BY DEF GraphInv, GraphType
<1>. DEFINE m == Head(toHost)
<1>1. /\ toHost # <<>> /\ toHost' = Tail(toHost) /\ UNCHANGED <<view, acts>>
      /\ \/ m.kind = "loadGraph" /\ Graph!LoadGraph(m.query) /\ moved' = FALSE
         \/ m.kind = "selectBase" /\ Graph!SelectBase(m.base)
  BY DEF Graph!HostReceives
<1>2. /\ toHost' \in Seq(Orders) /\ m \in Orders
      /\ \A k : Carries(toHost, k) <=> Carries(toHost', k) \/ m.kind = k
      /\ \A k, x : Last(toHost', k, x) => Last(toHost, k, x)
      /\ \A k : m.kind = k /\ ~ Carries(toHost', k) => Last(toHost, k, m)
  BY <1>0, <1>1, LastTaken
<1>. HIDE DEF m
<1>3. LastRequest'
  BY <1>0, <1>1, <1>2 DEF LastRequest
<1>4. CASE m.kind = "loadGraph" /\ Graph!LoadGraph(m.query) /\ moved' = FALSE
  <2>. DEFINE h == [host EXCEPT !.query = m.query, !.pending = TRUE]
  <2>1. m.query \in Graph!Queries
    BY <1>2, <1>4, GraphParts
  <2>2. h \in Panels /\ h.pending /\ h.query = m.query
    BY <1>0, <2>1 DEF Panels
  <2>3. ~ Carries(toHost', "loadGraph") => h.query = view.asked
    BY <1>0, <1>2, <1>4, <2>2 DEF LastRequest
  <2>4. CASE index.ready
    <3>1. Graph!RunGraphSlice(h, index, toView) /\ index' = index
      BY <1>4, <2>4 DEF Graph!LoadGraph
    <3>. HIDE DEF h
    <3>2. Graph!RunGraphSlice(h, index', toView) /\ index' \in Indexes /\ moved' \in BOOLEAN
          /\ acts' \in 0 .. MaxGraphActs /\ view' = view
      BY <1>0, <1>1, <1>4, <3>1
    <3>. QED BY <1>0, <1>2, <1>3, <2>2, <2>3, <3>2, SliceKeeps
  <2>5. CASE ~ index.ready
    <3>1. /\ host' = [h EXCEPT !.kicked = TRUE] /\ index' = [index EXCEPT !.syncing = TRUE]
          /\ toView' = toView
      BY <1>4, <2>5 DEF Graph!LoadGraph
    <3>. HIDE DEF h
    <3>2. host' \in Panels /\ host'.pending /\ host'.query = h.query
      BY <2>2, <3>1 DEF Panels
    <3>3. index' \in Indexes /\ ~ index'.ready
      BY <1>0, <2>5, <3>1 DEF Indexes
    <3>4. Timed' /\ Awaited' /\ LastAnswer'
      BY <1>1, <2>3, <3>2, <3>3 DEF Timed, Awaited, LastAnswer
    <3>5. GraphType'
      BY <1>0, <1>1, <1>2, <1>4, <3>1, <3>2, <3>3 DEF GraphType
    <3>. QED BY <1>3, <3>4, <3>5 DEF GraphInv
  <2>. QED BY <2>4, <2>5
<1>5. CASE m.kind = "selectBase" /\ Graph!SelectBase(m.base)
  <2>. DEFINE b == m.base
              h == [host EXCEPT !.timer = TRUE]
              u == [kind |-> "uiState"]
              first == Append(toView, u)
              posted == Graph!Reported(first, index')
  <2>1. PICK r \in BOOLEAN :
           /\ index' = Graph!Pinned(b, r)
           /\ moved' = (moved \/ (b # index.base /\ ~ host.pending))
           /\ Graph!SendIndexStatus(h, index', first)
    BY <1>5 DEF Graph!SelectBase
  <2>2. b \in Open
    BY <1>2, <1>5, GraphParts
  <2>3. index' \in Indexes /\ index'.base = b
    BY <2>1, <2>2 DEF Graph!Pinned, Indexes
  <2>4. h \in Panels /\ h.pending = host.pending /\ h.query = host.query /\ h.failed = host.failed
    BY <1>0 DEF Panels
  <2>5. Graph!RunGraphSlice(h, index', posted)
    BY <2>1 DEF Graph!SendIndexStatus
  <2>6. /\ posted \in Seq(Posts)
        /\ Carries(posted, "navigate") <=> Carries(toView, "navigate")
        /\ Carries(posted, "slice") <=> Carries(toView, "slice")
        /\ Carries(posted, "error") <=> Carries(toView, "error")
        /\ \A x : Last(posted, "slice", x) <=> Last(toView, "slice", x)
    <3>1. u \in Posts /\ u.kind = "uiState"
      BY DEF Posts
    <3>. HIDE DEF u
    <3>2. /\ first \in Seq(Posts)
          /\ \A k : Carries(first, k) <=> Carries(toView, k) \/ u.kind = k
          /\ \A k, x : u.kind # k => (Last(first, k, x) <=> Last(toView, k, x))
      BY <1>0, <3>1, LastSent1
    <3>. HIDE DEF first
    <3>. QED BY <2>3, <3>1, <3>2, StatusKeeps
  <2>. HIDE DEF h, u, first, posted
  <2>7. moved' \in BOOLEAN /\ (~ moved' => ~ moved /\ (host.pending \/ b = index.base))
    BY <1>0, <2>1
  <2>8. view.loading => \/ Carries(toHost', "loadGraph") \/ h.pending
                        \/ Carries(posted, "slice") \/ Carries(posted, "error")
    BY <1>0, <1>2, <1>5, <2>4, <2>6 DEF Awaited
  <2>9. ~ Carries(toHost, "loadGraph") <=> ~ Carries(toHost', "loadGraph")
    BY <1>2, <1>5
  <2>10. ASSUME NEW s, ~ host.pending, Serves(s, view.asked, moved, index.base)
         PROVE  Serves(s, view.asked, moved', index'.base)
    BY <2>3, <2>7, <2>10 DEF Serves
  <2>11. ~ Carries(toHost', "loadGraph") /\ ~ Carries(posted, "navigate") /\ view.asked # None =>
              /\ h.pending => h.query = view.asked
              /\ ~ h.pending /\ ~ h.failed =>
                   /\ \A x : Last(toView, "slice", x) =>
                                 Serves(x.slice, view.asked, moved', index'.base)
                   /\ ~ Carries(toView, "slice") =>
                         view.slice # None /\ Serves(view.slice, view.asked, moved', index'.base)
    BY <1>0, <2>4, <2>6, <2>9, <2>10 DEF LastAnswer
  <2>12. view' = view /\ acts' \in 0 .. MaxGraphActs
    BY <1>0, <1>1
  <2>. QED BY <1>2, <1>3, <2>3, <2>4, <2>5, <2>6, <2>7, <2>8, <2>11, <2>12, SliceKeeps
<1>. QED BY <1>1, <1>4, <1>5

\* Steps of the host of themselves, and of the index.
LEMMA HostActs ==
    ASSUME GraphInv,
           \/ \E c \in Centres : Graph!ApplyNavigateIntent(c)
           \/ Graph!StatusPosts \/ Graph!SyncEnds
           \/ \E s \in BOOLEAN : Graph!IndexLeaves(s)
           \/ \E b \in Open, r \in BOOLEAN : Graph!BaseChanges(b, r)
           \/ Graph!OtherFails
    PROVE  GraphInv'
<1>0. /\ index \in Indexes /\ host \in Panels /\ view \in GraphViews
      /\ toHost \in Seq(Orders) /\ toView \in Seq(Posts) /\ moved \in BOOLEAN
      /\ acts \in 0 .. MaxGraphActs /\ Timed /\ Awaited /\ LastRequest /\ LastAnswer
  BY DEF GraphInv, GraphType
<1>1. view' = view /\ toHost' = toHost
  BY DEF Graph!ApplyNavigateIntent, Graph!StatusPosts, Graph!SyncEnds, Graph!IndexLeaves,
         Graph!BaseChanges, Graph!OtherFails
<1>2. Graph!Act => acts' \in 0 .. MaxGraphActs
  <2>1. MaxGraphActs \in Nat
    BY EditorAssumption
  <2>. QED BY <1>0, <2>1 DEF Graph!Act
<1>3. LastRequest' /\ toHost' \in Seq(Orders)
  BY <1>0, <1>1 DEF LastRequest
<1>4. ASSUME NEW c \in Centres, Graph!ApplyNavigateIntent(c) PROVE GraphInv'
  <2>. DEFINE h == [host EXCEPT !.query.centre = c, !.pending = TRUE]
              n == [kind |-> "navigate", centre |-> c]
              posted == Append(toView, n)
  <2>1. /\ Graph!Act /\ Graph!RunGraphSlice(h, index, posted) /\ moved' = FALSE /\ index' = index
    BY <1>4 DEF Graph!ApplyNavigateIntent
  <2>2. h \in Panels /\ h.pending
    BY <1>0 DEF Panels, Graph!Queries
  <2>3. n \in Posts /\ n.kind = "navigate"
    BY DEF Posts
  <2>. HIDE DEF h, n
  <2>4. /\ posted \in Seq(Posts) /\ Carries(posted, "navigate")
        /\ Carries(toView, "slice") <=> Carries(posted, "slice")
        /\ \A x : Last(posted, "slice", x) <=> Last(toView, "slice", x)
    <3>1. /\ posted \in Seq(Posts)
          /\ \A k : Carries(posted, k) <=> Carries(toView, k) \/ n.kind = k
          /\ \A k, x : n.kind # k => (Last(posted, k, x) <=> Last(toView, k, x))
      BY <1>0, <2>3, LastSent1
    <3>. QED BY <2>3, <3>1
  <2>. HIDE DEF posted
  <2>5. /\ Graph!RunGraphSlice(h, index', posted) /\ index' \in Indexes /\ moved' \in BOOLEAN
        /\ acts' \in 0 .. MaxGraphActs
    BY <1>0, <1>2, <2>1
  <2>. QED BY <1>1, <1>3, <2>2, <2>4, <2>5, SliceKeeps
\* The status path, with the host as h.
<1>5. ASSUME NEW h \in Panels, h.pending = host.pending, h.query = host.query, h.failed = host.failed,
             Graph!SendIndexStatus(h, index', toView), index' \in Indexes, index'.base = index.base,
             moved' = moved, acts' = acts
      PROVE  GraphInv'
  <2>. DEFINE posted == Graph!Reported(toView, index')
  <2>1. /\ posted \in Seq(Posts)
        /\ Carries(posted, "navigate") <=> Carries(toView, "navigate")
        /\ Carries(posted, "slice") <=> Carries(toView, "slice")
        /\ Carries(posted, "error") <=> Carries(toView, "error")
        /\ \A x : Last(posted, "slice", x) <=> Last(toView, "slice", x)
    BY <1>0, <1>5, StatusKeeps
  <2>2. Graph!RunGraphSlice(h, index', posted)
    BY <1>5 DEF Graph!SendIndexStatus
  <2>. HIDE DEF posted
  <2>3. view.loading => \/ Carries(toHost', "loadGraph") \/ h.pending
                        \/ Carries(posted, "slice") \/ Carries(posted, "error")
    BY <1>0, <1>1, <1>5, <2>1 DEF Awaited
  <2>4. ~ Carries(toHost', "loadGraph") /\ ~ Carries(posted, "navigate") /\ view.asked # None =>
              /\ h.pending => h.query = view.asked
              /\ ~ h.pending /\ ~ h.failed =>
                   /\ \A x : Last(toView, "slice", x) =>
                                 Serves(x.slice, view.asked, moved', index'.base)
                   /\ ~ Carries(toView, "slice") =>
                         view.slice # None /\ Serves(view.slice, view.asked, moved', index'.base)
    BY <1>0, <1>1, <1>5, <2>1 DEF LastAnswer
  <2>5. moved' \in BOOLEAN /\ acts' \in 0 .. MaxGraphActs
    BY <1>0, <1>5
  <2>. QED BY <1>1, <1>3, <1>5, <2>1, <2>2, <2>3, <2>4, <2>5, SliceKeeps
<1>6. CASE Graph!StatusPosts
  <2>. DEFINE h == [host EXCEPT !.timer = FALSE]
  <2>1. h \in Panels /\ h.pending = host.pending /\ h.query = host.query /\ h.failed = host.failed
    BY <1>0 DEF Panels
  <2>2. /\ Graph!SendIndexStatus(h, index, toView) /\ index' = index /\ moved' = moved /\ acts' = acts
    BY <1>6 DEF Graph!StatusPosts
  <2>. HIDE DEF h
  <2>3. Graph!SendIndexStatus(h, index', toView)
    BY <2>2
  <2>. QED BY <1>0, <1>5, <2>1, <2>2, <2>3
<1>7. CASE Graph!SyncEnds
  <2>. DEFINE h == [host EXCEPT !.timer = TRUE, !.kicked = FALSE]
  <2>1. h \in Panels /\ h.pending = host.pending /\ h.query = host.query /\ h.failed = host.failed /\ h.timer
    BY <1>0 DEF Panels
  <2>2. /\ \/ Graph!SendIndexStatus(h, index', toView)
           \/ host' = h /\ toView' = toView
        /\ index' = [index EXCEPT !.ready = TRUE, !.syncing = FALSE]
        /\ moved' = moved /\ acts' = acts
    BY <1>7 DEF Graph!SyncEnds
  <2>. HIDE DEF h
  <2>3. index' \in Indexes /\ index'.base = index.base
    BY <1>0, <2>2 DEF Indexes
  <2>4. CASE host' = h /\ toView' = toView
    <3>1. Timed' /\ Awaited' /\ LastAnswer'
      BY <1>0, <1>1, <2>1, <2>2, <2>3, <2>4 DEF Timed, Awaited, LastAnswer
    <3>2. GraphType'
      BY <1>0, <1>1, <2>1, <2>2, <2>3, <2>4 DEF GraphType
    <3>. QED BY <1>3, <3>1, <3>2 DEF GraphInv
  <2>. QED BY <1>5, <2>1, <2>2, <2>3, <2>4
<1>8. ASSUME NEW s \in BOOLEAN, Graph!IndexLeaves(s) PROVE GraphInv'
  <2>1. /\ Graph!Act /\ index' = [index EXCEPT !.ready = FALSE, !.syncing = s]
        /\ host' = [host EXCEPT !.timer = TRUE] /\ toView' = toView /\ moved' = moved
    BY <1>8 DEF Graph!IndexLeaves
  <2>2. index' \in Indexes /\ index'.base = index.base /\ ~ index'.ready
    BY <1>0, <2>1 DEF Indexes
  <2>3. host' \in Panels /\ host'.pending = host.pending /\ host'.query = host.query /\ host'.failed = host.failed
    BY <1>0, <2>1 DEF Panels
  <2>4. Timed' /\ Awaited' /\ LastAnswer'
    BY <1>0, <1>1, <2>1, <2>2, <2>3 DEF Timed, Awaited, LastAnswer
  <2>5. GraphType'
    BY <1>0, <1>1, <1>2, <2>1, <2>2, <2>3 DEF GraphType
  <2>. QED BY <1>3, <2>4, <2>5 DEF GraphInv
<1>9. ASSUME NEW b \in Open, NEW r \in BOOLEAN, Graph!BaseChanges(b, r) PROVE GraphInv'
  <2>1. /\ Graph!Act /\ index' = Graph!Pinned(b, r) /\ host' = [host EXCEPT !.timer = TRUE]
        /\ moved' = (moved \/ ~ host.pending) /\ toView' = toView
    BY <1>9 DEF Graph!BaseChanges
  <2>2. index' \in Indexes
    BY <2>1 DEF Indexes, Graph!Pinned
  <2>3. /\ host' \in Panels /\ host'.timer
        /\ host'.pending = host.pending /\ host'.query = host.query /\ host'.failed = host.failed
    BY <1>0, <2>1 DEF Panels
  <2>4. Timed' /\ Awaited'
    BY <1>0, <1>1, <2>1, <2>3 DEF Timed, Awaited
  <2>5. \A s : ~ host.pending /\ Serves(s, view.asked, moved, index.base)
                => Serves(s, view.asked, moved', index'.base)
    BY <2>1 DEF Serves
  <2>6. LastAnswer'
    BY <1>0, <1>1, <2>1, <2>3, <2>5 DEF LastAnswer
  <2>7. GraphType'
    BY <1>0, <1>1, <1>2, <2>1, <2>2, <2>3 DEF GraphType
  <2>. QED BY <1>3, <2>4, <2>6, <2>7 DEF GraphInv
<1>10. CASE Graph!OtherFails
  <2>. DEFINE e == [kind |-> "error"]
  <2>1. Graph!Act /\ toView' = Append(toView, e) /\ UNCHANGED <<index, host, moved>>
    BY <1>10 DEF Graph!OtherFails
  <2>2. e \in Posts /\ e.kind = "error"
    BY DEF Posts
  <2>. HIDE DEF e
  <2>3. /\ toView' \in Seq(Posts)
        /\ \A k : Carries(toView', k) <=> Carries(toView, k) \/ e.kind = k
        /\ \A k, x : e.kind # k => (Last(toView', k, x) <=> Last(toView, k, x))
    BY <1>0, <2>1, <2>2, LastSent1
  <2>4. Timed' /\ Awaited'
    BY <1>0, <1>1, <2>1, <2>3 DEF Timed, Awaited
  <2>5. LastAnswer'
    BY <1>0, <1>1, <2>1, <2>2, <2>3 DEF LastAnswer
  <2>6. GraphType'
    BY <1>0, <1>1, <1>2, <2>1, <2>3 DEF GraphType
  <2>. QED BY <1>3, <2>4, <2>5, <2>6 DEF GraphInv
<1>. QED BY <1>4, <1>6, <1>7, <1>8, <1>9, <1>10

\* The view asks for a graph.
LEMMA ViewLoads ==
    ASSUME GraphInv, NEW v \in GraphViews, NEW q \in Graph!Queries, Graph!Load(v, q),
           UNCHANGED <<index, host, moved>>, toView' \in Seq(Posts), acts' \in 0 .. MaxGraphActs
    PROVE  GraphInv'
<1>. DEFINE m == [kind |-> "loadGraph", query |-> q]
<1>1. /\ view' = [v EXCEPT !.query = q, !.loading = TRUE, !.error = FALSE, !.asked = q]
      /\ toHost' = Append(toHost, m)
  BY DEF Graph!Load
<1>2. view' \in GraphViews /\ view'.asked = q
  BY <1>1 DEF GraphViews
<1>3. m \in Orders /\ m.kind = "loadGraph" /\ m.query = q
  BY DEF Orders
<1>. HIDE DEF m
<1>4. /\ toHost' \in Seq(Orders) /\ Carries(toHost', "loadGraph")
      /\ \A x : Last(toHost', "loadGraph", x) => x = m
  <2>1. toHost \in Seq(Orders)
    BY DEF GraphInv, GraphType
  <2>2. /\ Append(toHost, m) \in Seq(Orders)
        /\ \A k : Carries(Append(toHost, m), k) <=> Carries(toHost, k) \/ m.kind = k
        /\ \A x : Last(Append(toHost, m), m.kind, x) => x = m
    BY <1>3, <2>1, LastSent1
  <2>. QED BY <1>1, <1>3, <2>2
<1>5. Timed' /\ Awaited' /\ LastRequest' /\ LastAnswer'
  BY <1>2, <1>3, <1>4 DEF GraphInv, Timed, Awaited, LastRequest, LastAnswer
<1>6. GraphType'
  BY <1>2, <1>4 DEF GraphInv, GraphType
<1>. QED BY <1>5, <1>6 DEF GraphInv

\* Of what the invariant speaks of, the view's own query and its flags say little.
LEMMA ViewKeeps ==
    ASSUME GraphInv, UNCHANGED <<index, host, moved, toHost>>, acts' \in 0 .. MaxGraphActs,
           view' \in GraphViews, view'.asked = view.asked, view'.slice = view.slice,
           view'.loading => view.loading,
           NEW k \in {"status", "uiState", "error"}, k = "error" => ~ view'.loading,
           \/ toView' = toView
           \/ toView # <<>> /\ Head(toView).kind = k /\ toView' = Tail(toView)
    PROVE  GraphInv'
<1>1. toView \in Seq(Posts) /\ Awaited /\ LastAnswer
  BY DEF GraphInv, GraphType
<1>2. /\ toView' \in Seq(Posts)
      /\ Carries(toView, "navigate") <=> Carries(toView', "navigate")
      /\ Carries(toView, "slice") <=> Carries(toView', "slice")
      /\ view'.loading /\ Carries(toView, "error") => Carries(toView', "error")
      /\ \A x : Last(toView', "slice", x) => Last(toView, "slice", x)
  <2>1. CASE toView' = toView
    BY <1>1, <2>1
  <2>2. CASE toView # <<>> /\ Head(toView).kind = k /\ toView' = Tail(toView)
    <3>1. /\ Tail(toView) \in Seq(Posts)
          /\ \A j : Carries(toView, j) <=> Carries(Tail(toView), j) \/ Head(toView).kind = j
          /\ \A j, x : Last(Tail(toView), j, x) => Last(toView, j, x)
      BY <1>1, <2>2, LastTaken
    <3>2. Head(toView).kind # "slice" /\ Head(toView).kind # "navigate"
      BY <2>2
    <3>. QED BY <2>2, <3>1, <3>2
  <2>. QED BY <2>1, <2>2
<1>3. Timed' /\ LastRequest' /\ Awaited'
  BY <1>2 DEF GraphInv, Timed, LastRequest, Awaited
<1>4. LastAnswer'
  BY <1>1, <1>2 DEF LastAnswer
<1>5. GraphType'
  BY <1>2 DEF GraphInv, GraphType
<1>. QED BY <1>3, <1>4, <1>5 DEF GraphInv

\* The view takes a message.
LEMMA ViewTakes ==
    ASSUME GraphInv, Graph!ViewReceives
    PROVE  GraphInv'
<1>0. /\ view \in GraphViews /\ toView \in Seq(Posts) /\ acts \in 0 .. MaxGraphActs
      /\ Awaited /\ LastAnswer
  BY DEF GraphInv, GraphType
<1>. DEFINE m == Head(toView)
            seen == [view EXCEPT !.wasReady = m.ready]
<1>1. /\ toView # <<>> /\ toView' = Tail(toView) /\ UNCHANGED <<index, host, moved, acts>>
      /\ \/ /\ m.kind = "status"
            /\ Graph!Load(seen, view.query) \/ (view' = seen /\ toHost' = toHost)
         \/ /\ m.kind = "slice"
            /\ view' = [view EXCEPT !.query = m.slice.query, !.slice = m.slice,
                                    !.loading = FALSE, !.error = FALSE]
            /\ toHost' = toHost
         \/ m.kind = "uiState" /\ Graph!RequestGraph(view)
         \/ m.kind = "navigate" /\ Graph!Load(view, [view.query EXCEPT !.centre = m.centre])
         \/ /\ m.kind = "error"
            /\ view' = [view EXCEPT !.error = @ \/ view.loading, !.loading = FALSE]
            /\ toHost' = toHost
  BY DEF Graph!ViewReceives, Graph!ViewAlone
<1>2. m \in Posts /\ toView' \in Seq(Posts) /\ acts' \in 0 .. MaxGraphActs
  BY <1>0, <1>1, LastTaken
<1>3. view.query \in Graph!Queries
  BY <1>0 DEF GraphViews
<1>4. CASE m.kind = "status"
  <2>1. m.ready \in BOOLEAN
    BY <1>2, <1>4, GraphParts
  <2>2. /\ seen \in GraphViews /\ seen.asked = view.asked /\ seen.slice = view.slice
        /\ seen.loading = view.loading
    BY <1>0, <2>1 DEF GraphViews
  <2>3. Graph!Load(seen, view.query) \/ (view' = seen /\ toHost' = toHost)
    BY <1>1, <1>4
  <2>4. CASE Graph!Load(seen, view.query)
    <3>. HIDE DEF seen
    <3>. QED BY <1>1, <1>2, <1>3, <2>2, <2>4, ViewLoads
  <2>5. CASE view' = seen /\ toHost' = toHost
    <3>. HIDE DEF seen
    <3>. QED BY <1>1, <1>2, <1>4, <2>2, <2>5, ViewKeeps
  <2>. QED BY <2>3, <2>4, <2>5
<1>5. CASE m.kind = "slice"
  <2>1. m.slice \in Graph!Slices /\ m.slice # None /\ m.slice.query \in Graph!Queries
    BY <1>2, <1>5, GraphParts, EditorAssumption DEF Graph!Slices
  <2>2. /\ view' = [view EXCEPT !.query = m.slice.query, !.slice = m.slice,
                                !.loading = FALSE, !.error = FALSE]
        /\ toHost' = toHost
    BY <1>1, <1>5
  <2>3. /\ \A k : Carries(toView, k) <=> Carries(toView', k) \/ m.kind = k
        /\ \A k, x : Last(toView', k, x) => Last(toView, k, x)
        /\ \A k : m.kind = k /\ ~ Carries(toView', k) => Last(toView, k, m)
    BY <1>0, <1>1, LastTaken
  <2>. HIDE DEF m
  <2>4. /\ view' \in GraphViews /\ ~ view'.loading /\ view'.asked = view.asked
        /\ view'.slice = m.slice
    BY <1>0, <2>1, <2>2 DEF GraphViews
  <2>5. Timed' /\ Awaited' /\ LastRequest'
    BY <1>1, <2>2, <2>4 DEF GraphInv, Timed, Awaited, LastRequest
  <2>6. LastAnswer'
    BY <1>0, <1>1, <1>5, <2>1, <2>2, <2>3, <2>4 DEF LastAnswer
  <2>7. GraphType'
    BY <1>1, <1>2, <2>2, <2>4 DEF GraphInv, GraphType
  <2>. QED BY <2>5, <2>6, <2>7 DEF GraphInv
<1>6. CASE m.kind = "uiState"
  <2>1. Graph!Load(view, view.query) \/ (view' = view /\ toHost' = toHost)
    BY <1>1, <1>6 DEF Graph!RequestGraph
  <2>. QED BY <1>0, <1>1, <1>2, <1>3, <1>6, <2>1, ViewLoads, ViewKeeps
<1>7. CASE m.kind = "navigate"
  <2>. DEFINE q == [view.query EXCEPT !.centre = m.centre]
  <2>1. m.centre \in Centres
    BY <1>2, <1>7, GraphParts
  <2>2. q \in Graph!Queries
    BY <1>3, <2>1 DEF Graph!Queries
  <2>3. Graph!Load(view, q)
    BY <1>1, <1>7
  <2>. HIDE DEF q
  <2>. QED BY <1>0, <1>1, <1>2, <2>2, <2>3, ViewLoads
<1>8. CASE m.kind = "error"
  <2>1. view' = [view EXCEPT !.error = @ \/ view.loading, !.loading = FALSE] /\ toHost' = toHost
    BY <1>1, <1>8
  <2>2. /\ view' \in GraphViews /\ ~ view'.loading /\ view'.asked = view.asked
        /\ view'.slice = view.slice
    <3>. DEFINE e == view.error \/ view.loading
    <3>1. view' = [view EXCEPT !.error = e, !.loading = FALSE] /\ e \in BOOLEAN
      BY <1>0, <2>1 DEF GraphViews
    <3>. HIDE DEF e
    <3>. QED BY <1>0, <3>1 DEF GraphViews
  <2>. QED BY <1>1, <1>2, <1>8, <2>1, <2>2, ViewKeeps
<1>. QED BY <1>1, <1>4, <1>5, <1>6, <1>7, <1>8

LEMMA GraphStep ==
    ASSUME GraphInv, [Graph!Next]_(Graph!graphVars)
    PROVE  GraphInv'
<1>0. /\ view \in GraphViews /\ toHost \in Seq(Orders) /\ toView \in Seq(Posts)
      /\ acts \in 0 .. MaxGraphActs
  BY DEF GraphInv, GraphType
<1>1. Graph!Act => acts' \in 0 .. MaxGraphActs
  <2>1. MaxGraphActs \in Nat
    BY EditorAssumption
  <2>. QED BY <1>0, <2>1 DEF Graph!Act
<1>2. view.query \in Graph!Queries
  BY <1>0 DEF GraphViews
<1>3. ASSUME NEW t \in Filters, Graph!HandleSearch(t) PROVE GraphInv'
  <2>. DEFINE q == [search |-> t, centre |-> None]
  <2>1. /\ Graph!Act /\ view' = [view EXCEPT !.query = q, !.typed = q]
        /\ UNCHANGED <<index, host, moved, toHost, toView>>
    BY <1>3 DEF Graph!HandleSearch, Graph!ViewAlone
  <2>2. q \in Graph!Queries
    BY DEF Graph!Queries
  <2>. HIDE DEF q
  <2>3. /\ view' \in GraphViews /\ view'.loading = view.loading /\ view'.asked = view.asked
        /\ view'.slice = view.slice
    BY <1>0, <2>1, <2>2 DEF GraphViews
  <2>. QED BY <1>1, <2>1, <2>3, ViewKeeps
<1>4. CASE Graph!EmitQuery
  <2>. DEFINE v == [view EXCEPT !.typed = None]
  <2>1. v \in GraphViews /\ view.typed \in Graph!Queries
    BY <1>0, <1>4 DEF GraphViews, Graph!EmitQuery
  <2>2. /\ Graph!Load(v, view.typed) /\ UNCHANGED <<index, host, moved, toView, acts>>
    BY <1>4 DEF Graph!EmitQuery, Graph!ViewAlone
  <2>. HIDE DEF v
  <2>. QED BY <1>0, <2>1, <2>2, ViewLoads
<1>5. ASSUME NEW c \in Centres, Graph!FocusNode(c) PROVE GraphInv'
  <2>. DEFINE q == [view.query EXCEPT !.centre = c]
  <2>1. q \in Graph!Queries
    BY <1>2 DEF Graph!Queries
  <2>2. Graph!Act /\ Graph!Load(view, q) /\ UNCHANGED <<index, host, moved, toView>>
    BY <1>5 DEF Graph!FocusNode, Graph!ViewAlone
  <2>. HIDE DEF q
  <2>. QED BY <1>0, <1>1, <2>1, <2>2, ViewLoads
<1>6. CASE Graph!SetTab
  <2>1. /\ Graph!Act /\ UNCHANGED <<index, host, moved, toView>>
        /\ Graph!Load(view, view.query) \/ (view' = view /\ toHost' = toHost)
    BY <1>6 DEF Graph!SetTab, Graph!ViewAlone, Graph!RequestGraph
  <2>. QED BY <1>0, <1>1, <1>2, <2>1, ViewLoads, ViewKeeps
<1>7. CASE Graph!LoadTimesOut
  <2>1. /\ Graph!Act /\ UNCHANGED <<index, host, moved, toHost, toView>>
        /\ view' = [view EXCEPT !.loading = FALSE, !.error = TRUE]
    BY <1>7 DEF Graph!LoadTimesOut, Graph!ViewAlone
  <2>2. /\ view' \in GraphViews /\ ~ view'.loading /\ view'.asked = view.asked
        /\ view'.slice = view.slice
    BY <1>0, <2>1 DEF GraphViews
  <2>. QED BY <1>1, <2>1, <2>2, ViewKeeps
<1>8. ASSUME NEW b \in Open, Graph!PickBase(b) PROVE GraphInv'
  <2>. DEFINE m == [kind |-> "selectBase", base |-> b]
  <2>1. /\ Graph!Act /\ UNCHANGED <<index, host, moved, view, toView>>
        /\ toHost' = Append(toHost, m)
    BY <1>8 DEF Graph!PickBase, Graph!ViewAlone
  <2>2. m \in Orders /\ m.kind = "selectBase"
    BY DEF Orders
  <2>. HIDE DEF m
  <2>3. /\ toHost' \in Seq(Orders)
        /\ Carries(toHost', "loadGraph") <=> Carries(toHost, "loadGraph")
        /\ \A x : Last(toHost', "loadGraph", x) <=> Last(toHost, "loadGraph", x)
    BY <1>0, <2>1, <2>2, LastSent1
  <2>4. Timed' /\ LastRequest' /\ Awaited' /\ LastAnswer'
    BY <2>1, <2>3 DEF GraphInv, Timed, LastRequest, Awaited, LastAnswer
  <2>5. GraphType'
    BY <1>1, <2>1, <2>3 DEF GraphInv, GraphType
  <2>. QED BY <2>4, <2>5 DEF GraphInv
<1>9. CASE UNCHANGED Graph!graphVars
  BY <1>9 DEF Graph!graphVars, GraphInv, GraphType, Timed, LastRequest, Awaited, LastAnswer
<1>. QED BY <1>3, <1>4, <1>5, <1>6, <1>7, <1>8, <1>9, HostTakes, HostActs, ViewTakes
         DEF Graph!Next, Graph!Program

LEMMA GraphInvariant == Graph!Spec => []GraphInv
<1>1. ASSUME Graph!Init PROVE GraphInv
  <2>1. PICK b \in Open, r \in BOOLEAN :
           /\ index = [base |-> b, ready |-> r, syncing |-> ~ r]
           /\ view = [query |-> Graph!Whole, slice |-> None, loading |-> FALSE, error |-> FALSE,
                      wasReady |-> r, typed |-> None, asked |-> None]
    BY <1>1 DEF Graph!Init
  <2>2. /\ host = [query |-> Graph!Whole, pending |-> FALSE, timer |-> FALSE, kicked |-> FALSE,
                   failed |-> FALSE]
        /\ toHost = <<>> /\ toView = <<>> /\ moved = FALSE /\ acts = 0
    BY <1>1 DEF Graph!Init
  <2>3. Graph!Whole \in Graph!Queries
    BY DEF Graph!Whole, Graph!Queries
  <2>4. GraphType
    <3>1. MaxGraphActs \in Nat
      BY EditorAssumption
    <3>2. toHost \in Seq(Orders) /\ toView \in Seq(Posts)
      BY <2>2
    <3>6. moved \in BOOLEAN
      BY <2>2
    <3>7. acts \in 0 .. MaxGraphActs
      BY <2>2, <3>1
    <3>3. index \in Indexes
      BY <2>1 DEF Indexes
    <3>4. host \in Panels
      BY <2>2, <2>3 DEF Panels
    <3>5. view \in GraphViews
      BY <2>1, <2>3 DEF GraphViews
    <3>. QED BY <3>2, <3>3, <3>4, <3>5, <3>6, <3>7 DEF GraphType
  <2>5. \A x : ~ Last(toHost, "loadGraph", x)
    BY <2>2 DEF Last
  <2>. QED BY <2>1, <2>2, <2>4, <2>5 DEF GraphInv, Timed, Awaited, LastRequest, LastAnswer
<1>. QED BY <1>1, GraphStep, PTL DEF Graph!Spec

\* The variables of the panel and its view have their types.
LEMMA GraphTyped == GraphInv => Graph!TypeOK
<1>. SUFFICES ASSUME GraphInv PROVE Graph!TypeOK
  OBVIOUS
<1>1. /\ \A i \in DOMAIN toHost : toHost[i] \in Orders
      /\ \A i \in DOMAIN toView : toView[i] \in Posts
  BY ElementOfSeq DEF GraphInv, GraphType
<1>. QED BY <1>1, GraphParts
         DEF GraphInv, GraphType, Graph!TypeOK, Indexes, Panels, GraphViews

\* The host and the view have no message to take and no status to post.
GraphAtRest == toHost = <<>> /\ toView = <<>> /\ ~ host.timer

\* Whatever the user, the index and the time-out do, and for any filters, ideas and bases:
\* when no message is under way and no status is due, no request waits at the host of a
\* ready index, no spinner turns there, and the graph shown answers the last request of
\* the view, if its slice could be built (ideas-summary-panel.ts:361-381, 563-591,
\* 985-1045).
THEOREM GraphRests ==
    Graph!Spec => [](GraphAtRest => Graph!NothingPending /\ Graph!LastAskedShown)
<1>1. GraphInv => (GraphAtRest => Graph!NothingPending /\ Graph!LastAskedShown)
  <2>. SUFFICES ASSUME GraphInv, GraphAtRest
                PROVE  Graph!NothingPending /\ Graph!LastAskedShown
    OBVIOUS
  <2>1. \A k : ~ Carries(toHost, k) /\ ~ Carries(toView, k)
    BY DEF GraphAtRest, Carries
  <2>2. Graph!NothingPending
    BY <2>1 DEF GraphInv, Timed, Awaited, GraphAtRest, Graph!NothingPending
  <2>3. index.ready /\ ~ host.failed /\ view.asked # None =>
           view.slice # None /\ Serves(view.slice, view.asked, moved, index.base)
    BY <2>1, <2>2 DEF GraphInv, LastAnswer, Graph!NothingPending
  <2>. QED BY <2>2, <2>3 DEF Serves, Graph!LastAskedShown
<1>. QED BY <1>1, GraphInvariant, PTL

(***************************************************************************)
(* The types of the search pane                                            *)
(***************************************************************************)
\* The queries that the view is still to be seeded with.
Seeds(s) == {i \in 1 .. Len(s) : s[i].kind = "seed"}

LEMMA SeedsPosted ==
    ASSUME NEW S, NEW s \in Seq(S), NEW m \in S
    PROVE  /\ Cardinality(Seeds(s)) \in Nat
           /\ m.kind # "seed" => Seeds(Append(s, m)) = Seeds(s)
           /\ Cardinality(Seeds(Append(s, m))) <= Cardinality(Seeds(s)) + 1
<1>. DEFINE t == Append(s, m)
<1>1. /\ Len(s) \in Nat /\ Len(t) = Len(s) + 1
      /\ \A i \in 1 .. Len(s) : t[i] = s[i]
      /\ t[Len(s) + 1] = m
  BY Sent
<1>. HIDE DEF t
<1>2. \A i : i \in 1 .. Len(t) <=> i \in 1 .. Len(s) \/ i = Len(s) + 1
  BY <1>1
<1>3. IsFiniteSet(Seeds(s)) /\ Cardinality(Seeds(s)) \in Nat
  <2>1. IsFiniteSet(1 .. Len(s))
    <3>1. 1 \in Int /\ Len(s) \in Int
      BY <1>1
    <3>. QED BY <3>1, FS_Interval
  <2>2. Seeds(s) \in SUBSET (1 .. Len(s))
    BY DEF Seeds
  <2>. QED BY <2>1, <2>2, FS_Subset, FS_CardinalityType
<1>4. ASSUME m.kind # "seed" PROVE Seeds(t) = Seeds(s)
  BY <1>1, <1>2, <1>4 DEF Seeds
<1>5. ASSUME m.kind = "seed" PROVE Seeds(t) = Seeds(s) \cup {Len(s) + 1}
  BY <1>1, <1>2, <1>5 DEF Seeds
<1>6. /\ IsFiniteSet(Seeds(s) \cup {Len(s) + 1})
      /\ Cardinality(Seeds(s) \cup {Len(s) + 1}) <= Cardinality(Seeds(s)) + 1
  <2>. DEFINE x == Len(s) + 1
  <2>1. Cardinality(Seeds(s) \cup {x}) =
            IF x \in Seeds(s) THEN Cardinality(Seeds(s)) ELSE Cardinality(Seeds(s)) + 1
    BY <1>3, FS_AddElement
  <2>2. IsFiniteSet(Seeds(s) \cup {x})
    BY <1>3, FS_AddElement
  <2>. QED BY <1>3, <2>1, <2>2
<1>7. Cardinality(Seeds(t)) <= Cardinality(Seeds(s)) + 1
  <2>1. CASE m.kind = "seed"
    BY <1>5, <1>6, <2>1
  <2>2. CASE m.kind # "seed"
    BY <1>3, <1>4, <2>2
  <2>. QED BY <2>1, <2>2
<1>. QED BY <1>3, <1>4, <1>7 DEF t

LEMMA SeedTaken ==
    ASSUME NEW S, NEW s \in Seq(S), s # <<>>
    PROVE  /\ Cardinality(Seeds(s)) \in Nat /\ Cardinality(Seeds(Tail(s))) \in Nat
           /\ Cardinality(Seeds(Tail(s))) <= Cardinality(Seeds(s))
           /\ Head(s).kind = "seed" => Cardinality(Seeds(Tail(s))) <= Cardinality(Seeds(s)) - 1
<1>. DEFINE t == Tail(s)
            f == [i \in Seeds(t) |-> i + 1]
<1>1. /\ Len(s) \in Nat \ {0} /\ Len(t) = Len(s) - 1 /\ Head(s) = s[1]
      /\ \A i \in 1 .. Len(t) : t[i] = s[i + 1] /\ i + 1 \in 1 .. Len(s)
  BY Behind
<1>. HIDE DEF t
<1>2. IsFiniteSet(Seeds(s)) /\ Cardinality(Seeds(s)) \in Nat
  <2>1. IsFiniteSet(1 .. Len(s))
    <3>1. 1 \in Int /\ Len(s) \in Int
      BY <1>1
    <3>. QED BY <3>1, FS_Interval
  <2>2. Seeds(s) \in SUBSET (1 .. Len(s))
    BY DEF Seeds
  <2>. QED BY <2>1, <2>2, FS_Subset, FS_CardinalityType
<1>3. /\ IsFiniteSet(Seeds(s) \ {1})
      /\ Cardinality(Seeds(s) \ {1}) =
            IF 1 \in Seeds(s) THEN Cardinality(Seeds(s)) - 1 ELSE Cardinality(Seeds(s))
  BY <1>2, FS_RemoveElement
<1>4. f \in Injection(Seeds(t), Seeds(s) \ {1})
  <2>1. \A i \in Seeds(t) : i \in Nat /\ i # 0 /\ i + 1 \in Seeds(s)
    BY <1>1 DEF Seeds
  <2>2. f \in [Seeds(t) -> Seeds(s) \ {1}]
    BY <2>1
  <2>3. \A i, j \in Seeds(t) : f[i] = f[j] => i = j
    BY <2>1
  <2>. QED BY <2>2, <2>3 DEF Injection, IsInjective
<1>5. IsFiniteSet(Seeds(t)) /\ Cardinality(Seeds(t)) <= Cardinality(Seeds(s) \ {1})
  BY <1>3, <1>4, FS_Injection
<1>6. Cardinality(Seeds(t)) \in Nat
  BY <1>5, FS_CardinalityType
<1>7. Head(s).kind = "seed" => 1 \in Seeds(s)
  BY <1>1 DEF Seeds
<1>. QED BY <1>2, <1>3, <1>5, <1>6, <1>7 DEF t

\* Requests and answers, with the pages that a query has.
PagesOf == 0 .. Pages - 1
Paged   == [id : Nat \ {0}, query : Searches, page : PagesOf]
PagedAnswers == [kind : {"progress", "results", "error"}, request : Paged]
                  \cup [kind : {"seed"}, request : [id : {0}, query : Searches, page : PagesOf]]

PagedType ==
    /\ toHost \in Seq(Paged \cup {Search!OpenMessage})
    /\ flying \subseteq [request : Paged, live : BOOLEAN]
    /\ toView \in Seq(PagedAnswers)
    /\ view.pages \in Seq(Search!Page)
    /\ steps \in [loads : 0 .. MaxLoads, acts : 0 .. MaxSearchActs]

\* There is a page after those shown only if their query has one.
More == view.truncated => view.pages # <<>> /\ view.pages[Len(view.pages)].page + 1 < Pages

\* Each request was made by a click on "Load more", or for another act of the user.
Due    == IF box.timer = None THEN 0 ELSE 1
Made   == view.id + Due + Cardinality(Seeds(toView))
Spent  == steps.loads + steps.acts
Budget == Made <= Spent

BoundInv == PagedType /\ More /\ Budget
ReadyTyped == ready \in BOOLEAN

LEMMA SearchBounds ==
    /\ MaxLoads \in Nat /\ MaxSearchActs \in Nat /\ Pages \in Nat \ {0} /\ 0 \in PagesOf
<1>1. MaxLoads \in Nat /\ MaxSearchActs \in Nat
  BY EditorAssumption
<1>2. Pages \in Nat \ {0}
  BY EditorAssumption
<1>. QED BY <1>1, <1>2 DEF PagesOf

\* A counter, by one.
LEMMA Counted ==
    ASSUME NEW a \in Nat, NEW b \in Nat, NEW s \in [loads : 0 .. a, acts : 0 .. b], NEW t,
           \/ s.acts < b /\ t = [s EXCEPT !.acts = s.acts + 1]
           \/ s.loads < a /\ t = [s EXCEPT !.loads = s.loads + 1]
    PROVE  t \in [loads : 0 .. a, acts : 0 .. b] /\ t.loads + t.acts = s.loads + s.acts + 1
<1>1. s.loads \in 0 .. a /\ s.acts \in 0 .. b
  OBVIOUS
<1>2. CASE s.acts < b /\ t = [s EXCEPT !.acts = s.acts + 1]
  <2>1. s.acts + 1 \in 0 .. b
    BY <1>1, <1>2
  <2>2. t \in [loads : 0 .. a, acts : 0 .. b] /\ t.loads = s.loads /\ t.acts = s.acts + 1
    BY <1>1, <1>2, <2>1
  <2>. QED BY <1>1, <2>2
<1>3. CASE s.loads < a /\ t = [s EXCEPT !.loads = s.loads + 1]
  <2>1. s.loads + 1 \in 0 .. a
    BY <1>1, <1>3
  <2>2. t \in [loads : 0 .. a, acts : 0 .. b] /\ t.acts = s.acts /\ t.loads = s.loads + 1
    BY <1>1, <1>3, <2>1
  <2>. QED BY <1>1, <2>2
<1>. QED BY <1>2, <1>3

\* What a new request adds.
LEMMA PagedAsk ==
    ASSUME PaneInv, PagedType, NEW query \in Searches, NEW page \in PagesOf,
           Search!Ask(query, page)
    PROVE  /\ toHost' \in Seq(Paged \cup {Search!OpenMessage})
           /\ view'.id = view.id + 1 /\ view'.pages = view.pages
           /\ view'.truncated = view.truncated
<1>. DEFINE l == page = 0
            n == page > 0
            m == [id |-> view.id + 1, query |-> query, page |-> page]
<1>1. /\ view' = [view EXCEPT !.id = @ + 1, !.loading = l, !.more = n]
      /\ toHost' = Append(toHost, m)
  BY DEF Search!Ask
<1>2. view \in Views
  BY DEF PaneInv, PaneType, Views
<1>3. view.id + 1 \in Nat \ {0} /\ l \in BOOLEAN /\ n \in BOOLEAN
  BY <1>2 DEF Views
<1>4. m \in Paged \cup {Search!OpenMessage}
  BY <1>3 DEF Paged
<1>. HIDE DEF l, n, m
<1>5. view'.id = view.id + 1 /\ view'.pages = view.pages /\ view'.truncated = view.truncated
  BY <1>1, <1>2 DEF Views
<1>6. toHost' \in Seq(Paged \cup {Search!OpenMessage})
  BY <1>1, <1>4, Sent DEF PagedType
<1>. QED BY <1>5, <1>6

\* What is posted to the view.
LEMMA PagedPost ==
    ASSUME PagedType, NEW m \in PagedAnswers, toView' = Append(toView, m)
    PROVE  /\ toView' \in Seq(PagedAnswers)
           /\ Cardinality(Seeds(toView)) \in Nat
           /\ m.kind # "seed" => Seeds(toView') = Seeds(toView)
           /\ Cardinality(Seeds(toView')) <= Cardinality(Seeds(toView)) + 1
<1>1. toView \in Seq(PagedAnswers)
  BY DEF PagedType
<1>. QED BY <1>1, Sent, SeedsPosted

\* The view, of itself or for the user.
LEMMA ViewBound ==
    ASSUME PaneInv, BoundInv,
           \/ \E q \in Searches : Search!Type(q)
           \/ Search!Clear \/ Search!LoadMore \/ Search!OpenIdea
           \/ Search!Search \/ Search!ViewSeeded
    PROVE  BoundInv'
<1>0. /\ PagedType /\ More /\ Budget /\ view \in Views /\ view.id \in Nat
      /\ box \in [query : Search!Texts, timer : Search!Texts]
      /\ steps \in [loads : 0 .. MaxLoads, acts : 0 .. MaxSearchActs]
      /\ toView \in Seq(PagedAnswers) /\ Cardinality(Seeds(toView)) \in Nat
  <2>1. \A S, s : s \in Seq(S) => IsFiniteSet(Seeds(s))
    <3>. SUFFICES ASSUME NEW S, NEW s \in Seq(S) PROVE IsFiniteSet(Seeds(s))
      OBVIOUS
    <3>1. 1 \in Int /\ Len(s) \in Int
      OBVIOUS
    <3>2. IsFiniteSet(1 .. Len(s))
      BY <3>1, FS_Interval
    <3>3. Seeds(s) \in SUBSET (1 .. Len(s))
      BY DEF Seeds
    <3>. QED BY <3>2, <3>3, FS_Subset
  <2>2. toView \in Seq(PagedAnswers)
    BY DEF BoundInv, PagedType
  <2>. QED BY <2>1, <2>2, FS_CardinalityType
           DEF PaneInv, PaneType, BoundInv, PagedType, Views
<1>1. /\ view.id \in Nat /\ Due \in {0, 1} /\ Cardinality(Seeds(toView)) \in Nat
      /\ Spent \in Nat /\ view.id + Due + Cardinality(Seeds(toView)) <= Spent
  <2>1. steps.loads \in Nat /\ steps.acts \in Nat
    BY <1>0, SearchBounds
  <2>. QED BY <1>0, <2>1 DEF Due, Spent, Budget, Made
<1>2. Search!Act => /\ steps' \in [loads : 0 .. MaxLoads, acts : 0 .. MaxSearchActs]
                    /\ Spent' = Spent + 1
  <2>. SUFFICES ASSUME Search!Act
                PROVE  /\ steps' \in [loads : 0 .. MaxLoads, acts : 0 .. MaxSearchActs]
                       /\ Spent' = Spent + 1
    OBVIOUS
  <2>1. steps.acts < MaxSearchActs /\ steps' = [steps EXCEPT !.acts = steps.acts + 1]
    BY DEF Search!Act
  <2>2. MaxLoads \in Nat /\ MaxSearchActs \in Nat
    BY SearchBounds
  <2>3. /\ steps' \in [loads : 0 .. MaxLoads, acts : 0 .. MaxSearchActs]
        /\ steps'.loads + steps'.acts = steps.loads + steps.acts + 1
    BY <1>0, <2>1, <2>2, Counted
  <2>. QED BY <2>3 DEF Spent
<1>3. ASSUME NEW q \in Searches, Search!Type(q) PROVE BoundInv'
  <2>1. Search!Act /\ UNCHANGED <<view, toHost, toView, flying>>
    BY <1>3 DEF Search!Type, Search!HostAlone
  <2>2. Due' \in {0, 1}
    BY DEF Due
  <2>3. Budget'
    BY <1>1, <1>2, <2>1, <2>2 DEF Budget, Made
  <2>4. PagedType' /\ More'
    BY <1>0, <1>2, <2>1 DEF PagedType, More
  <2>. QED BY <2>3, <2>4 DEF BoundInv
<1>4. CASE Search!Clear
  <2>1. /\ Search!Act /\ UNCHANGED <<toHost, toView, flying>>
        /\ view' = [Search!NoHits EXCEPT !.id = view.id]
    BY <1>4 DEF Search!Clear, Search!HostAlone
  <2>2. view'.id = view.id /\ view'.pages = <<>> /\ ~ view'.truncated
    BY <2>1 DEF Search!NoHits
  <2>3. Due' \in {0, 1}
    BY DEF Due
  <2>4. Budget'
    BY <1>1, <1>2, <2>1, <2>2, <2>3 DEF Budget, Made
  <2>5. PagedType' /\ More'
    <3>1. view'.pages \in Seq(Search!Page)
      BY <2>2
    <3>. QED BY <1>0, <1>2, <2>1, <2>2, <3>1 DEF PagedType, More
  <2>. QED BY <2>4, <2>5 DEF BoundInv
<1>5. CASE Search!LoadMore
  <2>. DEFINE page == view.pages[Len(view.pages)].page + 1
  <2>1. /\ view.truncated /\ view.applied \in Searches /\ Search!Ask(view.applied, page)
        /\ steps.loads < MaxLoads /\ steps' = [steps EXCEPT !.loads = @ + 1]
        /\ UNCHANGED <<box, toView, flying>>
    BY <1>0, <1>5 DEF Search!LoadMore, Search!MayLoadMore, Search!HostAlone, Search!Texts, Views
  <2>2. page \in PagesOf
    <3>1. view.pages \in Seq(Search!Page) /\ view.pages # <<>> /\ page < Pages
      BY <1>0, <2>1 DEF PagedType, More
    <3>2. Len(view.pages) \in 1 .. Len(view.pages)
      BY <3>1, Behind
    <3>3. view.pages[Len(view.pages)] \in Search!Page
      BY <3>1, <3>2, ElementOfSeq
    <3>4. view.pages[Len(view.pages)].page \in 0 .. Pages - 1
      BY <3>3 DEF Search!Page
    <3>. QED BY <3>1, <3>4, SearchBounds DEF PagesOf
  <2>. HIDE DEF page
  <2>3. /\ toHost' \in Seq(Paged \cup {Search!OpenMessage})
        /\ view'.id = view.id + 1 /\ view'.pages = view.pages
        /\ view'.truncated = view.truncated
    BY <1>0, <2>1, <2>2, PagedAsk
  <2>4. /\ steps' \in [loads : 0 .. MaxLoads, acts : 0 .. MaxSearchActs]
        /\ Spent' = Spent + 1
    <3>1. steps' = [steps EXCEPT !.loads = steps.loads + 1] /\ steps.loads < MaxLoads
      BY <2>1
    <3>2. MaxLoads \in Nat /\ MaxSearchActs \in Nat
      BY SearchBounds
    <3>3. /\ steps' \in [loads : 0 .. MaxLoads, acts : 0 .. MaxSearchActs]
          /\ steps'.loads + steps'.acts = steps.loads + steps.acts + 1
      BY <1>0, <3>1, <3>2, Counted
    <3>. QED BY <3>3 DEF Spent
  <2>7. Due' = Due
    BY <2>1 DEF Due
  <2>5. Budget'
    BY <1>1, <2>1, <2>3, <2>4, <2>7 DEF Budget, Made
  <2>6. PagedType' /\ More'
    BY <1>0, <2>1, <2>3, <2>4 DEF PagedType, More
  <2>. QED BY <2>5, <2>6 DEF BoundInv
<1>6. CASE Search!OpenIdea
  <2>1. /\ Search!Act /\ box' = [box EXCEPT !.timer = None]
        /\ view' = [view EXCEPT !.id = @ + 1, !.loading = FALSE]
        /\ toHost' = Append(toHost, Search!OpenMessage) /\ UNCHANGED <<toView, flying>>
    BY <1>6 DEF Search!OpenIdea, Search!HostAlone
  <2>2. view'.id = view.id + 1 /\ view'.pages = view.pages /\ view'.truncated = view.truncated
    BY <1>0, <2>1 DEF Views
  <2>3. Due' = 0
    BY <1>0, <2>1 DEF Due
  <2>4. Budget'
    BY <1>1, <1>2, <2>1, <2>2, <2>3 DEF Budget, Made
  <2>5. toHost' \in Seq(Paged \cup {Search!OpenMessage})
    BY <1>0, <2>1, Sent DEF PagedType
  <2>6. PagedType' /\ More'
    BY <1>0, <1>2, <2>1, <2>2, <2>5 DEF PagedType, More
  <2>. QED BY <2>4, <2>6 DEF BoundInv
<1>7. CASE Search!Search
  <2>1. /\ box.timer \in Searches /\ box.timer # None /\ box' = [box EXCEPT !.timer = None]
        /\ Search!Ask(box.timer, 0) /\ UNCHANGED <<toView, flying, steps>>
    BY <1>0, <1>7 DEF Search!Search, Search!HostAlone, Search!Texts
  <2>2. /\ toHost' \in Seq(Paged \cup {Search!OpenMessage})
        /\ view'.id = view.id + 1 /\ view'.pages = view.pages
        /\ view'.truncated = view.truncated
    BY <1>0, <2>1, PagedAsk, SearchBounds
  <2>3. Due = 1 /\ Due' = 0
    BY <1>0, <2>1 DEF Due
  <2>4. Budget'
    <3>1. Spent' = Spent
      BY <2>1 DEF Spent
    <3>. QED BY <1>1, <2>1, <2>2, <2>3, <3>1 DEF Budget, Made
  <2>5. PagedType' /\ More'
    BY <1>0, <2>1, <2>2 DEF PagedType, More
  <2>. QED BY <2>4, <2>5 DEF BoundInv
<1>8. CASE Search!ViewSeeded
  <2>. DEFINE q == Head(toView).request.query
  <2>1. /\ toView # <<>> /\ Head(toView).kind = "seed" /\ toView' = Tail(toView)
        /\ box' = [box EXCEPT !.query = q] /\ Search!Ask(q, 0) /\ UNCHANGED <<flying, steps>>
    BY <1>8 DEF Search!ViewSeeded, Search!HostAlone
  <2>2. toView' \in Seq(PagedAnswers) /\ Head(toView) \in PagedAnswers
    BY <1>0, <2>1, Behind
  <2>3. q \in Searches
    BY <2>2 DEF PagedAnswers, Paged
  <2>4. /\ Cardinality(Seeds(toView')) \in Nat
        /\ Cardinality(Seeds(toView')) <= Cardinality(Seeds(toView)) - 1
    BY <1>0, <2>1, SeedTaken
  <2>. HIDE DEF q
  <2>5. /\ toHost' \in Seq(Paged \cup {Search!OpenMessage})
        /\ view'.id = view.id + 1 /\ view'.pages = view.pages
        /\ view'.truncated = view.truncated
    BY <1>0, <2>1, <2>3, PagedAsk, SearchBounds
  <2>6. Due' = Due
    BY <1>0, <2>1 DEF Due
  <2>7. Budget'
    <3>1. Spent' = Spent
      BY <2>1 DEF Spent
    <3>2. ASSUME NEW i \in Nat, NEW d \in {0, 1}, NEW c \in Nat, NEW n \in Nat, NEW k \in Nat,
                 i + d + c <= n, k <= c - 1
          PROVE  i + 1 + d + k <= n
      BY <3>2
    <3>3. view'.id = view.id + 1
      BY <2>5
    <3>4. view.id + 1 + Due + Cardinality(Seeds(toView')) <= Spent
      BY <1>1, <2>4, <3>2
    <3>. QED BY <2>6, <3>1, <3>3, <3>4 DEF Budget, Made
  <2>8. PagedType' /\ More'
    BY <1>0, <2>1, <2>2, <2>5 DEF PagedType, More
  <2>. QED BY <2>7, <2>8 DEF BoundInv
<1>. QED BY <1>3, <1>4, <1>5, <1>6, <1>7, <1>8

\* The view takes an answer.
LEMMA AnswerBound ==
    ASSUME PaneInv, BoundInv, Search!ViewAnswered
    PROVE  BoundInv'
<1>0. /\ PagedType /\ More /\ Budget /\ view \in Views
      /\ toView \in Seq(PagedAnswers) /\ view.pages \in Seq(Search!Page)
  BY DEF PaneInv, PaneType, BoundInv, PagedType, Views
<1>. DEFINE m == Head(toView)
            r == m.request
            more == r.page + 1 < Pages
            news == Search!Shown(r)
            query == r.query
<1>1. /\ toView # <<>> /\ m.kind # "seed" /\ toView' = Tail(toView)
      /\ UNCHANGED <<box, toHost, flying, steps>>
      /\ \/ view' = [view EXCEPT !.loading = FALSE, !.more = FALSE]
         \/ view' = [view EXCEPT !.loading = TRUE]
         \/ view' = [pages |-> news, applied |-> query, truncated |-> more,
                     loading |-> FALSE, more |-> FALSE, id |-> view.id]
         \/ view' = view
  BY DEF Search!ViewAnswered, Search!HostAlone
<1>2. toView' \in Seq(PagedAnswers) /\ m \in PagedAnswers
  BY <1>0, <1>1, Behind
<1>3. r \in Paged
  BY <1>1, <1>2 DEF PagedAnswers
<1>4. news \in Seq(Search!Page) /\ news # <<>> /\ news[Len(news)].page = r.page
  <2>. DEFINE page == [query |-> r.query, page |-> r.page]
  <2>1. page \in Search!Page /\ page.page = r.page
    BY <1>3 DEF Paged, PagesOf, Search!Page
  <2>2. news = Append(view.pages, page) \/ news = <<page>>
    BY DEF Search!Shown
  <2>. HIDE DEF page, news
  <2>3. /\ Append(view.pages, page) \in Seq(Search!Page) /\ Append(view.pages, page) # <<>>
        /\ Append(view.pages, page)[Len(Append(view.pages, page))] = page
    BY <1>0, <2>1, AppendProperties
  <2>4. /\ <<page>> \in Seq(Search!Page) /\ <<page>> # <<>> /\ <<page>>[Len(<<page>>)] = page
    BY <2>1
  <2>. QED BY <2>1, <2>2, <2>3, <2>4
<1>5. /\ Cardinality(Seeds(toView)) \in Nat /\ Cardinality(Seeds(toView')) \in Nat
      /\ Cardinality(Seeds(toView')) <= Cardinality(Seeds(toView))
  BY <1>0, <1>1, SeedTaken
<1>. HIDE DEF m, r, news, query
<1>6. /\ view'.id = view.id /\ view'.pages \in Seq(Search!Page)
      /\ view'.truncated =>
            view'.pages # <<>> /\ view'.pages[Len(view'.pages)].page + 1 < Pages
  <2>1. CASE \/ view' = [view EXCEPT !.loading = FALSE, !.more = FALSE]
             \/ view' = [view EXCEPT !.loading = TRUE]
             \/ view' = view
    <3>1. view'.id = view.id /\ view'.pages = view.pages /\ view'.truncated = view.truncated
      BY <1>0, <2>1 DEF Views
    <3>. QED BY <1>0, <3>1 DEF More
  <2>2. CASE view' = [pages |-> news, applied |-> query, truncated |-> more,
                      loading |-> FALSE, more |-> FALSE, id |-> view.id]
    <3>1. view'.id = view.id /\ view'.pages = news /\ (view'.truncated => r.page + 1 < Pages)
      BY <2>2
    <3>. QED BY <1>4, <3>1
  <2>. QED BY <1>1, <2>1, <2>2
<1>7. Budget'
  <2>1. Due' = Due /\ Spent' = Spent
    BY <1>1 DEF Due, Spent
  <2>2. steps.loads \in Nat /\ steps.acts \in Nat
    BY <1>0, SearchBounds DEF PagedType
  <2>3. Due \in {0, 1} /\ Spent \in Nat /\ view.id \in Nat
    BY <1>0, <2>2 DEF Due, Spent, Views
  <2>4. view.id + Due + Cardinality(Seeds(toView)) <= Spent
    BY <1>0 DEF Budget, Made
  <2>5. view.id + Due + Cardinality(Seeds(toView')) <= Spent
    BY <1>5, <2>3, <2>4
  <2>6. view'.id = view.id
    BY <1>6
  <2>. QED BY <2>1, <2>5, <2>6 DEF Budget, Made
<1>8. PagedType'
  BY <1>0, <1>1, <1>2, <1>6 DEF PagedType
<1>9. More'
  BY <1>6 DEF More
<1>. QED BY <1>7, <1>8, <1>9 DEF BoundInv

\* The host.
LEMMA HostBound ==
    ASSUME PaneInv, BoundInv,
           \/ \E q \in Searches : Search!OpenSearch(q)
           \/ Search!Navigate \/ Search!IndexChanges \/ Search!HostReceives \/ Search!Answer
    PROVE  BoundInv'
<1>0. /\ PagedType /\ More /\ Budget /\ view \in Views
      /\ toView \in Seq(PagedAnswers) /\ view.pages \in Seq(Search!Page)
      /\ toHost \in Seq(Paged \cup {Search!OpenMessage})
      /\ flying \subseteq [request : Paged, live : BOOLEAN]
      /\ steps \in [loads : 0 .. MaxLoads, acts : 0 .. MaxSearchActs]
  BY DEF PaneInv, PaneType, BoundInv, PagedType, Views
<1>1. view' = view /\ box' = box
  BY DEF Search!OpenSearch, Search!Navigate, Search!IndexChanges, Search!HostReceives, Search!Answer
<1>2. /\ Cardinality(Seeds(toView)) \in Nat /\ Due \in {0, 1} /\ Spent \in Nat /\ view.id \in Nat
      /\ view.id + Due + Cardinality(Seeds(toView)) <= Spent
      /\ \A m \in PagedAnswers : toView' = Append(toView, m) =>
            /\ toView' \in Seq(PagedAnswers)
            /\ m.kind # "seed" => Seeds(toView') = Seeds(toView)
            /\ Cardinality(Seeds(toView')) <= Cardinality(Seeds(toView)) + 1
            /\ Cardinality(Seeds(toView')) \in Nat
  <2>1. steps.loads \in Nat /\ steps.acts \in Nat
    BY <1>0, SearchBounds
  <2>2. Due \in {0, 1} /\ Spent \in Nat /\ view.id \in Nat
        /\ view.id + Due + Cardinality(Seeds(toView)) <= Spent
    BY <1>0, <2>1 DEF Due, Spent, Views, Budget, Made
  <2>3. \A S, s : s \in Seq(S) => Cardinality(Seeds(s)) \in Nat
    <3>. SUFFICES ASSUME NEW S, NEW s \in Seq(S) PROVE Cardinality(Seeds(s)) \in Nat
      OBVIOUS
    <3>1. 1 \in Int /\ Len(s) \in Int
      OBVIOUS
    <3>2. IsFiniteSet(1 .. Len(s))
      BY <3>1, FS_Interval
    <3>3. Seeds(s) \in SUBSET (1 .. Len(s))
      BY DEF Seeds
    <3>. QED BY <3>2, <3>3, FS_Subset, FS_CardinalityType
  <2>4. ASSUME NEW m \in PagedAnswers, toView' = Append(toView, m)
        PROVE  /\ toView' \in Seq(PagedAnswers)
               /\ m.kind # "seed" => Seeds(toView') = Seeds(toView)
               /\ Cardinality(Seeds(toView')) <= Cardinality(Seeds(toView)) + 1
    BY <1>0, <2>4, PagedPost
  <2>. QED BY <1>0, <2>2, <2>3, <2>4
<1>3. Search!Act => /\ steps' \in [loads : 0 .. MaxLoads, acts : 0 .. MaxSearchActs]
                    /\ Spent' = Spent + 1
  <2>. SUFFICES ASSUME Search!Act
                PROVE  /\ steps' \in [loads : 0 .. MaxLoads, acts : 0 .. MaxSearchActs]
                       /\ Spent' = Spent + 1
    OBVIOUS
  <2>1. steps.acts < MaxSearchActs /\ steps' = [steps EXCEPT !.acts = steps.acts + 1]
    BY DEF Search!Act
  <2>2. MaxLoads \in Nat /\ MaxSearchActs \in Nat
    BY SearchBounds
  <2>3. /\ steps' \in [loads : 0 .. MaxLoads, acts : 0 .. MaxSearchActs]
        /\ steps'.loads + steps'.acts = steps.loads + steps.acts + 1
    BY <1>0, <2>1, <2>2, Counted
  <2>. QED BY <2>3 DEF Spent
<1>4. Due' = Due /\ More'
  BY <1>0, <1>1 DEF Due, More
<1>5. ASSUME NEW q \in Searches, Search!OpenSearch(q) PROVE BoundInv'
  <2>. DEFINE m == [kind |-> "seed", request |-> [id |-> 0, query |-> q, page |-> 0]]
  <2>1. Search!Act /\ toView' = Append(toView, m) /\ UNCHANGED <<toHost, flying>>
    BY <1>5 DEF Search!OpenSearch, Search!Send, Search!HostAlone
  <2>2. m \in PagedAnswers
    BY SearchBounds DEF PagedAnswers
  <2>. HIDE DEF m
  <2>3. /\ toView' \in Seq(PagedAnswers) /\ Cardinality(Seeds(toView')) \in Nat
        /\ Cardinality(Seeds(toView')) <= Cardinality(Seeds(toView)) + 1
    BY <1>2, <2>1, <2>2
  <2>4. view.id + Due + Cardinality(Seeds(toView')) <= Spent + 1
    <3>1. /\ Cardinality(Seeds(toView)) \in Nat /\ Due \in {0, 1} /\ Spent \in Nat
          /\ view.id \in Nat /\ view.id + Due + Cardinality(Seeds(toView)) <= Spent
      BY <1>2
    <3>2. ASSUME NEW i \in Nat, NEW d \in {0, 1}, NEW c \in Nat, NEW n \in Nat, NEW k \in Nat,
                 i + d + c <= n, k <= c + 1
          PROVE  i + d + k <= n + 1
      BY <3>2
    <3>. QED BY <2>3, <3>1, <3>2
  <2>5. Budget'
    BY <1>1, <1>3, <1>4, <2>1, <2>4 DEF Budget, Made
  <2>6. PagedType'
    BY <1>0, <1>1, <1>3, <2>1, <2>3 DEF PagedType
  <2>. QED BY <1>4, <2>5, <2>6 DEF BoundInv
<1>6. ASSUME toView' = toView, toHost' = toHost, Search!Act,
             flying' \subseteq [request : Paged, live : BOOLEAN]
      PROVE  BoundInv'
  <2>1. view.id + Due + Cardinality(Seeds(toView)) <= Spent + 1
    <3>1. /\ Cardinality(Seeds(toView)) \in Nat /\ Due \in {0, 1} /\ Spent \in Nat
          /\ view.id \in Nat /\ view.id + Due + Cardinality(Seeds(toView)) <= Spent
      BY <1>2
    <3>. QED BY <3>1
  <2>2. Budget'
    BY <1>1, <1>3, <1>4, <1>6, <2>1 DEF Budget, Made
  <2>3. PagedType'
    BY <1>0, <1>1, <1>3, <1>6 DEF PagedType
  <2>. QED BY <1>4, <2>2, <2>3 DEF BoundInv
<1>7. Search!GivenUp \subseteq [request : Paged, live : BOOLEAN]
  <2>. SUFFICES ASSUME NEW s \in flying
                PROVE  [s EXCEPT !.live = FALSE] \in [request : Paged, live : BOOLEAN]
    BY DEF Search!GivenUp
  <2>1. s \in [request : Paged, live : BOOLEAN]
    BY <1>0
  <2>. QED BY <2>1
<1>8. CASE Search!Navigate
  BY <1>6, <1>7, <1>8 DEF Search!Navigate
<1>9. CASE Search!IndexChanges
  BY <1>0, <1>6, <1>9 DEF Search!IndexChanges
\* An answer is not a seed.
<1>10. ASSUME steps' = steps, toHost' \in Seq(Paged \cup {Search!OpenMessage}),
              flying' \subseteq [request : Paged, live : BOOLEAN],
              \/ toView' = toView
              \/ \E m \in PagedAnswers : m.kind # "seed" /\ toView' = Append(toView, m)
       PROVE  BoundInv'
  <2>1. toView' \in Seq(PagedAnswers) /\ Seeds(toView') = Seeds(toView)
    BY <1>0, <1>2, <1>10
  <2>2. Spent' = Spent
    BY <1>10 DEF Spent
  <2>3. Budget'
    BY <1>1, <1>2, <1>4, <2>1, <2>2 DEF Budget, Made
  <2>4. PagedType'
    BY <1>0, <1>1, <1>10, <2>1 DEF PagedType
  <2>. QED BY <1>4, <2>3, <2>4 DEF BoundInv
<1>11. ASSUME NEW r \in Paged
       PROVE  \A k \in {"progress", "results", "error"} :
                  LET m == [kind |-> k, request |-> r] IN m \in PagedAnswers /\ m.kind # "seed"
  BY <1>11 DEF PagedAnswers
<1>12. CASE Search!HostReceives
  <2>. DEFINE r == Head(toHost)
  <2>1. /\ toHost # <<>> /\ toHost' = Tail(toHost) /\ steps' = steps
        /\ \/ flying' = Search!GivenUp /\ toView' = toView
           \/ /\ r # Search!OpenMessage /\ flying' = flying
              /\ toView' = Append(toView, [kind |-> "error", request |-> r])
           \/ /\ r # Search!OpenMessage
              /\ flying' = Search!GivenUp \cup {[request |-> r, live |-> TRUE]}
              /\ \/ toView' = Append(toView, [kind |-> "progress", request |-> r])
                 \/ toView' = toView
    BY <1>12 DEF Search!HostReceives, Search!NotReady, Search!Send
  <2>2. /\ toHost' \in Seq(Paged \cup {Search!OpenMessage})
        /\ r # Search!OpenMessage => r \in Paged
    BY <1>0, <2>1, Behind
  <2>. HIDE DEF r
  <2>3. flying' \subseteq [request : Paged, live : BOOLEAN]
    <3>1. r # Search!OpenMessage =>
             [request |-> r, live |-> TRUE] \in [request : Paged, live : BOOLEAN]
      BY <2>2
    <3>. QED BY <1>0, <1>7, <2>1, <3>1
  <2>4. \/ toView' = toView
        \/ \E m \in PagedAnswers : m.kind # "seed" /\ toView' = Append(toView, m)
    <3>1. CASE toView' = toView
      BY <3>1
    <3>2. ASSUME NEW k \in {"progress", "error"}, r # Search!OpenMessage,
                 toView' = Append(toView, [kind |-> k, request |-> r])
          PROVE  \E m \in PagedAnswers : m.kind # "seed" /\ toView' = Append(toView, m)
      <4>. DEFINE m == [kind |-> k, request |-> r]
      <4>1. m \in PagedAnswers /\ m.kind # "seed" /\ toView' = Append(toView, m)
        BY <1>11, <2>2, <3>2
      <4>. HIDE DEF m
      <4>. QED BY <4>1
    <3>. QED BY <2>1, <3>1, <3>2
  <2>. QED BY <1>10, <2>1, <2>2, <2>3, <2>4
<1>13. CASE Search!Answer
  <2>1. PICK s \in flying :
           /\ flying' = flying \ {s} /\ steps' = steps /\ toHost' = toHost
           /\ \/ toView' = toView
              \/ toView' = Append(toView, [kind |-> "results", request |-> s.request])
              \/ toView' = Append(toView, [kind |-> "error", request |-> s.request])
    BY <1>13 DEF Search!Answer, Search!Send
  <2>2. s.request \in Paged
    BY <1>0
  <2>3. \/ toView' = toView
        \/ \E m \in PagedAnswers : m.kind # "seed" /\ toView' = Append(toView, m)
    <3>1. CASE toView' = toView
      BY <3>1
    <3>2. ASSUME NEW k \in {"results", "error"},
                 toView' = Append(toView, [kind |-> k, request |-> s.request])
          PROVE  \E m \in PagedAnswers : m.kind # "seed" /\ toView' = Append(toView, m)
      <4>. DEFINE m == [kind |-> k, request |-> s.request]
      <4>1. m \in PagedAnswers /\ m.kind # "seed" /\ toView' = Append(toView, m)
        BY <1>11, <2>2, <3>2
      <4>. HIDE DEF m
      <4>. QED BY <4>1
    <3>. QED BY <2>1, <3>1, <3>2
  <2>4. flying' \subseteq [request : Paged, live : BOOLEAN] /\ toHost' \in Seq(Paged \cup {Search!OpenMessage})
    BY <1>0, <2>1
  <2>. QED BY <1>10, <2>1, <2>3, <2>4
<1>. QED BY <1>5, <1>8, <1>9, <1>12, <1>13

LEMMA BoundStep ==
    ASSUME PaneInv, BoundInv, [Search!Next]_(Search!searchVars)
    PROVE  BoundInv'
<1>1. CASE UNCHANGED Search!searchVars
  BY <1>1 DEF Search!searchVars, BoundInv, PagedType, More, Budget, Made, Spent, Due
<1>. QED BY <1>1, ViewBound, AnswerBound, HostBound DEF Search!Next, Search!Program

\* The ids that are told apart are those of the requests made.
LEMMA SearchTyped ==
    ASSUME PaneInv, SpinInv, BoundInv, ReadyTyped
    PROVE  Search!TypeOK
<1>0. /\ PaneType /\ NoneLater /\ Earlier /\ PagedType /\ view \in Views
      /\ MaxLoads \in Nat /\ MaxSearchActs \in Nat
  BY SearchBounds DEF PaneInv, PaneType, SpinInv, BoundInv, Views
<1>1. view.id \in Search!Ids
  <2>1. steps.loads \in 0 .. MaxLoads /\ steps.acts \in 0 .. MaxSearchActs
    BY <1>0 DEF PagedType
  <2>2. view.id + Due + Cardinality(Seeds(toView)) <= Spent /\ view.id \in Nat /\ Due \in {0, 1}
    BY <1>0 DEF BoundInv, Budget, Made, Views, Due
  <2>3. Cardinality(Seeds(toView)) \in Nat
    <3>1. toView \in Seq(PagedAnswers)
      BY <1>0 DEF PagedType
    <3>2. 1 \in Int /\ Len(toView) \in Int
      BY <3>1
    <3>3. IsFiniteSet(1 .. Len(toView))
      BY <3>2, FS_Interval
    <3>4. Seeds(toView) \in SUBSET (1 .. Len(toView))
      BY DEF Seeds
    <3>. QED BY <3>3, <3>4, FS_Subset, FS_CardinalityType
  <2>4. view.id <= steps.loads + steps.acts
    BY <1>0, <2>1, <2>2, <2>3 DEF Spent
  <2>. QED BY <1>0, <2>1, <2>2, <2>4 DEF Search!Ids
<1>2. ASSUME NEW r \in Paged, r.id <= view.id PROVE r \in Search!Requests
  <2>1. r.id \in Search!Ids
    <3>1. r.id \in Nat
      BY DEF Paged
    <3>. QED BY <1>0, <1>1, <1>2, <3>1 DEF Search!Ids
  <2>. QED BY <2>1 DEF Paged, PagesOf, Search!Requests
<1>3. /\ \A i \in DOMAIN toHost : i \in 1 .. Len(toHost) /\ toHost[i] \in Paged \cup {Search!OpenMessage}
      /\ \A i \in DOMAIN toView : i \in 1 .. Len(toView) /\ toView[i] \in PagedAnswers
  BY <1>0, ElementOfSeq DEF PagedType
<1>4. \A i \in DOMAIN toHost : toHost[i].id = 0 \/ toHost[i] \in Search!Requests
  <2>. SUFFICES ASSUME NEW i \in DOMAIN toHost, toHost[i].id # 0 PROVE toHost[i] \in Search!Requests
    OBVIOUS
  <2>1. toHost[i] \in Paged /\ toHost[i].id <= view.id
    BY <1>0, <1>3 DEF Search!OpenMessage, NoneLater
  <2>. QED BY <1>2, <2>1
<1>5. \A i \in DOMAIN toView : /\ toView[i].kind \in {"progress", "results", "error", "seed"}
                               /\ toView[i].request \in Search!Requests
  <2>. SUFFICES ASSUME NEW i \in DOMAIN toView
                PROVE  /\ toView[i].kind \in {"progress", "results", "error", "seed"}
                       /\ toView[i].request \in Search!Requests
    OBVIOUS
  <2>1. toView[i] \in PagedAnswers /\ (toView[i].kind # "seed" => toView[i].request.id <= view.id)
    BY <1>0, <1>3 DEF Earlier
  <2>2. CASE toView[i].kind = "seed"
    <3>1. toView[i].request \in [id : {0}, query : Searches, page : PagesOf]
      BY <2>1, <2>2 DEF PagedAnswers
    <3>2. 0 \in Search!Ids
      BY <1>0 DEF Search!Ids
    <3>. QED BY <2>2, <3>1, <3>2 DEF PagesOf, Search!Requests
  <2>3. CASE toView[i].kind # "seed"
    <3>1. /\ toView[i].request \in Paged
          /\ toView[i].kind \in {"progress", "results", "error"}
      BY <2>1, <2>3 DEF PagedAnswers
    <3>. QED BY <1>2, <2>1, <2>3, <3>1
  <2>. QED BY <2>2, <2>3
<1>6. flying \subseteq [request : Search!Requests, live : BOOLEAN]
  <2>. SUFFICES ASSUME NEW s \in flying PROVE s \in [request : Search!Requests, live : BOOLEAN]
    OBVIOUS
  <2>1. s \in [request : Paged, live : BOOLEAN] /\ s.request.id <= view.id
    BY <1>0 DEF PagedType, NoneLater
  <2>2. s.request \in Search!Requests
    BY <1>2, <2>1
  <2>. QED BY <2>1, <2>2
<1>7. view \in [pages : Seq(Search!Page), applied : Search!Texts, truncated : BOOLEAN,
                loading : BOOLEAN, more : BOOLEAN, id : Search!Ids]
  <2>1. view.pages \in Seq(Search!Page)
    BY <1>0 DEF PagedType
  <2>. QED BY <1>0, <1>1, <2>1 DEF Views
<1>. QED BY <1>0, <1>4, <1>5, <1>6, <1>7 DEF PaneType, PagedType, ReadyTyped, Search!TypeOK

LEMMA ReadyStep ==
    ASSUME ReadyTyped, [Search!Next]_(Search!searchVars)
    PROVE  ReadyTyped'
<1>1. ready' = ready \/ ready' = ~ ready
  BY DEF Search!Next, Search!Program, Search!searchVars, Search!HostAlone, Search!Type,
         Search!OpenSearch, Search!Clear, Search!LoadMore, Search!OpenIdea, Search!Navigate,
         Search!IndexChanges, Search!Search, Search!ViewAnswered, Search!ViewSeeded,
         Search!HostReceives, Search!Answer
<1>. QED BY <1>1 DEF ReadyTyped

\* The pane keeps its types, for any number of pages, requests and acts.
LEMMA SearchTypes == Search!Spec => []Search!TypeOK
<1>1. ASSUME Search!Init PROVE BoundInv /\ ReadyTyped
  <2>1. /\ view.id = 0 /\ view.pages = <<>> /\ ~ view.truncated /\ box.timer = None
        /\ toHost = <<>> /\ flying = {} /\ toView = <<>> /\ steps = [loads |-> 0, acts |-> 0]
        /\ ready \in BOOLEAN
    BY <1>1 DEF Search!Init, Search!NoHits
  <2>2. PagedType
    <3>1. steps \in [loads : 0 .. MaxLoads, acts : 0 .. MaxSearchActs]
      BY <2>1, SearchBounds
    <3>2. /\ toHost \in Seq(Paged \cup {Search!OpenMessage}) /\ toView \in Seq(PagedAnswers)
          /\ view.pages \in Seq(Search!Page)
      BY <2>1
    <3>3. flying \subseteq [request : Paged, live : BOOLEAN]
      BY <2>1
    <3>. QED BY <3>1, <3>2, <3>3 DEF PagedType
  <2>3. Cardinality(Seeds(toView)) = 0
    <3>1. Seeds(toView) = {}
      BY <2>1 DEF Seeds
    <3>. QED BY <3>1, FS_EmptySet
  <2>4. Budget
    BY <2>1, <2>3 DEF Budget, Made, Spent, Due
  <2>. QED BY <2>1, <2>2, <2>4 DEF BoundInv, More, ReadyTyped
<1>. QED BY <1>1, BoundStep, ReadyStep, SearchTyped, PaneInvariant, SpinInvariant, PTL
         DEF Search!Spec

(***************************************************************************)
(* The parts side by side                                                  *)
(***************************************************************************)
PushProofs     == INSTANCE InboundPush_proofs WITH NoSnapshot <- None, MaxChanges <- MaxPushChanges
PumpProofs     == INSTANCE GitDatesPump_proofs WITH
    Count <- IdeaCount, NoFile <- None, active <- activeFile, MaxEvents <- MaxPumpEvents
RenamingProofs == INSTANCE EditorRenames_proofs WITH
    MaxChanges <- MaxRenameChanges, pending <- pendingPaths
ClickProofs    == INSTANCE ClickSessions_proofs WITH Ideas <- Clickable

\* A behaviour of the editor is one of the part in focus.
LEMMA FocusStays ==
    ASSUME [EditorNext]_editorVars
    PROVE  focus' = focus
BY DEF EditorNext, editorVars, besideBases, besideSwitch, besidePush, besidePump, besideSearch,
       besideGraph, besideRenaming, besideClick

LEMMA SwitchInFocus ==
    EditorSpec => /\ focus = "switch" => Switch!Spec
                  /\ ~ (focus = "switch") => []~ (focus = "switch")
<1>. DEFINE On == focus = "switch"
<1>1. EditorInit /\ On => Switch!Init
  BY DEF EditorInit
<1>2. On /\ [EditorNext]_editorVars => On' /\ [Switch!Next]_(Switch!switchVars)
  <2>. SUFFICES ASSUME On, [EditorNext]_editorVars
                PROVE  [Switch!Next]_(Switch!switchVars)
    BY FocusStays
  <2>. QED BY DEF EditorNext, editorVars, ofSwitch, ofView, Switch!switchVars
<1>3. ~ On /\ [EditorNext]_editorVars => ~ On'
  BY FocusStays
<1>. HIDE DEF On
<1>4. EditorSpec => /\ On => Switch!Spec
                    /\ ~ On => []~ On
  BY <1>1, <1>2, <1>3, PTL DEF EditorSpec, Switch!Spec
<1>. QED BY <1>4, PTL DEF On

LEMMA PushInFocus ==
    EditorSpec => /\ focus = "push" => Push!Spec
                  /\ ~ (focus = "push") => []~ (focus = "push")
<1>. DEFINE On == focus = "push"
<1>1. EditorInit /\ On => Push!Init
  BY DEF EditorInit
<1>2. On /\ [EditorNext]_editorVars => On' /\ [Push!Next]_(Push!pushVars)
  <2>. SUFFICES ASSUME On, [EditorNext]_editorVars
                PROVE  [Push!Next]_(Push!pushVars)
    BY FocusStays
  <2>. QED BY DEF EditorNext, editorVars, ofPush, Push!pushVars
<1>3. ~ On /\ [EditorNext]_editorVars => ~ On'
  BY FocusStays
<1>. HIDE DEF On
<1>4. EditorSpec => /\ On => Push!Spec
                    /\ ~ On => []~ On
  BY <1>1, <1>2, <1>3, PTL DEF EditorSpec, Push!Spec
<1>. QED BY <1>4, PTL DEF On

LEMMA PumpInFocus ==
    EditorSpec => /\ focus = "pump" => Pump!Spec
                  /\ ~ (focus = "pump") => []~ (focus = "pump")
<1>. DEFINE On == focus = "pump"
<1>1. EditorInit /\ On => Pump!Init
  BY DEF EditorInit
<1>2. On /\ [EditorNext]_editorVars => On' /\ [Pump!Next]_(Pump!pumpVars)
  <2>. SUFFICES ASSUME On, [EditorNext]_editorVars
                PROVE  [Pump!Next]_(Pump!pumpVars)
    BY FocusStays
  <2>. QED BY DEF EditorNext, editorVars, ofPump, Pump!pumpVars
<1>3. ~ On /\ [EditorNext]_editorVars => ~ On'
  BY FocusStays
<1>. HIDE DEF On
<1>4. EditorSpec => /\ On => Pump!Spec
                    /\ ~ On => []~ On
  BY <1>1, <1>2, <1>3, PTL DEF EditorSpec, Pump!Spec
<1>. QED BY <1>4, PTL DEF On

LEMMA SearchInFocus ==
    EditorSpec => /\ focus = "search" => Search!Spec
                  /\ ~ (focus = "search") => []~ (focus = "search")
<1>. DEFINE On == focus = "search"
<1>1. EditorInit /\ On => Search!Init
  BY DEF EditorInit
<1>2. On /\ [EditorNext]_editorVars => On' /\ [Search!Next]_(Search!searchVars)
  <2>. SUFFICES ASSUME On, [EditorNext]_editorVars
                PROVE  [Search!Next]_(Search!searchVars)
    BY FocusStays
  <2>. QED BY DEF EditorNext, editorVars, ofSearch, ofView, Search!searchVars
<1>3. ~ On /\ [EditorNext]_editorVars => ~ On'
  BY FocusStays
<1>. HIDE DEF On
<1>4. EditorSpec => /\ On => Search!Spec
                    /\ ~ On => []~ On
  BY <1>1, <1>2, <1>3, PTL DEF EditorSpec, Search!Spec
<1>. QED BY <1>4, PTL DEF On

LEMMA GraphInFocus ==
    EditorSpec => /\ focus = "graph" => Graph!Spec
                  /\ ~ (focus = "graph") => []~ (focus = "graph")
<1>. DEFINE On == focus = "graph"
<1>1. EditorInit /\ On => Graph!Init
  BY DEF EditorInit
<1>2. On /\ [EditorNext]_editorVars => On' /\ [Graph!Next]_(Graph!graphVars)
  <2>. SUFFICES ASSUME On, [EditorNext]_editorVars
                PROVE  [Graph!Next]_(Graph!graphVars)
    BY FocusStays
  <2>. QED BY DEF EditorNext, editorVars, ofGraph, ofView, Graph!graphVars
<1>3. ~ On /\ [EditorNext]_editorVars => ~ On'
  BY FocusStays
<1>. HIDE DEF On
<1>4. EditorSpec => /\ On => Graph!Spec
                    /\ ~ On => []~ On
  BY <1>1, <1>2, <1>3, PTL DEF EditorSpec, Graph!Spec
<1>. QED BY <1>4, PTL DEF On

LEMMA RenamingInFocus ==
    EditorSpec => /\ focus = "renaming" => Renaming!Spec
                  /\ ~ (focus = "renaming") => []~ (focus = "renaming")
<1>. DEFINE On == focus = "renaming"
<1>1. EditorInit /\ On => Renaming!Init
  BY DEF EditorInit
<1>2. On /\ [EditorNext]_editorVars => On' /\ [Renaming!Next]_(Renaming!renameVars)
  <2>. SUFFICES ASSUME On, [EditorNext]_editorVars
                PROVE  [Renaming!Next]_(Renaming!renameVars)
    BY FocusStays
  <2>. QED BY DEF EditorNext, editorVars, ofRenaming, Renaming!renameVars
<1>3. ~ On /\ [EditorNext]_editorVars => ~ On'
  BY FocusStays
<1>. HIDE DEF On
<1>4. EditorSpec => /\ On => Renaming!Spec
                    /\ ~ On => []~ On
  BY <1>1, <1>2, <1>3, PTL DEF EditorSpec, Renaming!Spec
<1>. QED BY <1>4, PTL DEF On

LEMMA ClickInFocus ==
    EditorSpec => /\ focus = "click" => Click!Spec
                  /\ ~ (focus = "click") => []~ (focus = "click")
<1>. DEFINE On == focus = "click"
<1>1. EditorInit /\ On => Click!Init
  BY DEF EditorInit
<1>2. On /\ [EditorNext]_editorVars => On' /\ [Click!Next]_(Click!clickVars)
  <2>. SUFFICES ASSUME On, [EditorNext]_editorVars
                PROVE  [Click!Next]_(Click!clickVars)
    BY FocusStays
  <2>. QED BY DEF EditorNext, editorVars, ofClick, Click!clickVars
<1>3. ~ On /\ [EditorNext]_editorVars => ~ On'
  BY FocusStays
<1>. HIDE DEF On
<1>4. EditorSpec => /\ On => Click!Spec
                    /\ ~ On => []~ On
  BY <1>1, <1>2, <1>3, PTL DEF EditorSpec, Click!Spec
<1>. QED BY <1>4, PTL DEF On

\* The instances that the proofs are about say the same as those of the editor.
LEMMA PushAgrees ==
    /\ Push!Init <=> PushProofs!Init
    /\ [Push!Next]_(Push!pushVars) <=> [PushProofs!Next]_(PushProofs!pushVars)
    /\ Push!TypeOK <=> PushProofs!TypeOK
<1>. USE DEF Push!Bases, Push!EmptyWire, Push!Pushing, Push!Change, Push!IsReady, Push!Set,
             Push!Built, Push!PushSnapshots, Push!SchedulePush, Push!Flush, Push!OnStatus,
             Push!OnChange, PushProofs!Bases, PushProofs!EmptyWire, PushProofs!Pushing,
             PushProofs!Change, PushProofs!IsReady, PushProofs!Set, PushProofs!Built,
             PushProofs!PushSnapshots, PushProofs!SchedulePush, PushProofs!Flush,
             PushProofs!OnStatus, PushProofs!OnChange
<1>1. Push!Init <=> PushProofs!Init
  BY DEF Push!Init, PushProofs!Init
<1>2. Push!TypeOK <=> PushProofs!TypeOK
  BY DEF Push!TypeOK, Push!Snapshots, PushProofs!TypeOK, PushProofs!Snapshots
<1>3. Push!LeavesReady <=> PushProofs!LeavesReady
  BY DEF Push!LeavesReady, PushProofs!LeavesReady
<1>4. Push!RowsChangeMidPass <=> PushProofs!RowsChangeMidPass
  BY DEF Push!RowsChangeMidPass, PushProofs!RowsChangeMidPass
<1>5. Push!BecomesReady <=> PushProofs!BecomesReady
  BY DEF Push!BecomesReady, PushProofs!BecomesReady
<1>6. Push!RowsChange <=> PushProofs!RowsChange
  BY DEF Push!RowsChange, PushProofs!RowsChange
<1>7. \A b : Push!SwitchBase(b) <=> PushProofs!SwitchBase(b)
  BY DEF Push!SwitchBase, PushProofs!SwitchBase
<1>8. \A b : Push!FollowBase(b) <=> PushProofs!FollowBase(b)
  BY DEF Push!FollowBase, PushProofs!FollowBase
<1>9. \A editors : Push!EditorsChange(editors) <=> PushProofs!EditorsChange(editors)
  BY DEF Push!EditorsChange, PushProofs!EditorsChange
<1>10. Push!NoteSnapshot <=> PushProofs!NoteSnapshot
  BY DEF Push!NoteSnapshot, PushProofs!NoteSnapshot
<1>11. Push!Refreshed <=> PushProofs!Refreshed
  BY DEF Push!Refreshed, PushProofs!Refreshed
<1>12. \A p, ix : Push!Flush(p, ix, visible) = PushProofs!Flush(p, ix, visible)
  OBVIOUS
<1>13. \A p, ix : Push!OnStatus(p, ix, visible) = PushProofs!OnStatus(p, ix, visible)
  OBVIOUS
<1>. HIDE DEF Push!Pushing, Push!Change, Push!IsReady, Push!Set, Push!Built, Push!PushSnapshots,
             Push!SchedulePush, Push!Flush, Push!OnStatus, Push!OnChange, PushProofs!Pushing,
             PushProofs!Change, PushProofs!IsReady, PushProofs!Set, PushProofs!Built,
             PushProofs!PushSnapshots, PushProofs!SchedulePush, PushProofs!Flush,
             PushProofs!OnStatus, PushProofs!OnChange
<1>14. Push!Opened <=> PushProofs!Opened
  BY <1>12, <1>13 DEF Push!Opened, Push!Pushing, Push!Set, PushProofs!Opened, PushProofs!Pushing,
         PushProofs!Set
<1>15. Push!Cleared <=> PushProofs!Cleared
  BY <1>12, <1>13 DEF Push!Cleared, Push!Change, Push!IsReady, Push!OnChange, Push!Pushing, Push!Set,
         PushProofs!Cleared, PushProofs!Change, PushProofs!IsReady, PushProofs!OnChange,
         PushProofs!Pushing, PushProofs!Set
<1>. QED
  BY <1>1, <1>2, <1>3, <1>4, <1>5, <1>6, <1>7, <1>8, <1>9, <1>10, <1>11, <1>14, <1>15
  DEF Push!Next, Push!Program, Push!pushVars, PushProofs!Next, PushProofs!Program,
      PushProofs!pushVars

LEMMA RenamingAgrees ==
    /\ Renaming!Init <=> RenamingProofs!Init
    /\ [Renaming!Next]_(Renaming!renameVars) <=> [RenamingProofs!Next]_(RenamingProofs!renameVars)
    /\ Renaming!GateSeesRows <=> RenamingProofs!GateSeesRows
    /\ Renaming!TypeOK <=> RenamingProofs!TypeOK
  BY DEF Renaming!Init, Renaming!Next, Renaming!renameVars, Renaming!GateSeesRows,
         Renaming!TypeOK, Renaming!NotBegun, Renaming!Kinds, Renaming!Changes,
         Renaming!WillRename, Renaming!Cancelled, Renaming!Moves, Renaming!Prompted,
         Renaming!HandlerBegins, Renaming!Gate, Renaming!WatcherReports, Renaming!QueueRuns,
         Renaming!ClearTimer, Renaming!Tasks, Renaming!Crossed, Renaming!Noted, Renaming!OnItsWay,
         Renaming!UnderWay, Renaming!PathsOf, Renaming!Over, Renaming!To, Renaming!Suppressed,
         Renaming!Indexed, Renaming!ClearedOf, RenamingProofs!Init, RenamingProofs!Next,
         RenamingProofs!renameVars, RenamingProofs!GateSeesRows, RenamingProofs!TypeOK,
         RenamingProofs!NotBegun, RenamingProofs!Kinds, RenamingProofs!Changes,
         RenamingProofs!WillRename, RenamingProofs!Cancelled, RenamingProofs!Moves,
         RenamingProofs!Prompted, RenamingProofs!HandlerBegins, RenamingProofs!Gate,
         RenamingProofs!WatcherReports, RenamingProofs!QueueRuns, RenamingProofs!ClearTimer,
         RenamingProofs!Tasks, RenamingProofs!Crossed, RenamingProofs!Noted,
         RenamingProofs!OnItsWay, RenamingProofs!UnderWay, RenamingProofs!PathsOf,
         RenamingProofs!Over, RenamingProofs!To, RenamingProofs!Suppressed,
         RenamingProofs!Indexed, RenamingProofs!ClearedOf

LEMMA PumpAgrees ==
    /\ Pump!Init <=> PumpProofs!Init
    /\ [Pump!Next]_(Pump!pumpVars) <=> [PumpProofs!Next]_(PumpProofs!pumpVars)
    /\ Pump!EditorFirst <=> PumpProofs!EditorFirst
    /\ Pump!TypeOK <=> PumpProofs!TypeOK
<1>1. \A S : Pump!Cardinality(S) = PumpProofs!Cardinality(S)
  BY DEF Pump!Cardinality, PumpProofs!Cardinality
<1>2. \A n, S : Pump!First(n, S) = PumpProofs!First(n, S)
  BY <1>1 DEF Pump!First, PumpProofs!First
<1>3. Pump!Want = PumpProofs!Want /\ Pump!Fetch = PumpProofs!Fetch
  BY <1>1 DEF Pump!Want, Pump!Fetch, Pump!Min, Pump!Max, PumpProofs!Want, PumpProofs!Fetch,
         PumpProofs!Min, PumpProofs!Max
<1>4. \A S : Pump!Listed(S) = PumpProofs!Listed(S) /\ Pump!OfActive(S) = PumpProofs!OfActive(S)
  BY <1>2, <1>3 DEF Pump!Listed, Pump!OfActive, PumpProofs!Listed, PumpProofs!OfActive
<1>5. \A S, D : Pump!Preferred(S, D) = PumpProofs!Preferred(S, D)
  BY <1>1, <1>2, <1>3, <1>4 DEF Pump!Preferred, PumpProofs!Preferred
<1>6. \A set : Pump!Turn(set) <=> PumpProofs!Turn(set)
  BY <1>1, <1>4, <1>5 DEF Pump!Turn, Pump!AfterWave, Pump!NoWave, PumpProofs!Turn, PumpProofs!AfterWave,
         PumpProofs!NoWave
<1>7. Pump!EditorFirst <=> PumpProofs!EditorFirst
  BY <1>1, <1>4 DEF Pump!EditorFirst, PumpProofs!EditorFirst
<1>8. (Pump!Init <=> PumpProofs!Init) /\ (Pump!TypeOK <=> PumpProofs!TypeOK)
  BY DEF Pump!Init, Pump!TypeOK, Pump!Ideas, Pump!RqFiles, Pump!NoWave, PumpProofs!Init,
         PumpProofs!TypeOK, PumpProofs!Ideas, PumpProofs!RqFiles, PumpProofs!NoWave
<1>9. [Pump!Next]_(Pump!pumpVars) <=> [PumpProofs!Next]_(PumpProofs!pumpVars)
  BY <1>6 DEF Pump!Next, Pump!pumpVars, Pump!LeavesReady, Pump!Ideas, Pump!Indexed, Pump!RqFiles,
         Pump!EditorChanges, Pump!Program, Pump!Event, Pump!PumpMissingGitDates, Pump!NextBatch,
         Pump!BecomesReady, PumpProofs!Next, PumpProofs!pumpVars, PumpProofs!LeavesReady,
         PumpProofs!Ideas, PumpProofs!Indexed, PumpProofs!RqFiles, PumpProofs!EditorChanges,
         PumpProofs!Program, PumpProofs!Event, PumpProofs!PumpMissingGitDates,
         PumpProofs!NextBatch, PumpProofs!BecomesReady
<1>. QED BY <1>7, <1>8, <1>9

LEMMA ClickAgrees ==
    /\ Click!Init <=> ClickProofs!Init
    /\ [Click!Next]_(Click!clickVars) <=> [ClickProofs!Next]_(ClickProofs!clickVars)
    /\ Click!WithinLimit <=> ClickProofs!WithinLimit
    /\ Click!BodyOnce <=> ClickProofs!BodyOnce
    /\ Click!TypeOK <=> ClickProofs!TypeOK
    /\ Click!Parameters <=> ClickProofs!Parameters
<1>1. \A t, l : Click!Connected(t, l) = ClickProofs!Connected(t, l)
  BY DEF Click!Connected, Click!Neighbours, Click!Present, Click!Siblings, Click!FlattenSeq,
         Click!FoldLeft, Click!MapThenFoldSet, Click!Max, Click!Last, ClickProofs!Connected,
         ClickProofs!Neighbours, ClickProofs!Present, ClickProofs!Siblings,
         ClickProofs!FlattenSeq, ClickProofs!FoldLeft, ClickProofs!MapThenFoldSet,
         ClickProofs!Max, ClickProofs!Last
<1>2. \A c, k, new : Click!Revisited(c, k, new) <=> ClickProofs!Revisited(c, k, new)
  BY DEF Click!Revisited, Click!Prepared, Click!Row, Click!Body, Click!NoCall, Click!NoHash,
         ClickProofs!Revisited, ClickProofs!Prepared, ClickProofs!Row, ClickProofs!Body,
         ClickProofs!NoCall, ClickProofs!NoHash
<1>3. \A i : /\ Click!Present(i) <=> ClickProofs!Present(i)
            /\ Click!Body(i) = ClickProofs!Body(i)
            /\ \A k : Click!Hashes(k, i) = ClickProofs!Hashes(k, i)
  BY DEF Click!Present, Click!Body, Click!Hashes, ClickProofs!Present, ClickProofs!Body,
         ClickProofs!Hashes
<1>4. ASSUME NEW c PROVE Click!RevisitResult(c) <=> ClickProofs!RevisitResult(c)
  <2>. DEFINE New(connected) == {i \in Clickable \cap call[c].listed : /\ i \in connected /\ ClickProofs!Present(i)
                                    /\ ClickProofs!Body(i) \notin ClickProofs!Hashes(call[c].key, "content")}
              connected == ClickProofs!ToSet(ClickProofs!Connected(call[c].target, call[c].listed))
              old == {i \in Clickable \cap call[c].listed :
                        /\ i \in Click!ToSet(Click!Connected(call[c].target, call[c].listed))
                        /\ Click!Present(i) /\ Click!Body(i) \notin Click!Hashes(call[c].key, "content")}
  <2>1. Click!ToSet(Click!Connected(call[c].target, call[c].listed)) = connected
    BY <1>1 DEF Click!ToSet, ClickProofs!ToSet
  <2>2. old = New(connected)
    BY <1>3, <2>1
  <2>3. Click!RevisitResult(c) <=>
            /\ call[c].pc = "content" /\ Click!Revisited(c, call[c].key, old)
            /\ UNCHANGED <<sessions, entries, print, spent, cut, shown, crossed>>
    BY DEF Click!RevisitResult
  <2>4. ClickProofs!RevisitResult(c) <=>
            /\ call[c].pc = "content" /\ ClickProofs!Revisited(c, call[c].key, New(connected))
            /\ UNCHANGED <<sessions, entries, print, spent, cut, shown, crossed>>
    BY DEF ClickProofs!RevisitResult
  <2>. HIDE DEF New, connected, old
  <2>. QED BY <1>2, <2>2, <2>3, <2>4
<1>5. \A c : Click!Insert(c) <=> ClickProofs!Insert(c)
  BY DEF Click!Insert, Click!Stored, Click!Over, Click!Goes, Click!NoCall, Click!NoHash,
         Click!ToSet, Click!RemoveAt, ClickProofs!Insert, ClickProofs!Stored, ClickProofs!Over,
         ClickProofs!Goes, ClickProofs!NoCall, ClickProofs!NoHash, ClickProofs!ToSet,
         ClickProofs!RemoveAt
<1>6. \A c : Click!Count(c) <=> ClickProofs!Count(c)
  BY DEF Click!Count, Click!Excess, Click!Goes, Click!ToSet, Click!RemoveAt, ClickProofs!Count,
         ClickProofs!Excess, ClickProofs!Goes, ClickProofs!ToSet, ClickProofs!RemoveAt
<1>7. \A c : Click!Select(c) <=> ClickProofs!Select(c)
  BY DEF Click!Select, Click!Without, Click!Stored, Click!ToSet, Click!RemoveAt,
         ClickProofs!Select, ClickProofs!Without, ClickProofs!Stored, ClickProofs!ToSet,
         ClickProofs!RemoveAt
<1>8. \A c : Click!Evicted(c) <=> ClickProofs!Evicted(c)
  BY DEF Click!Evicted, Click!Goes, Click!ToSet, Click!RemoveAt, ClickProofs!Evicted,
         ClickProofs!Goes, ClickProofs!ToSet, ClickProofs!RemoveAt
<1>9. \A c : Click!Delete(c) <=> ClickProofs!Delete(c)
  BY DEF Click!Delete, Click!Without, Click!Stored, Click!ToSet, Click!RemoveAt,
         ClickProofs!Delete, ClickProofs!Without, ClickProofs!Stored, ClickProofs!ToSet,
         ClickProofs!RemoveAt
<1>10. \A c : Click!Search(c) <=> ClickProofs!Search(c)
  BY DEF Click!Search, Click!Present, Click!Prepared, Click!NoCall, Click!NoHash, Click!ToSet,
         Click!RemoveAt, ClickProofs!Search, ClickProofs!Present, ClickProofs!Prepared,
         ClickProofs!NoCall, ClickProofs!NoHash, ClickProofs!ToSet, ClickProofs!RemoveAt
<1>11. \A c : Click!Resolve(c) <=> ClickProofs!Resolve(c)
  BY DEF Click!Resolve, Click!Present, Click!Fingerprint, Click!Hashes, Click!UniqueResult,
         Click!FileHash, Click!Targets, Click!Neighbours, Click!Prepared, Click!Centre, Click!Row,
         Click!NoHash, Click!CentreBody, Click!Siblings, Click!NoCall, Click!Body, Click!ToSet,
         Click!RemoveAt, ClickProofs!Resolve, ClickProofs!Present, ClickProofs!Fingerprint,
         ClickProofs!Hashes, ClickProofs!UniqueResult, ClickProofs!FileHash, ClickProofs!Targets,
         ClickProofs!Neighbours, ClickProofs!Prepared, ClickProofs!Centre, ClickProofs!Row,
         ClickProofs!NoHash, ClickProofs!CentreBody, ClickProofs!Siblings, ClickProofs!NoCall,
         ClickProofs!Body, ClickProofs!ToSet, ClickProofs!RemoveAt
<1>12. \A c : Click!Rope(c) <=> ClickProofs!Rope(c)
  BY DEF Click!Rope, Click!Present, Click!IdsOf, Click!Centre, Click!Row, Click!NoHash,
         Click!Prepared, Click!CentreBody, Click!Fingerprint, Click!NoCall, Click!Body,
         Click!FileHash, Click!ToSet, Click!RemoveAt, ClickProofs!Rope, ClickProofs!Present,
         ClickProofs!IdsOf, ClickProofs!Centre, ClickProofs!Row, ClickProofs!NoHash,
         ClickProofs!Prepared, ClickProofs!CentreBody, ClickProofs!Fingerprint,
         ClickProofs!NoCall, ClickProofs!Body, ClickProofs!FileHash, ClickProofs!ToSet,
         ClickProofs!RemoveAt
<1>13. \A c : Click!Listed(c) <=> ClickProofs!Listed(c)
  BY DEF Click!Listed, Click!IdsOf, Click!ToSet, Click!RemoveAt, ClickProofs!Listed,
         ClickProofs!IdsOf, ClickProofs!ToSet, ClickProofs!RemoveAt
<1>14. \A c : Click!RecordEntries(c) <=> ClickProofs!RecordEntries(c)
  BY DEF Click!RecordEntries, Click!Stored, Click!Over, Click!Touched, Click!SameRow,
         Click!NoCall, Click!Without, Click!NoHash, Click!ToSet, Click!RemoveAt,
         ClickProofs!RecordEntries, ClickProofs!Stored, ClickProofs!Over, ClickProofs!Touched,
         ClickProofs!SameRow, ClickProofs!NoCall, ClickProofs!Without, ClickProofs!NoHash,
         ClickProofs!ToSet, ClickProofs!RemoveAt
<1>15. \A c : Click!Answer(c) <=> ClickProofs!Answer(c)
  BY DEF Click!Answer, Click!Over, Click!NoCall, Click!NoHash, Click!ToSet, Click!RemoveAt,
         ClickProofs!Answer, ClickProofs!Over, ClickProofs!NoCall, ClickProofs!NoHash,
         ClickProofs!ToSet, ClickProofs!RemoveAt
<1>16. \A c : Click!Dies(c) <=> ClickProofs!Dies(c)
  BY DEF Click!Dies, Click!Over, Click!NoCall, Click!NoHash, Click!ToSet, Click!RemoveAt,
         ClickProofs!Dies, ClickProofs!Over, ClickProofs!NoCall, ClickProofs!NoHash,
         ClickProofs!ToSet, ClickProofs!RemoveAt
<1>17. /\ \A c, k, t, rope : Click!EnsureSession(c, k, t, rope) <=> ClickProofs!EnsureSession(c, k, t, rope)
       /\ \A i, p : Click!Reindexed(i, p) <=> ClickProofs!Reindexed(i, p)
  BY DEF Click!EnsureSession, Click!Reindexed, Click!NoCall, Click!Stored, Click!Touched,
         Click!NoHash, Click!Without, Click!ToSet, Click!RemoveAt, ClickProofs!EnsureSession,
         ClickProofs!Reindexed, ClickProofs!NoCall, ClickProofs!Stored, ClickProofs!Touched,
         ClickProofs!NoHash, ClickProofs!Without, ClickProofs!ToSet, ClickProofs!RemoveAt
<1>18. [Click!Next]_(Click!clickVars) <=> [ClickProofs!Next]_(ClickProofs!clickVars)
  BY <1>4, <1>5, <1>6, <1>7, <1>8, <1>9, <1>10, <1>11, <1>12, <1>13, <1>14, <1>15, <1>16, <1>17 DEF Click!Next, Click!clickVars, Click!Prints, ClickProofs!Next, ClickProofs!clickVars,
         ClickProofs!Prints
<1>19. (Click!Init <=> ClickProofs!Init) /\ (Click!TypeOK <=> ClickProofs!TypeOK)
  BY DEF Click!Init, Click!TypeOK, Click!NoCall, Click!Rows, Click!SameRow, Click!Prints,
         Click!Calls, Click!NoHash, Click!Targets, Click!FileHash, Click!ToSet, Click!IsInjective,
         ClickProofs!Init, ClickProofs!TypeOK, ClickProofs!NoCall, ClickProofs!Rows,
         ClickProofs!SameRow, ClickProofs!Prints, ClickProofs!Calls, ClickProofs!NoHash,
         ClickProofs!Targets, ClickProofs!FileHash, ClickProofs!ToSet, ClickProofs!IsInjective
<1>20. /\ Click!WithinLimit <=> ClickProofs!WithinLimit
       /\ Click!BodyOnce <=> ClickProofs!BodyOnce
       /\ Click!Parameters <=> ClickProofs!Parameters
  BY DEF Click!WithinLimit, Click!BodyOnce, Click!Parameters, Click!Targets, Click!ToSet,
         Click!RemoveAt, ClickProofs!WithinLimit, ClickProofs!BodyOnce, ClickProofs!Parameters,
         ClickProofs!Targets, ClickProofs!ToSet, ClickProofs!RemoveAt
<1>. QED BY <1>18, <1>19, <1>20

LEMMA PushFollows == Push!Spec => PushProofs!Spec
<1>1. /\ Push!Init => PushProofs!Init
      /\ [Push!Next]_(Push!pushVars) => [PushProofs!Next]_(PushProofs!pushVars)
  BY PushAgrees
<1>. QED BY <1>1, PTL DEF Push!Spec, PushProofs!Spec

LEMMA RenamingFollows == Renaming!Spec => RenamingProofs!Spec
<1>1. /\ Renaming!Init => RenamingProofs!Init
      /\ [Renaming!Next]_(Renaming!renameVars) => [RenamingProofs!Next]_(RenamingProofs!renameVars)
  BY RenamingAgrees
<1>. QED BY <1>1, PTL DEF Renaming!Spec, RenamingProofs!Spec

LEMMA ClickFollows == Click!Spec => ClickProofs!Spec
<1>1. /\ Click!Init => ClickProofs!Init
      /\ [Click!Next]_(Click!clickVars) => [ClickProofs!Next]_(ClickProofs!clickVars)
  BY ClickAgrees
<1>. QED BY <1>1, PTL DEF Click!Spec, ClickProofs!Spec

LEMMA PumpFollows == Pump!Spec => PumpProofs!Spec
<1>1. /\ Pump!Init => PumpProofs!Init
      /\ [Pump!Next]_(Pump!pumpVars) => [PumpProofs!Next]_(PumpProofs!pumpVars)
  BY PumpAgrees
<1>. QED BY <1>1, PTL DEF Pump!Spec, PumpProofs!Spec

\* The registry runs on beside every part: no other writes its variables.
LEMMA BasesAside == EditorSpec => Spec
<1>1. EditorInit => Init
  BY DEF EditorInit
<1>2. [EditorNext]_editorVars => [Next]_baseVars
  BY DEF EditorNext, editorVars, besideSwitch, besidePush, besidePump, besideSearch, besideGraph,
         besideRenaming, besideClick
<1>. QED BY <1>1, <1>2, PTL DEF EditorSpec, Spec

\* So the two routes to the base of a file agree, and the pin of the user is kept, in
\* whatever part the editor is.
THEOREM BasesHold == EditorSpec => []OwnersAgree /\ []SelectionKept
BY BasesAside, RoutesAgree, PinKept, PTL

\* The part in focus is one of the eight.
Parted == focus \in {"bases", "switch", "push", "pump", "search", "graph", "renaming", "click"}

LEMMA FocusIsPart == EditorSpec => []Parted
<1>1. EditorInit => Parted
  BY DEF EditorInit, Parted
<1>2. Parted /\ [EditorNext]_editorVars => Parted'
  BY FocusStays DEF Parted
<1>. QED BY <1>1, <1>2, PTL DEF EditorSpec

\* The variables of each part keep their types, for any bases, files, documents, queries,
\* ideas, sessions and bounds.
THEOREM PartsTyped == EditorSpec => []PartTyped
<1>1. EditorSpec => []TypeOK
  BY BasesAside, BasesTyped, PTL
<1>2. Switch!Spec => []Switch!TypeOK
  <2>1. SwitchInv => Switch!TypeOK
    BY DEF SwitchInv
  <2>. QED BY <2>1, SwitchInvariant, PTL
<1>3. Push!Spec => []Push!TypeOK
  <2>1. MaxPushChanges \in Nat
    BY EditorAssumption
  <2>2. PushProofs!Spec => []PushProofs!TypeOK
    BY <2>1, PushProofs!PushTyped
  <2>3. PushProofs!TypeOK => Push!TypeOK
    BY PushAgrees
  <2>. QED BY <2>2, <2>3, PushFollows, PTL
<1>4. Pump!Spec => []Pump!TypeOK
  <2>1. PumpProofs!Counts
    BY EditorAssumption DEF PumpProofs!Counts
  <2>2. PumpProofs!Spec => []PumpProofs!TypeOK
    BY <2>1, PumpProofs!PumpTyped
  <2>3. PumpProofs!TypeOK => Pump!TypeOK
    BY PumpAgrees
  <2>. QED BY <2>2, <2>3, PumpFollows, PTL
<1>5. Graph!Spec => []Graph!TypeOK
  BY GraphInvariant, GraphTyped, PTL
<1>6. Renaming!Spec => []Renaming!TypeOK
  <2>1. MaxRenameChanges \in Nat /\ Synced \subseteq Paths /\ None \notin Paths
    BY EditorAssumption
  <2>2. RenamingProofs!Spec => []RenamingProofs!TypeOK
    BY <2>1, RenamingProofs!RenamesTyped
  <2>3. RenamingProofs!TypeOK => Renaming!TypeOK
    BY RenamingAgrees
  <2>. QED BY <2>2, <2>3, RenamingFollows, PTL
<1>7. Click!Spec => []Click!TypeOK
  <2>1. ClickProofs!Parameters
    BY EditorAssumption, ClickAgrees
  <2>2. ClickProofs!Spec => []ClickProofs!TypeOK
    BY <2>1, ClickProofs!TypeCorrect
  <2>3. ClickProofs!TypeOK => Click!TypeOK
    BY ClickAgrees
  <2>. QED BY <2>2, <2>3, ClickFollows, PTL
<1>. DEFINE InSwitch   == focus = "switch" => Switch!TypeOK
            InPush     == focus = "push" => Push!TypeOK
            InPump     == focus = "pump" => Pump!TypeOK
            InSearch   == focus = "search" => Search!TypeOK
            InGraph    == focus = "graph" => Graph!TypeOK
            InRenaming == focus = "renaming" => Renaming!TypeOK
            InClick    == focus = "click" => Click!TypeOK
<1>8. EditorSpec => []InSwitch
  BY <1>2, SwitchInFocus, PTL
<1>9. EditorSpec => []InPush
  BY <1>3, PushInFocus, PTL
<1>10. EditorSpec => []InPump
  BY <1>4, PumpInFocus, PTL
<1>11. EditorSpec => []InSearch
  BY SearchTypes, SearchInFocus, PTL
<1>12. EditorSpec => []InGraph
  BY <1>5, GraphInFocus, PTL
<1>13. EditorSpec => []InRenaming
  BY <1>6, RenamingInFocus, PTL
<1>14. EditorSpec => []InClick
  BY <1>7, ClickInFocus, PTL
<1>15. /\ Parted /\ TypeOK
       /\ InSwitch /\ InPush /\ InPump /\ InSearch /\ InGraph /\ InRenaming /\ InClick
       => PartTyped
  <2>. SUFFICES ASSUME Parted, TypeOK, InSwitch, InPush, InPump, InSearch, InGraph, InRenaming,
                       InClick
                PROVE  PartTyped
    OBVIOUS
  <2>1. CASE focus = "bases"
    BY <2>1 DEF PartTyped
  <2>2. CASE focus = "switch"
    BY <2>2 DEF PartTyped
  <2>3. CASE focus = "push"
    BY <2>3 DEF PartTyped
  <2>4. CASE focus = "pump"
    BY <2>4 DEF PartTyped
  <2>5. CASE focus = "search"
    BY <2>5 DEF PartTyped
  <2>6. CASE focus = "graph"
    BY <2>6 DEF PartTyped
  <2>7. CASE focus = "renaming"
    BY <2>7 DEF PartTyped
  <2>8. CASE focus = "click"
    BY <2>8 DEF PartTyped
  <2>. QED BY <2>1, <2>2, <2>3, <2>4, <2>5, <2>6, <2>7, <2>8 DEF Parted
<1>. HIDE DEF InSwitch, InPush, InPump, InSearch, InGraph, InRenaming, InClick
<1>. QED BY <1>1, <1>8, <1>9, <1>10, <1>11, <1>12, <1>13, <1>14, <1>15, FocusIsPart, PTL

\* In the editor, too, the gate of a rename finds the rows under the old path
\* (register-file-mutation-hooks.ts:24-29), for any paths and any renames.
THEOREM RenamesSeen == EditorSpec => []GateSeesRows
<1>1. MaxRenameChanges \in Nat /\ Synced \subseteq Paths /\ None \notin Paths
  BY EditorAssumption
<1>2. RenamingProofs!Spec => []RenamingProofs!GateSeesRows
  BY <1>1, RenamingProofs!GateAlwaysSees
<1>3. Renaming!Spec => RenamingProofs!Spec
  BY RenamingFollows
<1>4. (RenamingProofs!GateSeesRows => GateSeesRows) /\ (~ (focus = "renaming") => GateSeesRows)
  BY RenamingAgrees DEF GateSeesRows
<1>. QED BY <1>2, <1>3, <1>4, RenamingInFocus, PTL

\* The store of click sessions keeps to its limit (click_sessions.rs:150-171), for any
\* processes, sessions and calls.
THEOREM ClicksWithinLimit == EditorSpec => []WithinLimit
<1>1. ClickProofs!Parameters
  BY EditorAssumption, ClickAgrees
<1>2. ClickProofs!Spec => []ClickProofs!WithinLimit
  BY <1>1, ClickProofs!LimitKept
<1>3. Click!Spec => ClickProofs!Spec
  BY ClickFollows
<1>4. (ClickProofs!WithinLimit => WithinLimit) /\ (~ (focus = "click") => WithinLimit)
  BY ClickAgrees DEF WithinLimit
<1>. QED BY <1>2, <1>3, <1>4, ClickInFocus, PTL

\* Of what a session was shown as content and has not changed since, a revisit shows no
\* body again and a rope no summary (click.rs:317-376, rope.rs:405-451), for any processes,
\* sessions, calls and ideas.
THEOREM ClicksShowOnce == EditorSpec => []BodyOnce
<1>1. ClickProofs!Parameters
  BY EditorAssumption, ClickAgrees
<1>2. ClickProofs!Spec => []ClickProofs!BodyOnce
  BY <1>1, ClickProofs!ShownOnce
<1>3. Click!Spec => ClickProofs!Spec
  BY ClickFollows
<1>4. (ClickProofs!BodyOnce => BodyOnce) /\ (~ (focus = "click") => BodyOnce)
  BY ClickAgrees DEF BodyOnce
<1>. QED BY <1>2, <1>3, <1>4, ClickInFocus, PTL

\* The ideas of the active file come first (git-dates-background.ts:80-103), for any
\* ideas, files and limits.
THEOREM PumpEditorFirst == EditorSpec => EditorFirst
<1>. DEFINE Step == focus = "pump" => Pump!EditorFirst
<1>1. PumpProofs!Counts
  BY EditorAssumption DEF PumpProofs!Counts
<1>2. PumpProofs!Spec => [][PumpProofs!EditorFirst]_(PumpProofs!pumpVars)
  BY <1>1, PumpProofs!EditorAlwaysFirst
<1>3. Pump!Spec => PumpProofs!Spec
  BY PumpFollows
<1>4. [PumpProofs!EditorFirst]_(PumpProofs!pumpVars) => [Step]_editorVars
  BY PumpAgrees DEF PumpProofs!pumpVars, Pump!EditorFirst
<1>5. ~ (focus = "pump") => [Step]_editorVars
  OBVIOUS
<1>. HIDE DEF Step
<1>6. EditorSpec => [][Step]_editorVars
  BY <1>2, <1>3, <1>4, <1>5, PumpInFocus, PTL
<1>. QED BY <1>6 DEF Step, EditorFirst

\* The pages that the search pane shows are the first pages of one query, in order
\* (app.svelte.ts:672-690), for any queries, any number of pages and any acts.
THEOREM SearchPagesInOrder == EditorSpec => []PagesContiguous
<1>1. Search!PagesContiguous => PagesContiguous
  BY DEF PagesContiguous
<1>2. ~ (focus = "search") => PagesContiguous
  BY DEF PagesContiguous
<1>. QED BY <1>1, <1>2, PagesInOrder, SearchInFocus, PTL
=============================================================================
