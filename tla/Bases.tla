--------------------------------- MODULE Bases ---------------------------------
(***************************************************************************)
(* Which base a file belongs to.  A base is a directory that owns a        *)
(* `.reqlan` folder, and bases nest.  The editor asks the question twice,  *)
(* with different code: a sync hands each base the files that              *)
(* filesOwnedByBase leaves it, a watched change goes where baseForPath      *)
(* sends it (packages/analytical/src/core/base-discovery.ts).              *)
(*                                                                         *)
(*   registered  the roots in the registry (base-registry.ts)              *)
(*   active      activeBaseId of the index service, or NoBase              *)
(*   pending     per refresh under way, the base it will pin when its sync *)
(*               is done                                                   *)
(*   chosen      what the user or the navigation pinned last, and whether  *)
(*               a refresh was under way then; the code keeps no such note *)
(*                                                                         *)
(* A path is the sequence of its names, so the length of a root is its     *)
(* depth: among the roots that contain one path, the order by depth and    *)
(* the order by characters are the same.                                   *)
(***************************************************************************)
EXTENDS Naturals, Sequences

CONSTANTS
    Names,   \* what a path is made of
    Files,   \* paths of files
    Roots,   \* paths of the directories that may be bases
    NoBase,  \* no base
    Refreshes, \* bound: refreshes that run at once
    NotRunning \* no refresh

ASSUME PathAssumption == Files \subseteq Seq(Names) /\ Roots \subseteq Seq(Names)
ASSUME NoBaseAssumption == NoBase \notin Roots /\ NotRunning \notin Roots \cup {NoBase}

VARIABLES registered, active, pending, chosen

baseVars == <<registered, active, pending, chosen>>

BaseOrNone == Roots \cup {NoBase}

TypeOK == /\ registered \in SUBSET Roots
          /\ active \in BaseOrNone
          /\ pending \in [Refreshes -> BaseOrNone \cup {NotRunning}]
          /\ chosen \in [base : BaseOrNone, overtaken : BOOLEAN]

\* dir is path or one of its ancestors.
Inside(path, dir) ==
    Len(dir) <= Len(path) /\ \A i \in 1 .. Len(dir) : dir[i] = path[i]

\* b contains path, and no longer root does.
Longest(bases, path, b) ==
    /\ b \in bases /\ Inside(path, b)
    /\ \A c \in bases : Inside(path, c) => Len(c) <= Len(b)

\* Where a watched change of path is sent.
BaseForPath(bases, path) ==
    IF \E b \in bases : Longest(bases, path, b)
    THEN CHOOSE b \in bases : Longest(bases, path, b)
    ELSE NoBase

\* Mutant of ChildBases: the bases that contain the parent.
ParentBases(parent, bases) == {b \in bases : b # parent /\ Inside(parent, b)}

ChildBases(parent, bases) == {b \in bases : b # parent /\ Inside(b, parent)}

\* What a sync of base gets of the scanned files.
FilesOwnedByBase(base, files, bases) ==
    {f \in files : /\ Inside(f, base)
                   /\ \A c \in ChildBases(base, bases) : ~ Inside(f, c)}

\* Mutant of SelectDefaultBase: cwd itself, when no base contains it.
SelectCwd(bases, cwd) ==
    LET match == BaseForPath(bases, cwd)
    IN  IF match # NoBase THEN {match} ELSE {cwd}

\* The base that contains cwd, or the first one; the descriptors are sorted.
SelectDefaultBase(bases, cwd) ==
    LET match == BaseForPath(bases, cwd)
    IN  IF match # NoBase THEN {match} ELSE IF bases = {} THEN {NoBase} ELSE bases

-----------------------------------------------------------------------------
Init == /\ registered = {} /\ active = NoBase
        /\ pending = [r \in Refreshes |-> NotRunning]
        /\ chosen = [base |-> NoBase, overtaken |-> FALSE]

\* Mutant of Selected: the pinned base is not preferred.
SelectedAnew(found, cwd) == SelectDefaultBase(found, cwd)

\* The pinned base if it was found again, else the default one.
Selected(found, cwd) ==
    IF active \in found THEN {active} ELSE SelectDefaultBase(found, cwd)

\* A refresh registers the bases it found and reads the pinned one; `cwd` is the
\* file of the active editor.  The sync of the selected base follows.
RefreshStarts(r, found, cwd) ==
    /\ pending[r] = NotRunning
    /\ registered' = found
    /\ \E b \in Selected(found, cwd) : pending' = [pending EXCEPT ![r] = b]
    /\ chosen' = IF chosen.base \in found THEN chosen ELSE [chosen EXCEPT !.base = NoBase]
    /\ UNCHANGED active

\* After the sync the base is pinned, whatever is pinned by now.
RefreshEnds(r) ==
    /\ pending[r] # NotRunning
    /\ active' = pending[r]
    /\ pending' = [pending EXCEPT ![r] = NotRunning]
    /\ UNCHANGED <<registered, chosen>>

Pin(b) == /\ active' = b
          /\ chosen' = [base |-> b, overtaken |-> \E r \in Refreshes : pending[r] # NotRunning]
          /\ UNCHANGED <<registered, pending>>

\* The user picks a base; one that is not registered is refused.
SetActiveBaseId(b) == b \in registered /\ Pin(b)

\* Navigation pins the base of the file, if there is one.
ActivateBaseForPath(file) ==
    /\ BaseForPath(registered, file) # NoBase
    /\ Pin(BaseForPath(registered, file))

Next == \/ \E r \in Refreshes : \/ \E found \in SUBSET Roots, cwd \in Files :
                                        RefreshStarts(r, found, cwd)
                                \/ RefreshEnds(r)
        \/ \E b \in Roots : SetActiveBaseId(b)
        \/ \E f \in Files : ActivateBaseForPath(f)

Spec == Init /\ [][Next]_baseVars

-----------------------------------------------------------------------------
\* A file is synced by the base that its watched changes are sent to, and by no
\* other: the two routes never index a file twice, nor lose one.
OwnersAgree ==
    \A b \in registered : \A f \in Files :
        f \in FilesOwnedByBase(b, Files, registered) <=> BaseForPath(registered, f) = b

\* The base that the user or the navigation pinned last stays pinned while it is
\* registered, unless a refresh that had begun before pins its own afterwards.
SelectionKept ==
    chosen.base # NoBase /\ ~ chosen.overtaken => active = chosen.base
=============================================================================
