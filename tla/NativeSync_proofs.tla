-------------------------- MODULE NativeSync_proofs --------------------------
(***************************************************************************)
(* Proofs about the native sync, for any number of processes, files, names *)
(* and edits.                                                              *)
(*                                                                         *)
(* Type correctness needs to know which kind of file a pass has in hand.   *)
(* That a row with the file's own mtime is the row of the file's own text  *)
(* needs to know that no mtime, stored or in hand, is ahead of the disk's, *)
(* and that a text in hand whose mtime is still the file's is still the    *)
(* file's text: it is here that the mtime must be taken before the text is *)
(* read.  That no link is left over rests on the same facts and on the     *)
(* foreign key.  What holds only while one process syncs the database, that *)
(* every row has its document, that the catalog in memory is the ideas     *)
(* table, that no link is missing, is proved for one process.  The last    *)
(* part puts these together: one pass that nothing disturbs is enough for  *)
(* the database to describe the base.                                      *)
(***************************************************************************)
EXTENDS NativeSyncProps, TLAPS

RqStages   == {"readRq", "compare", "saveRq"}
CodeStages == {"readCode", "saveCode"}
TextInHand == {"compare", "saveRq", "saveCode"}

\* A pass in its `.rq` steps has a `.rq` file in hand, one in its code steps a
\* code file, and a `.rq` text declares names.
StageOK(r) == /\ r.pc \in RqStages => r.file \in RqFiles
              /\ r.pc \in CodeStages => r.file \in CodeFiles
              /\ r.pc \in {"compare", "saveRq"} => r.body \subseteq Names

Stages == \A p \in Procs : StageOK(pass[p])

DiskTexts == \A f \in RqFiles : disk[f].body \subseteq Names

TypeInv == TypeOK /\ Stages /\ DiskTexts

\* No mtime is ahead of the disk's.
NotAhead ==
    /\ \A f \in Files : docs[f] <= disk[f].mtime
    /\ \A p \in Procs : pass[p].pc \in RqStages \cup CodeStages =>
          pass[p].mtime <= disk[pass[p].file].mtime

\* A text read under the mtime the file still has is the text it still has.
TextHonest ==
    \A p \in Procs : pass[p].pc \in TextInHand =>
        (pass[p].mtime = disk[pass[p].file].mtime
            => pass[p].body = disk[pass[p].file].body)

HonestInv == TypeInv /\ NotAhead /\ TextHonest /\ MtimeHonest

\* The steps of Next, each with the process that takes it.
LEMMA NextCases ==
    ASSUME Next
    PROVE  \/ \E f \in Files : Edit(f)
           \/ Upgrade
           \/ \E p \in Procs :
                 \/ \E kind \in Kinds : Begin(p, kind)
                 \/ ClearStep(p) \/ Scan(p) \/ ReadMtimes(p) \/ LoadCatalog(p)
                 \/ SkipRq(p) \/ StatRq(p) \/ ReadRq(p) \/ CompareNames(p)
                 \/ SaveRq(p) \/ SaveRqFails(p) \/ RqDone(p)
                 \/ SkipCode(p) \/ StatCode(p) \/ ReadCode(p) \/ SaveCode(p)
                 \/ SaveCodeAborts(p) \/ CodeDone(p) \/ Prune(p) \/ PruneDone(p)
                 \/ Finish(p) \/ Cancel(p) \/ Interrupt(p)
  BY DEF Next, PassStep

-----------------------------------------------------------------------------
(* Type correctness *)

LEMMA InitTypes == Init => TypeInv
  BY FilesAssumption, SyncAssumption
  DEF Init, StoreInit, FirstStates, NoPass, TypeInv, TypeOK, StoreType, FileStates,
      Passes, PCs, Stages, StageOK, DiskTexts, Files, Ideas, Links, NoRow, NoMtime,
      RqStages, CodeStages, Bodies, Refs, NoFile

\* A step of p that gives pass[p] a well-typed value keeps TypeInv.
LEMMA PassTypes ==
    ASSUME TypeInv, NEW p \in Procs,
           pass' = [pass EXCEPT ![p] = pass'[p]],
           pass'[p] \in Passes, StageOK(pass'[p]),
           UNCHANGED <<disk, build>>, StoreType'
    PROVE  TypeInv'
  BY DEF TypeInv, TypeOK, Stages, DiskTexts

LEMMA NoPassTypes == NoPass \in Passes /\ StageOK(NoPass)
  BY DEF NoPass, Passes, PCs, StageOK, RqStages, CodeStages, NoFile, NoRow, NoMtime

LEMMA AfterFileTypes ==
    ASSUME NEW r \in Passes, NEW pc \in {"rq", "code"}
    PROVE  /\ AfterFile(r, pc) \in Passes
           /\ StageOK(AfterFile(r, pc))
           /\ AfterFile(r, pc).catalog = r.catalog
           /\ AfterFile(r, pc).relink = r.relink
           /\ AfterFile(r, pc).keep = r.keep
<1>1. AfterFile(r, pc) \in Passes
  <2>1. [r EXCEPT !.pc = pc, !.file = NoFile] \in Passes
    BY DEF Passes, PCs
  <2>2. NoMtime \in Int
    BY DEF NoMtime
  <2> QED
    BY <2>1, <2>2 DEF AfterFile, Passes
<1>2. AfterFile(r, pc).pc \in {"rq", "code"}
  BY DEF AfterFile, Passes
<1>3. StageOK(AfterFile(r, pc))
  BY <1>2 DEF StageOK, RqStages, CodeStages
<1> QED
  BY <1>1, <1>3 DEF AfterFile, Passes

LEMMA GotoTypes ==
    ASSUME NEW r \in Passes, NEW pc \in PCs \ (RqStages \cup CodeStages)
    PROVE  [r EXCEPT !.pc = pc] \in Passes /\ StageOK([r EXCEPT !.pc = pc])
  BY DEF Passes, StageOK, RqStages, CodeStages

LEMMA TypeStep == TypeInv /\ [Next]_vars => TypeInv'
<1> SUFFICES ASSUME TypeInv, [Next]_vars PROVE TypeInv'
  OBVIOUS
<1>1. ASSUME NEW f \in Files, Edit(f) PROVE TypeInv'
  <2>1. \A body \in Bodies(f) : body \in SUBSET (Names \cup Refs)
    BY SyncAssumption DEF Bodies
  <2>2. \A body \in Bodies(f) : f \in RqFiles => body \in SUBSET Names
    BY SyncAssumption DEF Bodies
  <2>3. disk' \in [Files -> FileStates]
    BY <1>1, <2>1 DEF Edit, TypeInv, TypeOK, FileStates
  <2>4. DiskTexts'
    BY <1>1, <2>2 DEF Edit, TypeInv, TypeOK, DiskTexts, Files
  <2> QED
    BY <1>1, <2>3, <2>4 DEF Edit, TypeInv, TypeOK, StoreType, Stages, storeVars
<1>2. CASE Upgrade
  BY <1>2 DEF Upgrade, TypeInv, TypeOK, StoreType, Stages, DiskTexts, storeVars
<1>3. ASSUME NEW p \in Procs, NEW kind \in Kinds, Begin(p, kind) PROVE TypeInv'
  <2> kind \in {"soft", "hard", "paths"}
    BY SyncAssumption
  <2>1. pass[p] \in Passes /\ StageOK(pass[p])
    BY DEF TypeInv, TypeOK, Stages
  <2>2. pass' = [pass EXCEPT ![p] = pass'[p]]
    BY <1>3 DEF Begin
  <2>3. pass'[p] \in Passes /\ StageOK(pass'[p])
    <3>1. PICK pc \in {"clearEdges", "scan"}, clear \in BOOLEAN :
             pass'[p] = [pass[p] EXCEPT !.pc = pc, !.kind = kind, !.relink = clear, !.keep = {}]
      BY <1>3 DEF Begin, TypeInv, TypeOK
    <3> QED
      BY <3>1, <2>1 DEF Passes, PCs, StageOK, RqStages, CodeStages
  <2>4. StoreType' /\ UNCHANGED <<disk, build>>
    BY <1>3 DEF Begin, storeVars, TypeInv, TypeOK, StoreType
  <2> QED
    BY <2>2, <2>3, <2>4, PassTypes
<1>4. ASSUME NEW p \in Procs, ClearStep(p) PROVE TypeInv'
  <2>1. pass[p] \in Passes /\ StageOK(pass[p])
    BY DEF TypeInv, TypeOK, Stages
  <2>2. pass' = [pass EXCEPT ![p] = pass'[p]]
    BY <1>4 DEF ClearStep, Goto, At
  <2>3. pass'[p] \in Passes /\ StageOK(pass'[p])
    BY <1>4, <2>1 DEF ClearStep, Goto, At, TypeInv, TypeOK, Passes, PCs, StageOK, RqStages, CodeStages
  <2>4. StoreType' /\ UNCHANGED <<disk, build>>
    BY <1>4 DEF ClearStep, ClearEdges, ClearIdeas, ClearDocuments, NoRow, TypeInv, TypeOK, StoreType
  <2> QED
    BY <2>2, <2>3, <2>4, PassTypes
<1>5. ASSUME NEW p \in Procs, Scan(p) \/ ReadMtimes(p) \/ LoadCatalog(p) PROVE TypeInv'
  <2>1. pass[p] \in Passes /\ StageOK(pass[p])
    BY DEF TypeInv, TypeOK, Stages
  <2>2. pass' = [pass EXCEPT ![p] = pass'[p]]
    BY <1>5 DEF Scan, ReadMtimes, LoadCatalog, At
  <2>3. pass'[p] \in Passes /\ StageOK(pass'[p])
    <3>1. CASE Scan(p)
      <4>1. PICK listed \in SUBSET Files :
               pass'[p] = [pass[p] EXCEPT !.todo = listed, !.pc = "mtimes"]
        BY <3>1 DEF Scan, TypeInv, TypeOK
      <4> QED
        BY <2>1, <4>1 DEF Passes, PCs, StageOK, RqStages, CodeStages
    <3>2. CASE ReadMtimes(p)
      BY <3>2, <2>1 DEF ReadMtimes, TypeInv, TypeOK, StoreType, Passes, PCs,
                        StageOK, RqStages, CodeStages
    <3>3. CASE LoadCatalog(p)
      BY <3>3, <2>1 DEF LoadCatalog, TypeInv, TypeOK, StoreType, Passes, PCs,
                        StageOK, RqStages, CodeStages
    <3> QED
      BY <1>5, <3>1, <3>2, <3>3
  <2>4. StoreType' /\ UNCHANGED <<disk, build>>
    BY <1>5 DEF Scan, ReadMtimes, LoadCatalog, storeVars, TypeInv, TypeOK, StoreType
  <2> QED
    BY <2>2, <2>3, <2>4, PassTypes
<1>6. ASSUME NEW p \in Procs, SkipRq(p) \/ SkipCode(p) PROVE TypeInv'
  <2>1. pass[p] \in Passes /\ StageOK(pass[p])
    BY DEF TypeInv, TypeOK, Stages
  <2>2. pass' = [pass EXCEPT ![p] = pass'[p]]
    BY <1>6 DEF SkipRq, SkipCode, Drop, At
  <2>3. pass'[p] \in Passes /\ StageOK(pass'[p])
    <3>1. CASE SkipRq(p)
      <4>1. PICK f \in Files :
               pass'[p] = [pass[p] EXCEPT !.todo = @ \ {f}, !.pc = "rq"]
        BY <3>1 DEF SkipRq, Drop, Files, TypeInv, TypeOK
      <4> QED
        BY <2>1, <4>1 DEF Passes, PCs, StageOK, RqStages, CodeStages
    <3>2. CASE SkipCode(p)
      <4>1. PICK c \in CodeFiles :
               pass'[p] = [pass[p] EXCEPT !.todo = @ \ {c}, !.keep = @ \cup {c}]
        BY <3>2 DEF SkipCode, TypeInv, TypeOK
      <4>2. pass'[p] \in Passes
        <5>1. /\ pass[p].todo \ {c} \in SUBSET Files
              /\ pass[p].keep \cup {c} \in SUBSET CodeFiles
          BY <2>1 DEF Passes
        <5> QED
          BY <2>1, <4>1, <5>1 DEF Passes
      <4>3. /\ pass'[p].file = pass[p].file /\ pass'[p].pc = pass[p].pc
            /\ pass'[p].body = pass[p].body
        BY <2>1, <4>1 DEF Passes
      <4> QED
        BY <2>1, <4>2, <4>3 DEF StageOK
    <3> QED
      BY <1>6, <3>1, <3>2
  <2>4. StoreType' /\ UNCHANGED <<disk, build>>
    BY <1>6 DEF SkipRq, SkipCode, storeVars, TypeInv, TypeOK, StoreType
  <2> QED
    BY <2>2, <2>3, <2>4, PassTypes
<1>7. ASSUME NEW p \in Procs, StatRq(p) \/ StatCode(p) PROVE TypeInv'
  <2>1. pass[p] \in Passes /\ StageOK(pass[p])
    BY DEF TypeInv, TypeOK, Stages
  <2> \A f \in Files : Stat(f) \in Int
    BY DEF TypeInv, TypeOK, FileStates, Stat, NoMtime
  <2>2. pass' = [pass EXCEPT ![p] = pass'[p]]
    BY <1>7 DEF StatRq, StatCode, At
  <2>3. pass'[p] \in Passes /\ StageOK(pass'[p])
    <3>1. CASE StatRq(p)
      <4>1. PICK f \in RqFiles, m \in Int :
               pass'[p] = [pass[p] EXCEPT !.todo = @ \ {f}, !.file = f,
                                          !.mtime = m, !.pc = "readRq"]
        BY <3>1 DEF StatRq, Files, TypeInv, TypeOK
      <4>2. pass'[p] \in Passes
        <5>1. pass[p].todo \ {f} \in SUBSET Files /\ f \in Files /\ "readRq" \in PCs
          BY <2>1 DEF Passes, PCs, Files
        <5> QED
          BY <2>1, <4>1, <5>1 DEF Passes
      <4>3. pass'[p].file = f /\ pass'[p].pc = "readRq"
        BY <2>1, <4>1 DEF Passes
      <4> QED
        BY <4>2, <4>3 DEF StageOK, RqStages, CodeStages
    <3>2. CASE StatCode(p)
      <4>1. PICK c \in CodeFiles, m \in Int :
               pass'[p] = [pass[p] EXCEPT !.todo = @ \ {c}, !.file = c,
                                          !.mtime = m, !.pc = "readCode"]
        BY <3>2 DEF StatCode, Files, TypeInv, TypeOK
      <4>2. pass'[p] \in Passes
        <5>1. pass[p].todo \ {c} \in SUBSET Files /\ c \in Files /\ "readCode" \in PCs
          BY <2>1 DEF Passes, PCs, Files
        <5> QED
          BY <2>1, <4>1, <5>1 DEF Passes
      <4>3. pass'[p].file = c /\ pass'[p].pc = "readCode"
        BY <2>1, <4>1 DEF Passes
      <4> QED
        BY <4>2, <4>3 DEF StageOK, RqStages, CodeStages
    <3> QED
      BY <1>7, <3>1, <3>2
  <2>4. StoreType' /\ UNCHANGED <<disk, build>>
    BY <1>7 DEF StatRq, StatCode, storeVars, TypeInv, TypeOK, StoreType
  <2> QED
    BY <2>2, <2>3, <2>4, PassTypes
<1>8. ASSUME NEW p \in Procs, ReadRq(p) \/ ReadCode(p) PROVE TypeInv'
  <2>1. pass[p] \in Passes /\ StageOK(pass[p])
    BY DEF TypeInv, TypeOK, Stages
  <2> \A f \in Files : disk[f].body \in SUBSET (Names \cup Refs)
    BY DEF TypeInv, TypeOK, FileStates
  <2> DiskTexts
    BY DEF TypeInv
  <2>2. pass' = [pass EXCEPT ![p] = pass'[p]]
    BY <1>8 DEF ReadRq, ReadCode, NextFile, AfterFile, NoFile, NoMtime, At
  <2>3. pass'[p] \in Passes /\ StageOK(pass'[p])
    <3>1. CASE ReadRq(p)
      <4>1. pass[p].file \in RqFiles /\ pass[p].file \in Files
        BY <3>1, <2>1 DEF ReadRq, At, StageOK, RqStages, Files
      <4>2. CASE IsText(pass[p].file)
        <5>1. PICK body \in SUBSET (Names \cup Refs) :
                 /\ body \in SUBSET Names
                 /\ pass'[p] = [pass[p] EXCEPT !.body = body, !.pc = "compare"]
          BY <3>1, <4>1, <4>2 DEF ReadRq, TypeInv, TypeOK, DiskTexts
        <5> QED
          BY <2>1, <4>1, <5>1 DEF Passes, PCs, StageOK, RqStages, CodeStages
      <4>3. CASE ~ IsText(pass[p].file)
        BY <3>1, <2>1, <4>3, AfterFileTypes DEF ReadRq, NextFile, TypeInv, TypeOK
      <4> QED
        BY <4>2, <4>3
    <3>2. CASE ReadCode(p)
      <4>1. pass[p].file \in CodeFiles /\ pass[p].file \in Files
        BY <3>2, <2>1 DEF ReadCode, At, StageOK, CodeStages, Files
      <4>2. CASE IsText(pass[p].file)
        <5>1. PICK body \in SUBSET (Names \cup Refs) :
                 pass'[p] = [pass[p] EXCEPT !.body = body, !.pc = "saveCode"]
          BY <3>2, <4>1, <4>2 DEF ReadCode, TypeInv, TypeOK
        <5> QED
          BY <2>1, <4>1, <5>1 DEF Passes, PCs, StageOK, RqStages, CodeStages
      <4>3. CASE ~ IsText(pass[p].file)
        BY <3>2, <2>1, <4>3, AfterFileTypes DEF ReadCode, NextFile, TypeInv, TypeOK
      <4> QED
        BY <4>2, <4>3
    <3> QED
      BY <1>8, <3>1, <3>2
  <2>4. StoreType' /\ UNCHANGED <<disk, build>>
    BY <1>8 DEF ReadRq, ReadCode, storeVars, TypeInv, TypeOK, StoreType
  <2> QED
    BY <2>2, <2>3, <2>4, PassTypes
<1>9. ASSUME NEW p \in Procs, CompareNames(p) PROVE TypeInv'
  <2>1. pass[p] \in Passes /\ StageOK(pass[p])
    BY DEF TypeInv, TypeOK, Stages
  <2>2. pass' = [pass EXCEPT ![p] = pass'[p]]
    BY <1>9 DEF CompareNames, At
  <2>3. pass'[p] \in Passes /\ StageOK(pass'[p])
    BY <1>9, <2>1 DEF CompareNames, At, TypeInv, TypeOK, Passes, PCs, StageOK, RqStages, CodeStages
  <2>4. StoreType' /\ UNCHANGED <<disk, build>>
    BY <1>9 DEF CompareNames, storeVars, TypeInv, TypeOK, StoreType
  <2> QED
    BY <2>2, <2>3, <2>4, PassTypes
<1>10. ASSUME NEW p \in Procs, SaveRq(p) PROVE TypeInv'
  <2>1. pass[p] \in Passes /\ StageOK(pass[p])
    BY DEF TypeInv, TypeOK, Stages
  <2>2. pass' = [pass EXCEPT ![p] = pass'[p]]
    BY <1>10 DEF SaveRq, AfterFile, NoFile, NoMtime, At
  <2>3. pass'[p] \in Passes /\ StageOK(pass'[p])
    <3>1. PICK catalog \in SUBSET Ideas, relink \in BOOLEAN :
             pass'[p] = [AfterFile(pass[p], "rq") EXCEPT !.catalog = catalog,
                                                         !.relink = relink]
      <4>1. pass[p].file \in RqFiles /\ pass[p].body \subseteq Names
        BY <1>10, <2>1 DEF SaveRq, At, StageOK, RqStages
      <4>2. {i \in pass[p].catalog : i[1] # pass[p].file}
                \cup ({pass[p].file} \X pass[p].body) \in SUBSET Ideas
        BY <2>1, <4>1 DEF Passes, Ideas
      <4>3. (pass[p].relink \/ pass[p].changed) \in BOOLEAN
        OBVIOUS
      <4>4. AfterFile(pass[p], "rq").catalog = pass[p].catalog
            /\ AfterFile(pass[p], "rq").relink = pass[p].relink
        BY <2>1, AfterFileTypes
      <4> QED
        <5>1. pass'[p] = [AfterFile(pass[p], "rq") EXCEPT
                 !.catalog = {i \in pass[p].catalog : i[1] # pass[p].file}
                                \cup ({pass[p].file} \X pass[p].body),
                 !.relink = pass[p].relink \/ pass[p].changed]
          BY <1>10 DEF SaveRq, TypeInv, TypeOK
        <5> QED
          BY <4>2, <4>3, <4>4, <5>1
    <3>2. /\ AfterFile(pass[p], "rq") \in Passes
          /\ StageOK(AfterFile(pass[p], "rq"))
      BY <2>1, AfterFileTypes
    <3> QED
      BY <3>1, <3>2 DEF Passes, StageOK
  <2>4. StoreType' /\ UNCHANGED <<disk, build>>
    BY <1>10, <2>1 DEF SaveRq, PersistIdeas, At, StageOK, RqStages, Ideas, Passes, TypeInv, TypeOK, StoreType
  <2> QED
    BY <2>2, <2>3, <2>4, PassTypes
<1>11. ASSUME NEW p \in Procs, SaveRqFails(p) \/ RqDone(p) PROVE TypeInv'
  <2>1. pass[p] \in Passes /\ StageOK(pass[p])
    BY DEF TypeInv, TypeOK, Stages
  <2>2. pass' = [pass EXCEPT ![p] = pass'[p]]
    BY <1>11 DEF SaveRqFails, RqDone, NextFile, AfterFile, NoFile, NoMtime, Goto, At
  <2>3. pass'[p] \in Passes /\ StageOK(pass'[p])
    <3>1. CASE SaveRqFails(p)
      BY <3>1, <2>1, AfterFileTypes DEF SaveRqFails, NextFile, TypeInv, TypeOK
    <3>2. CASE RqDone(p)
      BY <3>2, <2>1, GotoTypes DEF RqDone, Goto, PCs, RqStages, CodeStages, TypeInv, TypeOK
    <3> QED
      BY <1>11, <3>1, <3>2
  <2>4. StoreType' /\ UNCHANGED <<disk, build>>
    BY <1>11 DEF SaveRqFails, RqDone, storeVars, TypeInv, TypeOK, StoreType
  <2> QED
    BY <2>2, <2>3, <2>4, PassTypes
<1>12. ASSUME NEW p \in Procs, SaveCode(p) PROVE TypeInv'
  <2>1. pass[p] \in Passes /\ StageOK(pass[p])
    BY DEF TypeInv, TypeOK, Stages
  <2>2. pass' = [pass EXCEPT ![p] = pass'[p]]
    BY <1>12 DEF SaveCode, AfterFile, NoFile, NoMtime, At
  <2>3. pass'[p] \in Passes /\ StageOK(pass'[p])
    <3>1. pass[p].file \in CodeFiles
      BY <1>12, <2>1 DEF SaveCode, At, StageOK, CodeStages
    <3>2. PICK keep \in SUBSET CodeFiles :
             pass'[p] = [AfterFile(pass[p], "code") EXCEPT !.keep = keep]
      <4>1. AfterFile(pass[p], "code").keep = pass[p].keep
        BY <2>1, AfterFileTypes
      <4>2. pass[p].keep \cup {pass[p].file} \in SUBSET CodeFiles
        BY <2>1, <3>1 DEF Passes
      <4> QED
        <5>1. pass'[p] = [AfterFile(pass[p], "code") EXCEPT
                 !.keep = pass[p].keep \cup {pass[p].file}]
          BY <1>12 DEF SaveCode, TypeInv, TypeOK
        <5> QED
          BY <4>1, <4>2, <5>1
    <3>3. /\ AfterFile(pass[p], "code") \in Passes
          /\ StageOK(AfterFile(pass[p], "code"))
      BY <2>1, AfterFileTypes
    <3> QED
      BY <3>2, <3>3 DEF Passes, StageOK
  <2>4. StoreType' /\ UNCHANGED <<disk, build>>
    BY <1>12, <2>1 DEF SaveCode, PersistLinks, At, StageOK, CodeStages, LinkRows, LinksOf, CodeTargets, Resolve, ForeignKeysHold, Ideas, Links, Files, Passes, TypeInv, TypeOK, StoreType
  <2> QED
    BY <2>2, <2>3, <2>4, PassTypes
<1>13. ASSUME NEW p \in Procs, SaveCodeAborts(p) \/ Interrupt(p) \/ Cancel(p) PROVE TypeInv'
  <2>1. pass[p] \in Passes /\ StageOK(pass[p])
    BY DEF TypeInv, TypeOK, Stages
  <2>2. pass' = [pass EXCEPT ![p] = pass'[p]]
    BY <1>13 DEF SaveCodeAborts, Interrupt, Cancel, End, NoPass, NoFile, NoRow, NoMtime, Goto, At
  <2>3. pass'[p] \in Passes /\ StageOK(pass'[p])
    <3>1. CASE SaveCodeAborts(p) \/ Interrupt(p)
      BY <3>1, NoPassTypes DEF SaveCodeAborts, Interrupt, End, TypeInv, TypeOK
    <3>2. CASE Cancel(p)
      <4>1. CASE End(p)
        BY <4>1, NoPassTypes DEF End, TypeInv, TypeOK
      <4>2. CASE Goto(p, "stamp")
        BY <4>2, <2>1, GotoTypes DEF Goto, PCs, RqStages, CodeStages, TypeInv, TypeOK
      <4> QED
        BY <3>2, <4>1, <4>2 DEF Cancel
    <3> QED
      BY <1>13, <3>1, <3>2
  <2>4. StoreType' /\ UNCHANGED <<disk, build>>
    BY <1>13 DEF SaveCodeAborts, Interrupt, Cancel, storeVars, TypeInv, TypeOK, StoreType
  <2> QED
    BY <2>2, <2>3, <2>4, PassTypes
<1>14. ASSUME NEW p \in Procs, CodeDone(p) \/ PruneDone(p) PROVE TypeInv'
  <2>1. pass[p] \in Passes /\ StageOK(pass[p])
    BY DEF TypeInv, TypeOK, Stages
  <2>2. pass' = [pass EXCEPT ![p] = pass'[p]]
    BY <1>14 DEF CodeDone, PruneDone, CodeDocuments, Goto, At
  <2>3. pass'[p] \in Passes /\ StageOK(pass'[p])
    BY SMTT(20), <1>14, <2>1 DEF CodeDone, PruneDone, CodeDocuments, Goto, At, Files, TypeInv, TypeOK, Passes, PCs, StageOK, RqStages, CodeStages
  <2>4. StoreType' /\ UNCHANGED <<disk, build>>
    BY <1>14 DEF CodeDone, PruneDone, storeVars, TypeInv, TypeOK, StoreType
  <2> QED
    BY <2>2, <2>3, <2>4, PassTypes
<1>15. ASSUME NEW p \in Procs, Prune(p) PROVE TypeInv'
  <2>1. pass[p] \in Passes /\ StageOK(pass[p])
    BY DEF TypeInv, TypeOK, Stages
  <2>2. pass' = [pass EXCEPT ![p] = pass'[p]]
    BY <1>15 DEF Prune, Drop, At
  <2>3. pass'[p] \in Passes /\ StageOK(pass'[p])
    <3>1. PICK c \in Files :
             pass'[p] = [pass[p] EXCEPT !.todo = @ \ {c}, !.pc = "prune"]
      BY <1>15, <2>1 DEF Prune, Drop, Passes, TypeInv, TypeOK
    <3> QED
      BY <2>1, <3>1 DEF Passes, PCs, StageOK, RqStages, CodeStages
  <2>4. StoreType' /\ UNCHANGED <<disk, build>>
    <3>1. PICK c \in Files : RemoveDocument(c)
      BY <1>15, <2>1 DEF Prune, Passes
    <3>2. docs' \in [Files -> Int]
      BY <3>1 DEF RemoveDocument, NoRow, TypeInv, TypeOK, StoreType
    <3>3. ideas' \subseteq Ideas /\ links' \subseteq Links /\ version' \in Nat
      BY <3>1 DEF RemoveDocument, TypeInv, TypeOK, StoreType
    <3> QED
      BY <1>15, <3>2, <3>3 DEF Prune, StoreType
  <2> QED
    BY <2>2, <2>3, <2>4, PassTypes
<1>16. ASSUME NEW p \in Procs, Finish(p) PROVE TypeInv'
  <2>1. pass[p] \in Passes /\ StageOK(pass[p])
    BY DEF TypeInv, TypeOK, Stages
  <2>2. pass' = [pass EXCEPT ![p] = pass'[p]]
    BY <1>16 DEF Finish, End, NoPass, NoFile, NoRow, NoMtime, At
  <2>3. pass'[p] \in Passes /\ StageOK(pass'[p])
    BY <1>16, <2>1 DEF Finish, End, NoPass, NoFile, NoRow, NoMtime, At, TypeInv, TypeOK, Passes, PCs, StageOK, RqStages, CodeStages
  <2>4. StoreType' /\ UNCHANGED <<disk, build>>
    BY <1>16 DEF Finish, SetExtractVersion, storeVars, TypeInv, TypeOK, StoreType
  <2> QED
    BY <2>2, <2>3, <2>4, PassTypes
<1>17. CASE UNCHANGED vars
  BY <1>17 DEF vars, storeVars, syncVars, TypeInv, TypeOK, StoreType, Stages, DiskTexts
<1> QED
  BY <1>1, <1>2, <1>3, <1>4, <1>5, <1>6, <1>7, <1>8, <1>9, <1>10, <1>11, <1>12, <1>13,
     <1>14, <1>15, <1>16, <1>17, NextCases

\* The database, the disk and the locals of every pass keep their types, whatever
\* edits, crashes and other processes come between the steps of a pass.
THEOREM TypeCorrect == Spec => []TypeOK
<1>1. Spec => []TypeInv
  BY InitTypes, TypeStep, PTL DEF Spec
<1> QED
  BY <1>1, PTL DEF TypeInv
-----------------------------------------------------------------------------
(* What a step of a pass can do *)

Action(p) == \/ \E kind \in Kinds : Begin(p, kind)
             \/ PassStep(p) \/ Cancel(p) \/ Interrupt(p)

LEMMA NextIs == Next <=> \/ \E f \in Files : Edit(f)
                         \/ Upgrade
                         \/ \E p \in Procs : Action(p)
  BY DEF Next, Action

\* The other passes, the disk and the program are left alone.
LEMMA OthersSame ==
    ASSUME TypeInv, NEW p \in Procs, Action(p)
    PROVE  /\ UNCHANGED <<disk, build>>
           /\ \A q \in Procs \ {p} : pass'[q] = pass[q]
<1> USE DEF TypeInv, TypeOK, storeVars
<1>1. ASSUME NEW kind \in Kinds, Begin(p, kind)
      PROVE UNCHANGED <<disk, build>> /\ \A q \in Procs \ {p} : pass'[q] = pass[q]
  BY <1>1 DEF Begin
<1>2. CASE PassStep(p)
  BY <1>2 DEF PassStep, ClearStep, Scan, ReadMtimes, LoadCatalog, SkipRq, StatRq, ReadRq,
      CompareNames, SaveRq, SaveRqFails, RqDone, SkipCode, StatCode, ReadCode, SaveCode,
      SaveCodeAborts, CodeDone, Prune, PruneDone, Finish, Goto, End, NextFile, Drop
<1>3. CASE Cancel(p) \/ Interrupt(p)
  BY <1>3 DEF Cancel, Interrupt, Goto, End
<1> QED
  BY <1>1, <1>2, <1>3 DEF Action

Fresh(p) ==     \* p takes the mtime of the file it turns to
    /\ pass'[p].pc \in {"readRq", "readCode"}
    /\ pass'[p].file \in Files
    /\ pass'[p].mtime = Stat(pass'[p].file)

SameFile(p) ==  \* p goes on with the file and the mtime it has
    /\ pass[p].pc \in RqStages \cup CodeStages
    /\ pass'[p].file = pass[p].file
    /\ pass'[p].mtime = pass[p].mtime

\* The file in hand changes only when its mtime is taken with it, and the text in
\* hand is the disk's when it is read and stays the same after.
LEMMA InHand ==
    ASSUME TypeInv, NEW p \in Procs, Action(p),
           pass'[p].pc \in RqStages \cup CodeStages
    PROVE  /\ Fresh(p) \/ SameFile(p)
           /\ pass'[p].pc \in TextInHand =>
                 /\ SameFile(p)
                 /\ \/ pass[p].pc \in TextInHand /\ pass'[p].body = pass[p].body
                    \/ pass'[p].body = disk[pass[p].file].body
<1> DEFINE Goal == /\ Fresh(p) \/ SameFile(p)
                   /\ pass'[p].pc \in TextInHand =>
                         /\ SameFile(p)
                         /\ \/ pass[p].pc \in TextInHand /\ pass'[p].body = pass[p].body
                            \/ pass'[p].body = disk[pass[p].file].body
<1> SUFFICES Goal
  OBVIOUS
<1>0. pass \in [Procs -> Passes] /\ pass[p] \in Passes
  BY DEF TypeInv, TypeOK
<1> USE DEF RqStages, CodeStages, TextInHand
<1>1. CASE StatRq(p) \/ StatCode(p)
  <2>1. PICK f \in Files, pc \in {"readRq", "readCode"} :
           pass' = [pass EXCEPT ![p].todo = @ \ {f}, ![p].file = f,
                                ![p].mtime = Stat(f), ![p].pc = pc]
    BY <1>1 DEF StatRq, StatCode, Files
  <2>2. pass'[p].file = f /\ pass'[p].mtime = Stat(f) /\ pass'[p].pc = pc
    BY <1>0, <2>1 DEF Passes
  <2> QED
    BY <2>2 DEF Fresh
<1>2. CASE ReadRq(p) \/ ReadCode(p)
  <2>1. AfterFile(pass[p], "rq").pc = "rq" /\ AfterFile(pass[p], "code").pc = "code"
    BY <1>0 DEF AfterFile, Passes
  <2>2. IsText(pass[p].file)
    BY <1>0, <1>2, <2>1 DEF ReadRq, ReadCode, NextFile
  <2>3. SameFile(p) /\ pass'[p].body = disk[pass[p].file].body
    BY <1>0, <1>2, <2>2 DEF ReadRq, ReadCode, SameFile, At, Passes
  <2> QED
    BY <2>3
<1>3. CASE CompareNames(p)
  BY <1>0, <1>3 DEF CompareNames, SameFile, At, Passes
<1>4. CASE ~ (StatRq(p) \/ StatCode(p) \/ ReadRq(p) \/ ReadCode(p) \/ CompareNames(p))
  <2>1. ASSUME NEW kind \in Kinds, Begin(p, kind) PROVE FALSE
    BY <1>0, <2>1 DEF Begin, Passes
  <2>2. CASE ClearStep(p) \/ RqDone(p) \/ PruneDone(p)
    BY <1>0, <2>2 DEF ClearStep, RqDone, PruneDone, Goto, Passes
  <2>3. CASE Scan(p) \/ ReadMtimes(p) \/ LoadCatalog(p) \/ CodeDone(p)
    <3>1. pass'[p].pc \in {"mtimes", "catalog", "rq", "prune"}
      <4>1. CASE Scan(p)
        <5>1. PICK listed : pass' = [pass EXCEPT ![p].todo = listed, ![p].pc = "mtimes"]
          BY <4>1 DEF Scan
        <5> QED
          BY <1>0, <5>1 DEF Passes
      <4>2. CASE ReadMtimes(p) \/ LoadCatalog(p)
        BY <1>0, <4>2 DEF ReadMtimes, LoadCatalog, Passes
      <4>3. CASE CodeDone(p)
        BY <1>0, <4>3 DEF CodeDone, Passes
      <4> QED
        BY <2>3, <4>1, <4>2, <4>3
    <3> QED
      BY <3>1
  <2>4. CASE SkipRq(p) \/ SkipCode(p) \/ Prune(p)
    <3>1. CASE SkipRq(p) \/ Prune(p)
      <4>1. PICK f : Drop(p, f, "rq") \/ Drop(p, f, "prune")
        BY <3>1 DEF SkipRq, Prune
      <4> QED
        BY <1>0, <4>1 DEF Drop, Passes
    <3>2. CASE SkipCode(p)
      <4>1. PICK c : pass' = [pass EXCEPT ![p].todo = @ \ {c}, ![p].keep = @ \cup {c}]
        BY <3>2 DEF SkipCode
      <4>2. pass'[p].pc = "code"
        BY <1>0, <3>2, <4>1 DEF SkipCode, At, Passes
      <4> QED
        BY <4>2
    <3> QED
      BY <2>4, <3>1, <3>2
  <2>5. CASE SaveRq(p) \/ SaveCode(p) \/ SaveRqFails(p)
    <3>1. AfterFile(pass[p], "rq").pc = "rq" /\ AfterFile(pass[p], "code").pc = "code"
      BY <1>0 DEF AfterFile, Passes
    <3>2. pass'[p].pc \in {"rq", "code"}
      <4>1. CASE SaveRq(p)
        <5>1. PICK catalog, relink :
                 pass'[p] = [AfterFile(pass[p], "rq") EXCEPT !.catalog = catalog,
                                                             !.relink = relink]
          BY <1>0, <4>1 DEF SaveRq
        <5> QED
          BY <1>0, <3>1, <5>1, AfterFileTypes DEF Passes
      <4>2. CASE SaveCode(p)
        <5>1. PICK keep : pass'[p] = [AfterFile(pass[p], "code") EXCEPT !.keep = keep]
          BY <1>0, <4>2 DEF SaveCode
        <5> QED
          BY <1>0, <3>1, <5>1, AfterFileTypes DEF Passes
      <4>3. CASE SaveRqFails(p)
        BY <1>0, <4>3, <3>1 DEF SaveRqFails, NextFile
      <4> QED
        BY <2>5, <4>1, <4>2, <4>3
    <3> QED
      BY <3>2
  <2>6. CASE SaveCodeAborts(p) \/ Finish(p) \/ Cancel(p) \/ Interrupt(p)
    BY <1>0, <2>6 DEF SaveCodeAborts, Finish, Cancel, Interrupt, End, Goto, NoPass, Passes
  <2> QED
    BY <1>4, <2>1, <2>2, <2>3, <2>4, <2>5, <2>6 DEF Action, PassStep
<1> QED
  BY <1>1, <1>2, <1>3, <1>4

\* What a step of p writes to the database.
Writes(p) ==
    \/ UNCHANGED <<docs, ideas, links>>
    \/ At(p, "clearEdges") /\ ClearEdges
    \/ At(p, "clearIdeas") /\ ClearIdeas /\ pass'[p].pc = "clearDocs"
    \/ At(p, "clearDocs") /\ ClearDocuments
    \/ At(p, "saveRq") /\ PersistIdeas(pass[p].file, pass[p].body, pass[p].mtime)
    \/ At(p, "saveCode") /\ PersistLinks(pass[p].file, CodeTargets(p), pass[p].mtime)
    \/ At(p, "prune") /\ \E c \in Files : c \in pass[p].todo /\ RemoveDocument(c)

LEMMA WritesOf ==
    ASSUME TypeInv, NEW p \in Procs, Action(p)
    PROVE  Writes(p)
<1>0. pass \in [Procs -> Passes] /\ pass[p] \in Passes
  BY DEF TypeInv, TypeOK
<1>1. ASSUME NEW kind \in Kinds, Begin(p, kind) PROVE Writes(p)
  BY <1>1 DEF Begin, Writes, storeVars
<1>2. CASE ClearStep(p)
  BY <1>0, <1>2 DEF ClearStep, Goto, Writes, Passes
<1>3. CASE SaveRq(p) \/ SaveCode(p)
  BY <1>3 DEF SaveRq, SaveCode, Writes
<1>4. CASE Prune(p)
  BY <1>0, <1>4 DEF Prune, Writes, Passes
<1>5. CASE Finish(p)
  BY <1>5 DEF Finish, SetExtractVersion, Writes, storeVars
<1>6. CASE \/ Scan(p) \/ ReadMtimes(p) \/ LoadCatalog(p) \/ SkipRq(p) \/ StatRq(p)
           \/ ReadRq(p) \/ CompareNames(p) \/ SaveRqFails(p) \/ RqDone(p)
           \/ SkipCode(p) \/ StatCode(p) \/ ReadCode(p) \/ SaveCodeAborts(p)
           \/ CodeDone(p) \/ PruneDone(p) \/ Cancel(p) \/ Interrupt(p)
  BY <1>6 DEF Scan, ReadMtimes, LoadCatalog, SkipRq, StatRq, ReadRq, CompareNames,
      SaveRqFails, RqDone, SkipCode, StatCode, ReadCode, SaveCodeAborts, CodeDone,
      PruneDone, Cancel, Interrupt, Writes, storeVars
<1> QED
  BY <1>1, <1>2, <1>3, <1>4, <1>5, <1>6 DEF Action, PassStep

\* The step that deletes the documents ends a clear, unless a cut does.
LEMMA ClearEnds ==
    ASSUME TypeInv, NEW p \in Procs, Action(p), At(p, "clearDocs")
    PROVE  ClearDocuments \/ Interrupt(p)
  BY DEF Action, PassStep, At, Begin, ClearStep, Scan, ReadMtimes, LoadCatalog, SkipRq,
      StatRq, ReadRq, CompareNames, SaveRq, SaveRqFails, RqDone, SkipCode, StatCode,
      ReadCode, SaveCode, SaveCodeAborts, CodeDone, Prune, PruneDone, Finish, Cancel

-----------------------------------------------------------------------------
(* The mtimes *)

LEMMA NotAheadStep == TypeInv /\ NotAhead /\ [Next]_vars => NotAhead'
<1> SUFFICES ASSUME TypeInv, NotAhead, [Next]_vars PROVE NotAhead'
  OBVIOUS
<1>0. /\ docs \in [Files -> Int]
      /\ \A f \in Files : disk[f].mtime \in Nat /\ disk[f].mtime > 0
      /\ disk \in [Files -> FileStates]
  BY DEF TypeInv, TypeOK, StoreType, FileStates
<1>1. ASSUME NEW f \in Files, Edit(f) PROVE NotAhead'
  <2>1. \A g \in Files : disk'[g].mtime \in Nat /\ disk[g].mtime <= disk'[g].mtime
    BY <1>0, <1>1 DEF Edit
  <2>2. \A p \in Procs : pass[p].pc \in RqStages \cup CodeStages =>
           pass[p].file \in Files /\ pass[p].mtime \in Int
    BY DEF TypeInv, TypeOK, Passes, Stages, StageOK, Files
  <2>3. UNCHANGED <<docs, pass>>
    BY <1>1 DEF Edit, storeVars
  <2>4. \A g \in Files : docs[g] <= disk'[g].mtime
    BY <1>0, <2>1 DEF NotAhead
  <2>5. \A p \in Procs : pass[p].pc \in RqStages \cup CodeStages =>
           pass[p].mtime <= disk'[pass[p].file].mtime
    <3> SUFFICES ASSUME NEW p \in Procs, pass[p].pc \in RqStages \cup CodeStages
                 PROVE  pass[p].mtime <= disk'[pass[p].file].mtime
      OBVIOUS
    <3>1. pass[p].mtime <= disk[pass[p].file].mtime
      BY DEF NotAhead
    <3> QED
      BY <1>0, <2>1, <2>2, <3>1
  <2> QED
    BY <2>3, <2>4, <2>5 DEF NotAhead
<1>2. CASE Upgrade
  BY <1>2 DEF Upgrade, NotAhead, storeVars
<1>3. ASSUME NEW p \in Procs, Action(p) PROVE NotAhead'
  <2>0. /\ UNCHANGED <<disk, build>>
        /\ \A q \in Procs \ {p} : pass'[q] = pass[q]
    BY <1>3, OthersSame
  <2>1. \A f \in Files : docs'[f] <= disk[f].mtime
    <3>1. CASE ClearDocuments \/ \E c \in Files : RemoveDocument(c)
      BY <1>0, <3>1 DEF ClearDocuments, RemoveDocument, NoRow, NotAhead
    <3>2. CASE At(p, "saveRq") /\ PersistIdeas(pass[p].file, pass[p].body, pass[p].mtime)
      BY <1>0, <3>2 DEF PersistIdeas, At, RqStages, NotAhead
    <3>3. CASE At(p, "saveCode") /\ PersistLinks(pass[p].file, CodeTargets(p), pass[p].mtime)
      BY <1>0, <3>3 DEF PersistLinks, At, CodeStages, NotAhead
    <3>4. CASE UNCHANGED <<docs, ideas, links>> \/ ClearEdges \/ ClearIdeas
      BY <3>4 DEF ClearEdges, ClearIdeas, NotAhead
    <3> QED
      BY <1>3, <3>1, <3>2, <3>3, <3>4, WritesOf DEF Writes
  <2>2. pass'[p].pc \in RqStages \cup CodeStages =>
           pass'[p].mtime <= disk[pass'[p].file].mtime
    BY <1>0, <1>3, InHand DEF Fresh, SameFile, Stat, NoMtime, NotAhead
  <2> QED
    BY <2>0, <2>1, <2>2 DEF NotAhead
<1>4. CASE UNCHANGED vars
  BY <1>4 DEF vars, storeVars, syncVars, NotAhead
<1> QED
  BY <1>1, <1>2, <1>3, <1>4, NextIs

\* Without racy writes an edit moves the mtime past every one that was taken.
LEMMA EditMoves ==
    ASSUME TypeInv, NotAhead, ~ RacyWrites, NEW f \in Files, Edit(f)
    PROVE  /\ UNCHANGED <<docs, ideas, links, pass>>
           /\ \A g \in Files \ {f} : disk'[g] = disk[g]
           /\ docs[f] # disk'[f].mtime
           /\ \A p \in Procs : pass[p].pc \in TextInHand /\ pass[p].file = f =>
                 pass[p].mtime # disk'[f].mtime
<1>0. docs[f] \in Int /\ disk[f].mtime \in Nat /\ disk \in [Files -> FileStates]
  BY DEF TypeInv, TypeOK, StoreType, FileStates
<1>1. disk'[f].mtime = disk[f].mtime + 1 /\ \A g \in Files \ {f} : disk'[g] = disk[g]
  BY <1>0 DEF Edit
<1>2. docs[f] <= disk[f].mtime
  BY DEF NotAhead
<1>3. ASSUME NEW p \in Procs, pass[p].pc \in TextInHand, pass[p].file = f
      PROVE  pass[p].mtime \in Int /\ pass[p].mtime <= disk[f].mtime
  BY <1>3 DEF NotAhead, TextInHand, RqStages, CodeStages, TypeInv, TypeOK, Passes
<1> QED
  BY <1>0, <1>1, <1>2, <1>3 DEF Edit, storeVars

LEMMA TextHonestStep ==
    TypeInv /\ NotAhead /\ TextHonest /\ ~ RacyWrites /\ [Next]_vars => TextHonest'
<1> SUFFICES ASSUME TypeInv, NotAhead, TextHonest, ~ RacyWrites, [Next]_vars
             PROVE  TextHonest'
  OBVIOUS
<1>0. \A p \in Procs : pass[p].pc \in TextInHand => pass[p].file \in Files
  BY DEF TypeInv, Stages, StageOK, RqStages, CodeStages, TextInHand, Files
<1>1. ASSUME NEW f \in Files, Edit(f) PROVE TextHonest'
  BY <1>0, <1>1, EditMoves DEF TextHonest
<1>2. CASE Upgrade
  BY <1>2 DEF Upgrade, TextHonest
<1>3. ASSUME NEW p \in Procs, Action(p) PROVE TextHonest'
  <2>1. /\ UNCHANGED disk
        /\ \A q \in Procs \ {p} : pass'[q] = pass[q]
    BY <1>3, OthersSame
  <2>2. pass'[p].pc \in TextInHand =>
           (pass'[p].mtime = disk[pass'[p].file].mtime
               => pass'[p].body = disk[pass'[p].file].body)
    BY <1>3, InHand DEF SameFile, TextHonest, TextInHand, RqStages, CodeStages
  <2> QED
    BY <2>1, <2>2 DEF TextHonest
<1>4. CASE UNCHANGED vars
  BY <1>4 DEF vars, syncVars, TextHonest
<1> QED
  BY <1>1, <1>2, <1>3, <1>4, NextIs

-----------------------------------------------------------------------------
(* A row with the file's own mtime *)

LEMMA MtimeHonestStep ==
    ASSUME HonestInv, ~ RacyWrites, "clearDocs" \notin InterruptAt, [Next]_vars
    PROVE  MtimeHonest'
<1>0. /\ TypeInv /\ NotAhead /\ TextHonest /\ MtimeHonest
      /\ docs \in [Files -> Int]
      /\ \A f \in Files : disk[f].mtime \in Nat /\ disk[f].mtime > 0
      /\ \A f \in RqFiles : f \in Files /\ f \notin CodeFiles
  BY FilesAssumption DEF HonestInv, TypeInv, TypeOK, StoreType, FileStates, Files
<1>1. ASSUME NEW f \in Files, Edit(f) PROVE MtimeHonest'
  <2>1. UNCHANGED <<docs, ideas, pass>> /\ docs[f] # disk'[f].mtime
        /\ \A g \in Files \ {f} : disk'[g] = disk[g]
    BY <1>0, <1>1, EditMoves
  <2> QED
    BY <1>0, <2>1 DEF MtimeHonest, Current, IsText, At, NamesIn
<1>2. CASE Upgrade
  BY <1>0, <1>2 DEF Upgrade, MtimeHonest, Current, IsText, At, NamesIn, storeVars
<1>3. ASSUME NEW p \in Procs, Action(p) PROVE MtimeHonest'
  <2>0. /\ UNCHANGED disk
        /\ \A q \in Procs \ {p} : pass'[q] = pass[q]
    BY <1>0, <1>3, OthersSame
  <2>1. SUFFICES ASSUME \A q \in Procs : ~ At(q, "clearDocs")',
                        NEW f \in RqFiles, Current(f)'
                 PROVE  NamesIn(f, ideas') = disk[f].body
    BY <2>0 DEF MtimeHonest
  <2>2. IsText(f) /\ docs'[f] = disk[f].mtime
    BY <2>0, <2>1 DEF Current, IsText
  <2>3. CASE ClearDocuments
    BY <1>0, <2>2, <2>3 DEF ClearDocuments, NoRow
  <2>4. CASE ~ ClearDocuments
    <3>1. \A q \in Procs : ~ At(q, "clearDocs")
      <4>1. ~ At(p, "clearDocs")
        BY <1>0, <1>3, <2>4, ClearEnds DEF Interrupt, At
      <4> QED
        BY <2>0, <2>1, <4>1 DEF At
    <3>2. docs[f] = disk[f].mtime => NamesIn(f, ideas) = disk[f].body
      BY <1>0, <2>2, <3>1 DEF MtimeHonest, Current
    <3>3. CASE UNCHANGED <<docs, ideas, links>> \/ ClearEdges
      BY <2>2, <3>2, <3>3 DEF ClearEdges
    <3>4. CASE ClearIdeas /\ pass'[p].pc = "clearDocs"
      BY <2>1, <3>4 DEF At
    <3>5. CASE At(p, "saveRq") /\ PersistIdeas(pass[p].file, pass[p].body, pass[p].mtime)
      <4>1. CASE f = pass[p].file
        <5>1. pass[p].body = disk[f].body /\ pass[p].body \subseteq Names
          BY <1>0, <2>2, <3>5, <4>1 DEF PersistIdeas, At, TextHonest, TextInHand,
                                        TypeInv, Stages, StageOK
        <5>2. NamesIn(f, ideas') = pass[p].body
          BY <3>5, <4>1, <5>1 DEF PersistIdeas, NamesIn
        <5> QED
          BY <5>1, <5>2
      <4>2. CASE f # pass[p].file
        <5>1. docs'[f] = docs[f] /\ NamesIn(f, ideas') = NamesIn(f, ideas)
          BY <1>0, <3>5, <4>2 DEF PersistIdeas, NamesIn
        <5> QED
          BY <2>2, <3>2, <5>1
      <4> QED
        BY <4>1, <4>2
    <3>6. CASE At(p, "saveCode") /\ PersistLinks(pass[p].file, CodeTargets(p), pass[p].mtime)
      <4>1. f # pass[p].file
        BY <1>0, <3>6 DEF At, CodeStages, TypeInv, Stages, StageOK
      <4> QED
        BY <1>0, <2>2, <3>2, <3>6, <4>1 DEF PersistLinks
    <3>7. ASSUME NEW c \in Files, RemoveDocument(c)
          PROVE  NamesIn(f, ideas') = disk[f].body
      <4>1. f # c
        BY <1>0, <2>2, <3>7 DEF RemoveDocument, NoRow
      <4>2. docs'[f] = docs[f] /\ NamesIn(f, ideas') = NamesIn(f, ideas)
        BY <1>0, <3>7, <4>1 DEF RemoveDocument, NamesIn
      <4> QED
        BY <2>2, <3>2, <4>2
    <3> QED
      BY <1>0, <1>3, <2>4, <3>3, <3>4, <3>5, <3>6, <3>7, WritesOf DEF Writes
  <2> QED
    BY <2>3, <2>4
<1>4. CASE UNCHANGED vars
  BY <1>0, <1>4 DEF vars, storeVars, syncVars, MtimeHonest, Current, IsText, At, NamesIn
<1> QED
  BY <1>1, <1>2, <1>3, <1>4, NextIs

LEMMA InitHonest == Init => HonestInv
<1> SUFFICES ASSUME Init PROVE HonestInv
  OBVIOUS
<1>1. TypeInv
  BY InitTypes
<1>2. /\ \A f \in Files : docs[f] = -1 /\ disk[f].mtime \in Nat /\ disk[f].mtime > 0
      /\ \A p \in Procs : pass[p].pc = "idle"
  BY <1>1 DEF Init, StoreInit, NoRow, NoPass, TypeInv, TypeOK, FileStates
<1>3. \A f \in RqFiles : f \in Files
  BY DEF Files
<1> QED
  BY <1>1, <1>2, <1>3 DEF HonestInv, NotAhead, TextHonest, MtimeHonest, Current,
                          RqStages, CodeStages, TextInHand

LEMMA HonestStep ==
    ASSUME ~ RacyWrites, "clearDocs" \notin InterruptAt
    PROVE  HonestInv /\ [Next]_vars => HonestInv'
<1> SUFFICES ASSUME HonestInv, [Next]_vars PROVE HonestInv'
  OBVIOUS
<1> QED
  BY TypeStep, NotAheadStep, TextHonestStep, MtimeHonestStep DEF HonestInv

\* Whatever processes sync the database at once, and wherever their passes are
\* cut off, a `.rq` file whose stored mtime is its own has exactly the ideas it
\* declares: provided that every write moves the mtime, and that no clear is cut
\* off between deleting the ideas and deleting the documents.
THEOREM RowsHonest ==
    ASSUME ~ RacyWrites, "clearDocs" \notin InterruptAt
    PROVE  Spec => []MtimeHonest
<1>1. Spec => []HonestInv
  BY InitHonest, HonestStep, PTL DEF Spec
<1>2. HonestInv => MtimeHonest
  BY DEF HonestInv
<1> QED
  BY <1>1, <1>2, PTL
-----------------------------------------------------------------------------
(* No link that no comment makes *)

LinkInv == TypeInv /\ NotAhead /\ TextHonest /\ NoPhantomLink

\* A link row of c is an idea of the catalog that one of the references names.
LEMMA LinkRowIs ==
    ASSUME NEW c, NEW refs, NEW catalog, NEW l
    PROVE  l \in LinkRows(c, Resolve(refs, catalog)) <=>
              \E i \in catalog :
                  /\ \E r \in refs : r[1] \in {AnyFile, i[1]} /\ r[2] = i[2]
                  /\ l = <<i[1], i[2], c>>
  BY DEF LinkRows, Resolve

\* A row stays a row under another catalog that still holds its idea.
LEMMA RowsFollowIdeas ==
    ASSUME NEW c, NEW refs, NEW old \in SUBSET Ideas, NEW new \in SUBSET Ideas,
           NEW l \in LinkRows(c, Resolve(refs, old)), <<l[1], l[2]>> \in new
    PROVE  l \in LinkRows(c, Resolve(refs, new))
<1>1. PICK i \in old : /\ \E r \in refs : r[1] \in {AnyFile, i[1]} /\ r[2] = i[2]
                       /\ l = <<i[1], i[2], c>>
  BY LinkRowIs
<1>2. i = <<i[1], i[2]>>
  BY DEF Ideas
<1>3. i \in new
  BY <1>1, <1>2
<1> QED
  BY <1>1, <1>3, LinkRowIs

\* A row that resolves names a stored idea.
LEMMA LinkRowOfIdea ==
    ASSUME NEW c, NEW refs, NEW catalog \in SUBSET Ideas,
           NEW l \in LinkRows(c, Resolve(refs, catalog))
    PROVE  <<l[1], l[2]>> \in catalog /\ l[3] = c /\ l[1] \in RqFiles /\ l[2] \in Names
<1>1. PICK i \in catalog : l = <<i[1], i[2], c>>
  BY LinkRowIs
<1>2. i = <<i[1], i[2]>> /\ i[1] \in RqFiles /\ i[2] \in Names
  BY DEF Ideas
<1> QED
  BY <1>1, <1>2

LEMMA NoPhantomLinkStep ==
    ASSUME LinkInv, ~ RacyWrites, [Next]_vars
    PROVE  NoPhantomLink'
<1>0. /\ TypeInv /\ NotAhead /\ TextHonest /\ NoPhantomLink
      /\ docs \in [Files -> Int] /\ ideas \in SUBSET Ideas /\ links \in SUBSET Links
      /\ TypeInv' /\ ideas' \in SUBSET Ideas
      /\ \A f \in Files : disk[f].mtime \in Nat /\ disk[f].mtime > 0
      /\ \A c \in CodeFiles : c \in Files /\ c \notin RqFiles
  BY TypeStep, FilesAssumption DEF LinkInv, TypeInv, TypeOK, StoreType, FileStates, Files
<1>1. ASSUME NEW f \in Files, Edit(f) PROVE NoPhantomLink'
  <2>1. UNCHANGED <<docs, ideas, links>> /\ docs[f] # disk'[f].mtime
        /\ \A g \in Files \ {f} : disk'[g] = disk[g]
    BY <1>0, <1>1, EditMoves
  <2> QED
    BY <1>0, <2>1 DEF NoPhantomLink, Current, IsText, LinksOf
<1>2. CASE Upgrade
  BY <1>0, <1>2 DEF Upgrade, NoPhantomLink, Current, IsText, LinksOf, storeVars
<1>3. ASSUME NEW p \in Procs, Action(p) PROVE NoPhantomLink'
  <2>0. UNCHANGED disk
    BY <1>0, <1>3, OthersSame
  <2>1. SUFFICES ASSUME NEW c \in CodeFiles, Current(c)', NEW l \in LinksOf(c)'
                 PROVE  l \in LinkRows(c, Resolve(disk[c].body, ideas'))
    BY <2>0 DEF NoPhantomLink
  <2>2. IsText(c) /\ docs'[c] = disk[c].mtime /\ docs'[c] > 0
    BY <1>0, <2>0, <2>1 DEF Current, IsText
  <2>3. docs[c] = docs'[c] /\ l \in links => l \in LinkRows(c, Resolve(disk[c].body, ideas))
    BY <1>0, <2>1, <2>2 DEF NoPhantomLink, Current, LinksOf
  <2>4. CASE UNCHANGED <<docs, ideas, links>>
    BY <2>1, <2>3, <2>4 DEF LinksOf
  <2>5. CASE ClearEdges \/ ClearIdeas \/ ClearDocuments
    BY <1>0, <2>1, <2>2, <2>5 DEF ClearEdges, ClearIdeas, ClearDocuments, LinksOf, NoRow
  <2>6. CASE At(p, "saveRq") /\ PersistIdeas(pass[p].file, pass[p].body, pass[p].mtime)
    <3> DEFINE f == pass[p].file
    <3>1. f \in RqFiles /\ f # c
      BY <1>0, <2>6 DEF At, RqStages, TypeInv, Stages, StageOK
    <3>2. docs'[c] = docs[c] /\ l \in links
      BY <1>0, <2>1, <2>6, <3>1 DEF PersistIdeas, LinksOf
    <3>3. <<l[1], l[2]>> \in ideas'
      <4>1. <<l[1], l[2]>> \in ideas
        BY <1>0, <2>3, <3>2, LinkRowOfIdea
      <4>2. l[1] = f => l[2] \in pass[p].body
        BY <2>1, <2>6 DEF PersistIdeas, LinksOf
      <4> QED
        BY <2>6, <4>1, <4>2 DEF PersistIdeas
    <3> QED
      BY <1>0, <2>3, <3>2, <3>3, RowsFollowIdeas
  <2>7. CASE At(p, "saveCode") /\ PersistLinks(pass[p].file, CodeTargets(p), pass[p].mtime)
    <3> DEFINE d == pass[p].file
    <3>1. d \in CodeFiles /\ pass[p].catalog \in SUBSET Ideas
      BY <1>0, <2>7 DEF At, CodeStages, TypeInv, TypeOK, Passes, Stages, StageOK
    <3>2. CASE c = d
      <4>1. pass[p].body = disk[c].body
        <5>1. docs'[c] = pass[p].mtime
          BY <1>0, <2>7, <3>2 DEF PersistLinks
        <5> QED
          BY <1>0, <2>2, <2>7, <3>2, <5>1 DEF At, TextHonest, TextInHand
      <4>2. l \in LinkRows(c, Resolve(disk[c].body, pass[p].catalog))
        BY <2>1, <2>7, <3>2, <4>1 DEF PersistLinks, LinksOf, CodeTargets
      <4>3. <<l[1], l[2]>> \in Resolve(disk[c].body, pass[p].catalog)
        <5>1. PICK i \in pass[p].catalog :
                 /\ \E r \in disk[c].body : r[1] \in {AnyFile, i[1]} /\ r[2] = i[2]
                 /\ l = <<i[1], i[2], c>>
          BY <3>1, <4>2, LinkRowIs
        <5>2. i = <<i[1], i[2]>>
          BY <3>1 DEF Ideas
        <5> QED
          BY <5>1, <5>2 DEF Resolve
      <4>4. <<l[1], l[2]>> \in ideas'
        BY <2>7, <3>2, <4>1, <4>3 DEF PersistLinks, ForeignKeysHold, CodeTargets
      <4> QED
        BY <1>0, <3>1, <4>2, <4>4, RowsFollowIdeas
    <3>3. CASE c # d
      <4>1. docs'[c] = docs[c] /\ ideas' = ideas
        BY <1>0, <2>7, <3>1, <3>3 DEF PersistLinks
      <4>2. l \in links
        <5>1. \A k \in LinkRows(d, CodeTargets(p)) : k[3] = d
          BY DEF LinkRows
        <5> QED
          BY <2>1, <2>7, <3>3, <5>1 DEF PersistLinks, LinksOf
      <4> QED
        BY <2>3, <4>1, <4>2
    <3> QED
      BY <3>2, <3>3
  <2>8. ASSUME NEW x \in Files, RemoveDocument(x)
        PROVE  l \in LinkRows(c, Resolve(disk[c].body, ideas'))
    <3>1. c # x
      BY <1>0, <2>2, <2>8 DEF RemoveDocument, NoRow
    <3>2. docs'[c] = docs[c] /\ l \in links /\ l[1] # x
      BY <1>0, <2>1, <2>8, <3>1 DEF RemoveDocument, LinksOf
    <3>3. <<l[1], l[2]>> \in ideas
      BY <1>0, <2>3, <3>2, LinkRowOfIdea
    <3>4. <<l[1], l[2]>> \in ideas'
      BY <2>8, <3>2, <3>3 DEF RemoveDocument
    <3> QED
      BY <1>0, <2>3, <3>2, <3>4, RowsFollowIdeas
  <2> QED
    BY <1>0, <1>3, <2>4, <2>5, <2>6, <2>7, <2>8, WritesOf DEF Writes
<1>4. CASE UNCHANGED vars
  BY <1>0, <1>4 DEF vars, storeVars, syncVars, NoPhantomLink, Current, IsText, LinksOf
<1> QED
  BY <1>1, <1>2, <1>3, <1>4, NextIs

LEMMA InitLinks == Init => LinkInv
<1> SUFFICES ASSUME Init PROVE LinkInv
  OBVIOUS
<1>1. NoPhantomLink
  BY DEF Init, StoreInit, NoPhantomLink, LinksOf
<1> QED
  BY <1>1, InitHonest DEF HonestInv, LinkInv

\* However many processes sync the database, clear it and are cut off, a code
\* file whose stored mtime is its own has no comment link its comments do not
\* make, and none to an idea that is no longer stored: provided that every write
\* moves the mtime.
THEOREM LinksHonest ==
    ASSUME ~ RacyWrites
    PROVE  Spec => []NoPhantomLink
<1>1. LinkInv /\ [Next]_vars => LinkInv'
  <2> SUFFICES ASSUME LinkInv, [Next]_vars PROVE LinkInv'
    OBVIOUS
  <2> QED
    BY TypeStep, NotAheadStep, TextHonestStep, NoPhantomLinkStep DEF LinkInv
<1>2. Spec => []LinkInv
  BY <1>1, InitLinks, PTL DEF Spec
<1>3. LinkInv => NoPhantomLink
  BY DEF LinkInv
<1> QED
  BY <1>2, <1>3, PTL

-----------------------------------------------------------------------------
(* One process: nothing is stored without its document *)

\* A clear that has yet to delete the documents has deleted all the rest.
Cleared == \A p \in Procs : At(p, "clearDocs") => ideas = {} /\ links = {}

\* A pass that has a file in hand has an mtime to store for it, or the NULL.
MtimesTaken ==
    \A p \in Procs : pass[p].pc \in RqStages \cup CodeStages => pass[p].mtime # NoRow

RootInv == TypeInv /\ Cleared /\ MtimesTaken /\ RowsRooted

LEMMA MtimesTakenStep == TypeInv /\ MtimesTaken /\ [Next]_vars => MtimesTaken'
<1> SUFFICES ASSUME TypeInv, MtimesTaken, [Next]_vars PROVE MtimesTaken'
  OBVIOUS
<1>0. \A f \in Files : Stat(f) # NoRow
  BY DEF TypeInv, TypeOK, FileStates, Stat, NoMtime, NoRow
<1>1. ASSUME UNCHANGED pass PROVE MtimesTaken'
  BY <1>1 DEF MtimesTaken
<1>2. ASSUME NEW p \in Procs, Action(p) PROVE MtimesTaken'
  <2>1. /\ UNCHANGED disk
        /\ \A q \in Procs \ {p} : pass'[q] = pass[q]
    BY <1>2, OthersSame
  <2>2. pass'[p].pc \in RqStages \cup CodeStages => pass'[p].mtime # NoRow
    BY <1>0, <1>2, InHand DEF Fresh, SameFile, MtimesTaken
  <2> QED
    BY <2>1, <2>2 DEF MtimesTaken
<1> QED
  BY <1>1, <1>2, NextIs DEF Edit, Upgrade, vars, syncVars

\* Only the second statement of a clear leads to its third.
LEMMA ToClearDocs ==
    ASSUME TypeInv, NEW p \in Procs, Action(p), pass'[p].pc = "clearDocs"
    PROVE  ClearIdeas
<1>0. pass \in [Procs -> Passes] /\ pass[p] \in Passes
  BY DEF TypeInv, TypeOK
<1>1. ASSUME NEW kind \in Kinds, Begin(p, kind) PROVE FALSE
  BY <1>0, <1>1 DEF Begin, Passes
<1>2. CASE ClearStep(p)
  BY <1>0, <1>2 DEF ClearStep, Goto, Passes
<1>3. CASE Scan(p)
  <2>1. PICK listed : pass' = [pass EXCEPT ![p].todo = listed, ![p].pc = "mtimes"]
    BY <1>3 DEF Scan
  <2> QED
    BY <1>0, <2>1 DEF Passes
<1>4. CASE ReadMtimes(p) \/ LoadCatalog(p) \/ CompareNames(p) \/ CodeDone(p)
           \/ RqDone(p) \/ PruneDone(p)
  BY <1>0, <1>4 DEF ReadMtimes, LoadCatalog, CompareNames, CodeDone, RqDone, PruneDone,
                    Goto, Passes
<1>5. CASE SkipRq(p) \/ Prune(p) \/ SkipCode(p)
  <2>1. CASE SkipRq(p) \/ Prune(p)
    <3>1. PICK f : Drop(p, f, "rq") \/ Drop(p, f, "prune")
      BY <2>1 DEF SkipRq, Prune
    <3> QED
      BY <1>0, <3>1 DEF Drop, Passes
  <2>2. CASE SkipCode(p)
    <3>1. PICK c : pass' = [pass EXCEPT ![p].todo = @ \ {c}, ![p].keep = @ \cup {c}]
      BY <2>2 DEF SkipCode
    <3>2. pass'[p].pc = "code"
      BY <1>0, <2>2, <3>1 DEF SkipCode, At, Passes
    <3> QED
      BY <3>2
  <2> QED
    BY <1>5, <2>1, <2>2
<1>6. CASE StatRq(p) \/ StatCode(p)
  <2>1. PICK f \in Files, pc \in {"readRq", "readCode"} :
           pass' = [pass EXCEPT ![p].todo = @ \ {f}, ![p].file = f,
                                ![p].mtime = Stat(f), ![p].pc = pc]
    BY <1>6 DEF StatRq, StatCode, Files
  <2>2. pass'[p].pc = pc
    BY <1>0, <2>1 DEF Passes
  <2> QED
    BY <2>2
<1>7. CASE ReadRq(p) \/ ReadCode(p) \/ SaveRqFails(p) \/ SaveRq(p) \/ SaveCode(p)
  <2>0. AfterFile(pass[p], "rq").pc = "rq" /\ AfterFile(pass[p], "code").pc = "code"
    BY <1>0 DEF AfterFile, Passes
  <2>1. CASE ReadRq(p) \/ ReadCode(p) \/ SaveRqFails(p)
    BY <1>0, <2>0, <2>1 DEF ReadRq, ReadCode, SaveRqFails, NextFile, Passes
  <2>2. CASE SaveRq(p)
    <3>1. PICK catalog, relink :
             pass'[p] = [AfterFile(pass[p], "rq") EXCEPT !.catalog = catalog,
                                                         !.relink = relink]
      BY <1>0, <2>2 DEF SaveRq
    <3> QED
      BY <1>0, <2>0, <3>1, AfterFileTypes DEF Passes
  <2>3. CASE SaveCode(p)
    <3>1. PICK keep : pass'[p] = [AfterFile(pass[p], "code") EXCEPT !.keep = keep]
      BY <1>0, <2>3 DEF SaveCode
    <3> QED
      BY <1>0, <2>0, <3>1, AfterFileTypes DEF Passes
  <2> QED
    BY <1>7, <2>1, <2>2, <2>3
<1>8. CASE SaveCodeAborts(p) \/ Finish(p) \/ Cancel(p) \/ Interrupt(p)
  BY <1>0, <1>8 DEF SaveCodeAborts, Finish, Cancel, Interrupt, End, Goto, NoPass, Passes
<1> QED
  BY <1>1, <1>2, <1>3, <1>4, <1>5, <1>6, <1>7, <1>8 DEF Action, PassStep

LEMMA ClearedStep ==
    ASSUME TypeInv, Cleared, \A p, q \in Procs : p = q, [Next]_vars
    PROVE  Cleared'
<1>1. ASSUME UNCHANGED <<ideas, links, pass>> PROVE Cleared'
  BY <1>1 DEF Cleared, At
<1>2. ASSUME NEW p \in Procs, Action(p) PROVE Cleared'
  BY <1>2, ToClearDocs DEF Cleared, At, ClearIdeas
<1> QED
  BY <1>1, <1>2, NextIs DEF Edit, Upgrade, vars, storeVars, syncVars

LEMMA RowsRootedStep ==
    ASSUME RootInv, \A p, q \in Procs : p = q, [Next]_vars
    PROVE  RowsRooted'
<1>0. /\ TypeInv /\ Cleared /\ MtimesTaken /\ RowsRooted
      /\ docs \in [Files -> Int] /\ ideas \in SUBSET Ideas /\ links \in SUBSET Links
      /\ \A f \in RqFiles : f \in Files /\ f \notin CodeFiles
      /\ \A f \in CodeFiles : f \in Files
  BY FilesAssumption DEF RootInv, TypeInv, TypeOK, StoreType, Files
<1>00. /\ \A i \in ideas : i[1] \in RqFiles /\ docs[i[1]] # NoRow
       /\ \A l \in links : /\ l[1] \in RqFiles /\ l[3] \in CodeFiles
                           /\ docs[l[3]] # NoRow /\ <<l[1], l[2]>> \in ideas
  BY <1>0 DEF RowsRooted, Ideas, Links
<1>1. ASSUME UNCHANGED <<docs, ideas, links>> PROVE RowsRooted'
  BY <1>0, <1>1 DEF RowsRooted
<1>2. ASSUME NEW p \in Procs, Action(p) PROVE RowsRooted'
  <2>1. CASE ClearEdges \/ ClearIdeas
    BY <1>0, <2>1 DEF ClearEdges, ClearIdeas, RowsRooted
  <2>2. CASE At(p, "clearDocs") /\ ClearDocuments
    BY <1>0, <2>2 DEF ClearDocuments, Cleared, RowsRooted
  <2>3. CASE At(p, "saveRq") /\ PersistIdeas(pass[p].file, pass[p].body, pass[p].mtime)
    <3> DEFINE f == pass[p].file
    <3>1. f \in RqFiles /\ pass[p].mtime # NoRow
      BY <1>0, <2>3 DEF At, RqStages, TypeInv, Stages, StageOK, MtimesTaken
    <3>2. \A g \in Files : docs[g] # NoRow => docs'[g] # NoRow
      BY <1>0, <2>3, <3>1 DEF PersistIdeas
    <3>3. docs'[f] # NoRow
      BY <1>0, <2>3, <3>1 DEF PersistIdeas
    <3>4. ASSUME NEW i \in ideas' PROVE docs'[i[1]] # NoRow
      BY <1>0, <1>00, <2>3, <3>2, <3>3, <3>4 DEF PersistIdeas
    <3>5. ASSUME NEW l \in links' PROVE docs'[l[3]] # NoRow /\ <<l[1], l[2]>> \in ideas'
      <4>1. l \in links /\ (l[1] = f => l[2] \in pass[p].body)
        BY <2>3, <3>5 DEF PersistIdeas
      <4>2. <<l[1], l[2]>> \in ideas'
        BY <1>00, <2>3, <4>1 DEF PersistIdeas
      <4> QED
        BY <1>0, <1>00, <3>2, <4>1, <4>2
    <3> QED
      BY <3>4, <3>5 DEF RowsRooted
  <2>4. CASE At(p, "saveCode") /\ PersistLinks(pass[p].file, CodeTargets(p), pass[p].mtime)
    <3> DEFINE d == pass[p].file
    <3>1. /\ d \in CodeFiles /\ pass[p].mtime # NoRow
          /\ pass[p].catalog \in SUBSET Ideas
      BY <1>0, <2>4 DEF At, CodeStages, TypeInv, TypeOK, Passes, Stages, StageOK,
                        MtimesTaken
    <3>2. \A g \in Files : docs[g] # NoRow => docs'[g] # NoRow
      BY <1>0, <2>4, <3>1 DEF PersistLinks
    <3>3. docs'[d] # NoRow /\ ideas' = ideas
      BY <1>0, <2>4, <3>1 DEF PersistLinks
    <3>4. ASSUME NEW l \in links' PROVE docs'[l[3]] # NoRow /\ <<l[1], l[2]>> \in ideas'
      <4>1. CASE l \in links
        BY <1>0, <1>00, <3>2, <3>3, <4>1
      <4>2. CASE l \in LinkRows(d, CodeTargets(p))
        <5>1. PICK i \in CodeTargets(p) : l = <<i[1], i[2], d>>
          BY <4>2 DEF LinkRows
        <5>2. i \in ideas /\ i \in Ideas
          BY <1>0, <2>4, <5>1 DEF PersistLinks, ForeignKeysHold
        <5>3. i = <<i[1], i[2]>>
          BY <5>2 DEF Ideas
        <5> QED
          BY <3>3, <5>1, <5>2, <5>3
      <4> QED
        BY <2>4, <3>4, <4>1, <4>2 DEF PersistLinks
    <3> QED
      BY <1>0, <1>00, <3>2, <3>3, <3>4 DEF RowsRooted
  <2>5. ASSUME NEW x \in Files, RemoveDocument(x) PROVE RowsRooted'
    <3>1. \A g \in Files \ {x} : docs'[g] = docs[g]
      BY <1>0, <2>5 DEF RemoveDocument
    <3>2. ASSUME NEW i \in ideas' PROVE docs'[i[1]] # NoRow
      BY <1>0, <1>00, <2>5, <3>1, <3>2 DEF RemoveDocument
    <3>3. ASSUME NEW l \in links' PROVE docs'[l[3]] # NoRow /\ <<l[1], l[2]>> \in ideas'
      <4>1. l \in links /\ l[1] # x /\ l[3] # x
        BY <2>5, <3>3 DEF RemoveDocument
      <4>2. <<l[1], l[2]>> \in ideas'
        BY <1>00, <2>5, <4>1 DEF RemoveDocument
      <4> QED
        BY <1>0, <1>00, <3>1, <4>1, <4>2
    <3> QED
      BY <3>2, <3>3 DEF RowsRooted
  <2> QED
    BY <1>0, <1>1, <1>2, <2>1, <2>2, <2>3, <2>4, <2>5, WritesOf DEF Writes
<1> QED
  BY <1>1, <1>2, NextIs DEF Edit, Upgrade, vars, storeVars

\* A process that syncs the database alone leaves no idea and no link without
\* the documents row it came from, wherever its passes are cut off or cancelled,
\* whatever fails, and whether or not writes move the mtime.
THEOREM StoreRooted ==
    ASSUME \A p, q \in Procs : p = q
    PROVE  Spec => []RowsRooted
<1>1. Init => RootInv
  BY InitTypes DEF Init, StoreInit, NoPass, RootInv, Cleared, At, MtimesTaken, RowsRooted,
                   RqStages, CodeStages
<1>2. RootInv /\ [Next]_vars => RootInv'
  <2> SUFFICES ASSUME RootInv, [Next]_vars PROVE RootInv'
    OBVIOUS
  <2> QED
    BY TypeStep, ClearedStep, MtimesTakenStep, RowsRootedStep DEF RootInv
<1>3. Spec => []RootInv
  BY <1>1, <1>2, PTL DEF Spec
<1>4. RootInv => RowsRooted
  BY DEF RootInv
<1> QED
  BY <1>3, <1>4, PTL

-----------------------------------------------------------------------------
(* One process: the catalog in memory *)

\* The steps at which a pass holds the catalog.
InCatalog == {"rq", "readRq", "compare", "saveRq", "code", "readCode", "saveCode"}

\* A step that ends where the catalog is held keeps it and the stored ideas as
\* they were, or loads it, or puts the names of one file in both.
LEMMA CatalogMoves ==
    ASSUME TypeInv, NEW p \in Procs, Action(p), pass'[p].pc \in InCatalog
    PROVE  \/ pass'[p].catalog = ideas /\ ideas' = ideas
           \/ /\ pass[p].pc \in InCatalog
              /\ pass'[p].catalog = pass[p].catalog /\ ideas' = ideas
           \/ /\ At(p, "saveRq")
              /\ pass'[p].catalog = {i \in pass[p].catalog : i[1] # pass[p].file}
                                       \cup ({pass[p].file} \X pass[p].body)
              /\ ideas' = {i \in ideas : i[1] # pass[p].file}
                             \cup ({pass[p].file} \X pass[p].body)
<1> DEFINE Goal ==
       \/ pass'[p].catalog = ideas /\ ideas' = ideas
       \/ /\ pass[p].pc \in InCatalog
          /\ pass'[p].catalog = pass[p].catalog /\ ideas' = ideas
       \/ /\ At(p, "saveRq")
          /\ pass'[p].catalog = {i \in pass[p].catalog : i[1] # pass[p].file}
                                   \cup ({pass[p].file} \X pass[p].body)
          /\ ideas' = {i \in ideas : i[1] # pass[p].file}
                         \cup ({pass[p].file} \X pass[p].body)
<1> SUFFICES Goal
  OBVIOUS
<1>0. pass \in [Procs -> Passes] /\ pass[p] \in Passes
  BY DEF TypeInv, TypeOK
<1> USE DEF InCatalog, At
<1>1. ASSUME NEW kind \in Kinds, Begin(p, kind) PROVE FALSE
  BY <1>0, <1>1 DEF Begin, Passes
<1>2. CASE ClearStep(p) \/ PruneDone(p) \/ Finish(p) \/ SaveCodeAborts(p) \/ Interrupt(p)
  BY <1>0, <1>2 DEF ClearStep, PruneDone, Finish, SaveCodeAborts, Interrupt, End, Goto,
                    NoPass, Passes
<1>3. CASE Scan(p)
  <2>1. PICK listed : pass' = [pass EXCEPT ![p].todo = listed, ![p].pc = "mtimes"]
    BY <1>3 DEF Scan
  <2> QED
    BY <1>0, <2>1 DEF Passes
<1>4. CASE ReadMtimes(p) \/ LoadCatalog(p) \/ CodeDone(p)
  BY <1>0, <1>4 DEF ReadMtimes, LoadCatalog, CodeDone, Passes, storeVars
<1>5. CASE CompareNames(p) \/ RqDone(p) \/ Cancel(p)
  BY <1>0, <1>5 DEF CompareNames, RqDone, Cancel, Goto, End, NoPass, Passes, storeVars
<1>6. CASE SkipRq(p) \/ Prune(p)
  <2>1. PICK f : (Drop(p, f, "rq") /\ At(p, "rq") /\ UNCHANGED ideas) \/ Drop(p, f, "prune")
    BY <1>6 DEF SkipRq, Prune, storeVars
  <2> QED
    BY <1>0, <2>1 DEF Drop, Passes
<1>7. CASE SkipCode(p)
  <2>1. PICK c : pass' = [pass EXCEPT ![p].todo = @ \ {c}, ![p].keep = @ \cup {c}]
    BY <1>7 DEF SkipCode
  <2>2. pass'[p].catalog = pass[p].catalog
    BY <1>0, <2>1 DEF Passes
  <2> QED
    BY <1>7, <2>2 DEF SkipCode, storeVars
<1>8. CASE StatRq(p) \/ StatCode(p)
  <2>1. PICK f \in Files, pc \in {"readRq", "readCode"} :
           pass' = [pass EXCEPT ![p].todo = @ \ {f}, ![p].file = f,
                                ![p].mtime = Stat(f), ![p].pc = pc]
    BY <1>8 DEF StatRq, StatCode, Files
  <2>2. pass'[p].catalog = pass[p].catalog
    BY <1>0, <2>1 DEF Passes
  <2> QED
    BY <1>8, <2>2 DEF StatRq, StatCode, storeVars
<1>9. CASE ReadRq(p) \/ ReadCode(p) \/ SaveRqFails(p) \/ SaveRq(p) \/ SaveCode(p)
  <2>0. /\ AfterFile(pass[p], "rq") \in Passes /\ AfterFile(pass[p], "code") \in Passes
        /\ AfterFile(pass[p], "rq").catalog = pass[p].catalog
        /\ AfterFile(pass[p], "code").catalog = pass[p].catalog
    BY <1>0, AfterFileTypes
  <2>1. CASE ReadRq(p) \/ ReadCode(p) \/ SaveRqFails(p)
    <3>1. pass'[p].catalog = pass[p].catalog
      BY <1>0, <2>0, <2>1 DEF ReadRq, ReadCode, SaveRqFails, NextFile, Passes
    <3> QED
      BY <2>1, <3>1 DEF ReadRq, ReadCode, SaveRqFails, storeVars
  <2>2. CASE SaveRq(p)
    <3>1. PICK catalog, relink :
             /\ catalog = {i \in pass[p].catalog : i[1] # pass[p].file}
                                   \cup ({pass[p].file} \X pass[p].body)
             /\ pass'[p] = [AfterFile(pass[p], "rq") EXCEPT !.catalog = catalog,
                                                            !.relink = relink]
      BY <1>0, <2>2 DEF SaveRq
    <3>2. pass'[p].catalog = catalog
      BY <2>0, <3>1 DEF Passes
    <3> QED
      BY <2>2, <3>1, <3>2 DEF SaveRq, PersistIdeas
  <2>3. CASE SaveCode(p)
    <3>1. PICK keep : pass'[p] = [AfterFile(pass[p], "code") EXCEPT !.keep = keep]
      BY <1>0, <2>3 DEF SaveCode
    <3>2. pass'[p].catalog = pass[p].catalog
      BY <2>0, <3>1 DEF Passes
    <3> QED
      BY <2>3, <3>2 DEF SaveCode, PersistLinks
  <2> QED
    BY <1>9, <2>1, <2>2, <2>3
<1> QED
  BY <1>1, <1>2, <1>3, <1>4, <1>5, <1>6, <1>7, <1>8, <1>9 DEF Action, PassStep

LEMMA CatalogStep ==
    ASSUME TypeInv, CatalogMirrorsStore, \A p, q \in Procs : p = q, [Next]_vars
    PROVE  CatalogMirrorsStore'
<1>1. ASSUME UNCHANGED <<ideas, pass>> PROVE CatalogMirrorsStore'
  BY <1>1 DEF CatalogMirrorsStore
<1>2. ASSUME NEW p \in Procs, Action(p) PROVE CatalogMirrorsStore'
  <2>1. SUFFICES ASSUME pass'[p].pc \in InCatalog PROVE pass'[p].catalog = ideas'
    BY DEF CatalogMirrorsStore, InCatalog
  <2>2. pass[p].pc \in InCatalog => pass[p].catalog = ideas
    BY DEF CatalogMirrorsStore, InCatalog
  <2> QED
    BY <1>2, <2>1, <2>2, CatalogMoves DEF At, InCatalog
<1> QED
  BY <1>1, <1>2, NextIs DEF Edit, Upgrade, vars, storeVars, syncVars

\* A process that syncs the database alone has, from the moment it loads the
\* catalog to its last code file, exactly the stored ideas in memory: also after
\* a document that could not be persisted.  So no link it writes fails its
\* foreign key.
THEOREM CatalogExact ==
    ASSUME \A p, q \in Procs : p = q
    PROVE  Spec => []CatalogMirrorsStore
<1>1. Init => TypeInv /\ CatalogMirrorsStore
  BY InitTypes DEF Init, NoPass, CatalogMirrorsStore
<1>2. TypeInv /\ CatalogMirrorsStore /\ [Next]_vars => TypeInv' /\ CatalogMirrorsStore'
  BY TypeStep, CatalogStep
<1> QED
  BY <1>1, <1>2, PTL DEF Spec

-----------------------------------------------------------------------------
(* One process: every link the comments make *)

Exact(c) == LinksOf(c) = LinkRows(c, Resolve(disk[c].body, ideas))

Settled == {"idle", "clearEdges", "scan", "mtimes", "catalog", "prune", "stamp"}
RqPhase == {"rq"} \cup RqStages
Linking == RqPhase \cup CodeStages \cup {"code"}

\* The code files that the pass r is still going to link again, or is linking.
ToRelink(r, c) == r.relink /\ (c \in r.todo \/ (r.pc \in CodeStages /\ r.file = c))

\* What a pass knows of the code files whose rows are current.  Away from the
\* files all of them are linked exactly.  From the scan on they are all in its
\* list: one that is not there now was not there when it looked, and an edit has
\* moved its mtime since.  Among the files, the only ones not linked exactly are
\* those it is going to link again, which it is only when some name changed.
LinkedSoFar(r) ==
    /\ r.kind # "paths"
    /\ r.pc \in Settled => \A c \in CodeFiles : Current(c) => Exact(c)
    /\ r.pc \in {"mtimes", "catalog"} \cup RqPhase =>
          \A c \in CodeFiles : Current(c) => c \in r.todo
    /\ r.pc \in Linking =>
          \A c \in CodeFiles : Current(c) => Exact(c) \/ ToRelink(r, c)
    /\ r.pc = "saveRq" => r.changed \/ NamesIn(r.file, ideas) = r.body
    /\ r.pc = "prune" => r.todo \subseteq CodeFiles

LinkedInv == /\ TypeInv /\ NotAhead /\ TextHonest /\ CatalogMirrorsStore
             /\ \A p \in Procs : LinkedSoFar(pass[p])

\* A cut among the files, or between two statements of a clear, may lose links.
HarmlessCuts == {"clearEdges", "scan", "mtimes", "catalog", "prune", "stamp"}

\* A step that touches neither the tables nor the disk changes no judgement.
LEMMA SameCurrent ==
    ASSUME UNCHANGED <<docs, disk, ideas, links>>
    PROVE  /\ \A c : Current(c)' <=> Current(c)
           /\ \A c : Exact(c)' <=> Exact(c)
           /\ \A f : NamesIn(f, ideas') = NamesIn(f, ideas)
  BY DEF Current, IsText, Exact, LinksOf

\* A step that writes nothing, by the place it leads to.
LEMMA LinkedQuiet ==
    ASSUME LinkedInv, NEW p \in Procs, UNCHANGED <<docs, disk, ideas, links>>,
           pass'[p].kind # "paths",
           \/ pass'[p].pc \in {"idle", "clearEdges", "stamp"} /\ pass[p].pc \in Settled
           \/ pass'[p].pc = "scan" /\ pass[p].pc \in Settled
           \/ /\ pass'[p].pc = "mtimes" /\ pass[p].pc \in Settled
              /\ \A c \in CodeFiles : Present(c) => c \in pass'[p].todo
           \/ /\ pass'[p].pc = "catalog" /\ pass[p].pc = "mtimes"
              /\ pass'[p].todo = pass[p].todo
           \/ /\ pass'[p].pc = "rq" /\ pass[p].pc = "catalog"
              /\ pass'[p].todo = pass[p].todo
           \/ /\ pass'[p].pc \in RqPhase /\ pass[p].pc \in RqPhase
              /\ \A c \in CodeFiles : c \in pass[p].todo => c \in pass'[p].todo
              /\ pass'[p].relink = pass[p].relink
              /\ pass'[p].pc = "saveRq" =>
                    pass'[p].changed \/ NamesIn(pass'[p].file, ideas) = pass'[p].body
           \/ /\ pass'[p].pc = "code" /\ pass[p].pc = "rq"
              /\ pass'[p].todo = pass[p].todo
              /\ pass'[p].relink = pass[p].relink
           \/ /\ pass'[p].pc \in {"code"} \cup CodeStages
              /\ pass[p].pc \in {"code"} \cup CodeStages
              /\ \A c \in CodeFiles : Current(c) /\ ToRelink(pass[p], c) =>
                    ToRelink(pass'[p], c)
           \/ /\ pass'[p].pc = "prune" /\ pass[p].pc = "code"
              /\ pass[p].todo = {} /\ pass'[p].todo \subseteq CodeFiles
    PROVE  LinkedSoFar(pass'[p])
<1> DEFINE r == pass[p]
<1> DEFINE s == pass'[p]
<1>1. LinkedSoFar(r)
  BY DEF LinkedInv
<1>2. \A c : Current(c) => Present(c)
  BY DEF Current, IsText, Present
<1> USE DEF Settled, RqPhase, Linking, RqStages, CodeStages, ToRelink
<1>3. CASE s.pc \in Settled \ {"prune"} /\ r.pc \in Settled
  <2>1. \A c \in CodeFiles : Current(c) => Exact(c)
    BY <1>1, <1>3 DEF LinkedSoFar
  <2>2. s.pc \in {"mtimes", "catalog"} => \A c \in CodeFiles : Current(c) => c \in s.todo
    BY <1>1, <1>2, <1>3 DEF LinkedSoFar
  <2> QED
    BY <1>3, <2>1, <2>2 DEF LinkedSoFar
<1>4. CASE s.pc \in RqPhase /\ r.pc \in RqPhase \cup {"catalog"}
  <2>1. \A c \in CodeFiles : Current(c) => c \in s.todo
    BY <1>1, <1>4 DEF LinkedSoFar
  <2>2. \A c \in CodeFiles : Current(c) => Exact(c) \/ ToRelink(s, c)
    BY <1>1, <1>4, <2>1 DEF LinkedSoFar
  <2> QED
    BY <1>4, <2>1, <2>2 DEF LinkedSoFar
<1>5. CASE s.pc = "code" /\ r.pc = "rq"
  BY <1>1, <1>5 DEF LinkedSoFar
<1>6. CASE s.pc \in {"code"} \cup CodeStages /\ r.pc \in {"code"} \cup CodeStages
  BY <1>1, <1>6 DEF LinkedSoFar
<1>7. CASE s.pc = "prune" /\ r.pc = "code"
  BY <1>1, <1>7 DEF LinkedSoFar
<1> QED
  BY <1>3, <1>4, <1>5, <1>6, <1>7

\* A link to a stored idea cannot fail.
LEMMA TargetsStored ==
    ASSUME CatalogMirrorsStore, NEW p \in Procs, At(p, "saveCode")
    PROVE  ForeignKeysHold(CodeTargets(p))
  BY DEF CatalogMirrorsStore, At, ForeignKeysHold, CodeTargets, Resolve

\* Every step that persists, clears and prunes nothing is one of those: under the
\* hypotheses none of them ends a pass among its files.
LEMMA LinkedByQuiet ==
    ASSUME LinkedInv, ~ MayCancel, "paths" \notin Kinds, InterruptAt \subseteq HarmlessCuts,
           NEW p \in Procs, Action(p),
           ~ (ClearStep(p) \/ SaveRq(p) \/ SaveCode(p) \/ Prune(p))
    PROVE  /\ UNCHANGED <<docs, disk, ideas, links>>
           /\ LinkedSoFar(pass'[p])
<1> DEFINE r == pass[p]
<1> DEFINE s == pass'[p]
<1> DEFINE Goal == UNCHANGED <<docs, disk, ideas, links>> /\ LinkedSoFar(pass'[p])
<1> SUFFICES Goal
  OBVIOUS
<1>0. /\ pass \in [Procs -> Passes] /\ r \in Passes
      /\ TypeInv /\ CatalogMirrorsStore /\ LinkedSoFar(r) /\ r.kind # "paths"
      /\ \A c \in CodeFiles : c \notin RqFiles /\ c \in Files
  BY FilesAssumption DEF LinkedInv, LinkedSoFar, TypeInv, TypeOK, Files
<1> HIDE DEF Goal
<1> USE DEF At, Settled, RqPhase, RqStages, CodeStages
<1>1. ASSUME NEW kind \in Kinds, Begin(p, kind) PROVE Goal
  <2>1. UNCHANGED <<docs, disk, ideas, links>> /\ r.pc = "idle"
    BY <1>1 DEF Begin, storeVars
  <2>2. s.kind = kind /\ s.pc \in {"clearEdges", "scan"}
    BY <1>0, <1>1 DEF Begin, Passes
  <2> QED
    BY <2>1, <2>2, LinkedQuiet DEF Goal
<1>2. CASE Scan(p)
  <2>1. UNCHANGED <<docs, disk, ideas, links>> /\ r.pc = "scan"
    BY <1>2 DEF Scan, storeVars
  <2>2. PICK listed : /\ listed = {f \in Files : Present(f)}
                      /\ pass' = [pass EXCEPT ![p].todo = listed, ![p].pc = "mtimes"]
    BY <1>0, <1>2 DEF Scan
  <2>3. s.kind = r.kind /\ s.pc = "mtimes" /\ s.todo = listed
    BY <1>0, <2>2 DEF Passes
  <2> QED
    BY <1>0, <2>1, <2>2, <2>3, LinkedQuiet DEF Goal
<1>3. CASE ReadMtimes(p) \/ LoadCatalog(p)
  <2>1. UNCHANGED <<docs, disk, ideas, links>>
    BY <1>3 DEF ReadMtimes, LoadCatalog, storeVars
  <2>2. /\ s.kind = r.kind /\ s.todo = r.todo
        /\ \/ r.pc = "mtimes" /\ s.pc = "catalog"
           \/ r.pc = "catalog" /\ s.pc = "rq"
    BY <1>0, <1>3 DEF ReadMtimes, LoadCatalog, Passes
  <2> QED
    BY <1>0, <2>1, <2>2, LinkedQuiet DEF Goal
<1>4. CASE SkipRq(p)
  <2>1. UNCHANGED <<docs, disk, ideas, links>> /\ r.pc = "rq"
    BY <1>4 DEF SkipRq, storeVars
  <2>2. PICK f \in RqFiles : Drop(p, f, "rq")
    BY <1>4 DEF SkipRq
  <2>3. /\ s.kind = r.kind /\ s.pc = "rq" /\ s.todo = r.todo \ {f}
        /\ s.relink = r.relink
    BY <1>0, <2>2 DEF Drop, Passes
  <2> QED
    BY <1>0, <2>1, <2>3, LinkedQuiet DEF Goal
<1>5. CASE StatRq(p)
  <2>1. UNCHANGED <<docs, disk, ideas, links>> /\ r.pc = "rq"
    BY <1>5 DEF StatRq, storeVars
  <2>2. PICK f \in RqFiles :
           pass' = [pass EXCEPT ![p].todo = @ \ {f}, ![p].file = f,
                                ![p].mtime = Stat(f), ![p].pc = "readRq"]
    BY <1>5 DEF StatRq
  <2>3. /\ s.kind = r.kind /\ s.pc = "readRq" /\ s.todo = r.todo \ {f}
        /\ s.relink = r.relink
    BY <1>0, <2>2 DEF Passes
  <2> QED
    BY <1>0, <2>1, <2>3, LinkedQuiet DEF Goal
<1>6. CASE ReadRq(p) \/ SaveRqFails(p)
  <2>1. UNCHANGED <<docs, disk, ideas, links>> /\ r.pc \in RqStages
    BY <1>6 DEF ReadRq, SaveRqFails, storeVars
  <2>2. /\ AfterFile(r, "rq").kind = r.kind /\ AfterFile(r, "rq").pc = "rq"
        /\ AfterFile(r, "rq").todo = r.todo /\ AfterFile(r, "rq").relink = r.relink
    BY <1>0 DEF AfterFile, Passes
  <2>3. /\ s.kind = r.kind /\ s.pc \in {"rq", "compare"} /\ s.todo = r.todo
        /\ s.relink = r.relink
    <3>1. CASE IsText(r.file) /\ ReadRq(p)
      BY <1>0, <3>1 DEF ReadRq, Passes
    <3>2. CASE s = AfterFile(r, "rq")
      BY <2>2, <3>2
    <3> QED
      BY <1>0, <1>6, <3>1, <3>2 DEF ReadRq, SaveRqFails, NextFile
  <2> QED
    BY <1>0, <2>1, <2>3, LinkedQuiet DEF Goal
<1>7. CASE CompareNames(p)
  <2>1. UNCHANGED <<docs, disk, ideas, links>> /\ r.pc = "compare"
    BY <1>7 DEF CompareNames, storeVars
  <2>2. /\ s.kind = r.kind /\ s.pc = "saveRq" /\ s.todo = r.todo
        /\ s.relink = r.relink /\ s.file = r.file /\ s.body = r.body
        /\ s.changed = (NamesIn(r.file, ideas) # r.body)
    BY <1>0, <1>7 DEF CompareNames, Passes
  <2>3. s.changed \/ NamesIn(s.file, ideas) = s.body
    BY <2>2
  <2> QED
    BY <1>0, <2>1, <2>2, <2>3, LinkedQuiet DEF Goal
<1>8. CASE RqDone(p)
  <2>1. UNCHANGED <<docs, disk, ideas, links>> /\ r.pc = "rq"
    BY <1>8 DEF RqDone, storeVars
  <2>2. /\ s.kind = r.kind /\ s.pc = "code" /\ s.todo = r.todo
        /\ s.relink = r.relink
    BY <1>0, <1>8 DEF RqDone, Goto, Passes
  <2> QED
    BY <1>0, <2>1, <2>2, LinkedQuiet DEF Goal
<1>9. CASE SkipCode(p)
  <2>1. UNCHANGED <<docs, disk, ideas, links>> /\ r.pc = "code" /\ ~ r.relink
    BY <1>9 DEF SkipCode, storeVars
  <2>2. PICK c : pass' = [pass EXCEPT ![p].todo = @ \ {c}, ![p].keep = @ \cup {c}]
    BY <1>9 DEF SkipCode
  <2>3. s.kind = r.kind /\ s.pc = "code"
    BY <1>0, <2>1, <2>2 DEF Passes
  <2>4. \A d \in CodeFiles : ~ ToRelink(r, d)
    BY <2>1 DEF ToRelink
  <2> QED
    BY <1>0, <2>1, <2>3, <2>4, LinkedQuiet DEF Goal
<1>10. CASE StatCode(p)
  <2>1. UNCHANGED <<docs, disk, ideas, links>> /\ r.pc = "code"
    BY <1>10 DEF StatCode, storeVars
  <2>2. PICK c \in CodeFiles :
           pass' = [pass EXCEPT ![p].todo = @ \ {c}, ![p].file = c,
                                ![p].mtime = Stat(c), ![p].pc = "readCode"]
    BY <1>10 DEF StatCode
  <2>3. /\ s.kind = r.kind /\ s.pc = "readCode" /\ s.file = c /\ s.relink = r.relink
        /\ s.todo = r.todo \ {c}
    BY <1>0, <2>2 DEF Passes
  <2>4. \A d \in CodeFiles : ToRelink(r, d) => ToRelink(s, d)
    BY <2>1, <2>3 DEF ToRelink
  <2> QED
    BY <1>0, <2>1, <2>3, <2>4, LinkedQuiet DEF Goal
<1>11. CASE ReadCode(p)
  <2>1. UNCHANGED <<docs, disk, ideas, links>> /\ r.pc = "readCode"
    BY <1>11 DEF ReadCode, storeVars
  <2>2. /\ AfterFile(r, "code").kind = r.kind /\ AfterFile(r, "code").pc = "code"
        /\ AfterFile(r, "code").todo = r.todo /\ AfterFile(r, "code").relink = r.relink
    BY <1>0 DEF AfterFile, Passes
  <2>3. CASE IsText(r.file)
    <3>1. /\ s.kind = r.kind /\ s.pc = "saveCode" /\ s.todo = r.todo
          /\ s.relink = r.relink /\ s.file = r.file
      BY <1>0, <1>11, <2>3 DEF ReadCode, Passes
    <3>2. \A d \in CodeFiles : ToRelink(r, d) => ToRelink(s, d)
      BY <2>1, <3>1 DEF ToRelink
    <3> QED
      BY <1>0, <2>1, <3>1, <3>2, LinkedQuiet DEF Goal
  <2>4. CASE ~ IsText(r.file)
    <3>1. s = AfterFile(r, "code")
      BY <1>0, <1>11, <2>4 DEF ReadCode, NextFile
    <3>2. \A d \in CodeFiles : Current(d) /\ ToRelink(r, d) => ToRelink(s, d)
      BY <2>1, <2>2, <2>4, <3>1 DEF ToRelink, Current
    <3> QED
      BY <1>0, <2>1, <2>2, <3>1, <3>2, LinkedQuiet DEF Goal
  <2> QED
    BY <2>3, <2>4
<1>12. CASE CodeDone(p)
  <2>1. UNCHANGED <<docs, disk, ideas, links>> /\ r.pc = "code" /\ r.todo = {}
    BY <1>12 DEF CodeDone, storeVars
  <2>2. /\ s.kind = r.kind /\ s.pc = "prune" /\ s.todo = CodeDocuments \ r.keep
    BY <1>0, <1>12 DEF CodeDone, Passes
  <2>3. s.todo \subseteq CodeFiles
    BY <2>2 DEF CodeDocuments
  <2> QED
    BY <1>0, <2>1, <2>2, <2>3, LinkedQuiet DEF Goal
<1>13. CASE PruneDone(p)
  <2>1. UNCHANGED <<docs, disk, ideas, links>> /\ r.pc = "prune"
    BY <1>13 DEF PruneDone, storeVars
  <2>2. s.kind = r.kind /\ s.pc = "stamp"
    BY <1>0, <1>13 DEF PruneDone, Goto, Passes
  <2> QED
    BY <1>0, <2>1, <2>2, LinkedQuiet DEF Goal
<1>14. CASE Finish(p) \/ Interrupt(p)
  <2>1. UNCHANGED <<docs, disk, ideas, links>> /\ r.pc \in Settled
    BY <1>14 DEF Finish, Interrupt, SetExtractVersion, HarmlessCuts, storeVars
  <2>2. s = NoPass
    BY <1>0, <1>14 DEF Finish, Interrupt, End
  <2>3. s.kind # "paths" /\ s.pc = "idle"
    BY <2>2 DEF NoPass
  <2> QED
    BY <2>1, <2>3, LinkedQuiet DEF Goal
<1>15. ~ SaveCodeAborts(p) /\ ~ Cancel(p)
  BY <1>0, TargetsStored DEF SaveCodeAborts, Cancel
<1> QED
  BY <1>1, <1>2, <1>3, <1>4, <1>5, <1>6, <1>7, <1>8, <1>9, <1>10, <1>11, <1>12, <1>13,
     <1>14, <1>15 DEF Action, PassStep

\* A clear ends with no row that could be current.
LEMMA LinkedByClear ==
    ASSUME LinkedInv, NEW p \in Procs, ClearStep(p)
    PROVE  LinkedSoFar(pass[p])'
<1>0. /\ pass \in [Procs -> Passes] /\ pass[p] \in Passes /\ UNCHANGED disk
      /\ LinkedSoFar(pass[p])
      /\ \A c \in CodeFiles : c \in Files /\ disk[c].mtime > 0
  BY DEF LinkedInv, TypeInv, TypeOK, FileStates, Files, ClearStep
<1>1. pass'[p].kind # "paths" /\ pass'[p].pc \in {"clearIdeas", "clearDocs", "scan"}
  BY <1>0 DEF ClearStep, Goto, LinkedSoFar, Passes
<1>2. pass'[p].pc = "scan" => \A c \in CodeFiles : ~ Current(c)'
  <2>1. pass'[p].pc = "scan" => ClearDocuments
    BY <1>0 DEF ClearStep, Goto, Passes
  <2> QED
    BY <1>0, <2>1 DEF ClearDocuments, Current, NoRow
<1> QED
  BY <1>1, <1>2 DEF LinkedSoFar, Settled, RqPhase, Linking, RqStages, CodeStages

\* Persisting the names a file already has changes no idea and no link that is
\* exact; persisting others makes the pass link every code file again.
LEMMA LinkedBySaveRq ==
    ASSUME LinkedInv, NEW p \in Procs, SaveRq(p)
    PROVE  LinkedSoFar(pass[p])'
<1> DEFINE r == pass[p]
<1> DEFINE s == pass'[p]
<1> DEFINE f == r.file
<1>0. /\ pass \in [Procs -> Passes] /\ r \in Passes /\ UNCHANGED disk
      /\ LinkedSoFar(r) /\ r.pc = "saveRq"
      /\ docs \in [Files -> Int] /\ ideas \in SUBSET Ideas
      /\ f \in RqFiles /\ r.body \subseteq Names
      /\ \A c \in CodeFiles : c \in Files /\ c # f
  BY FilesAssumption DEF LinkedInv, TypeInv, TypeOK, StoreType, Stages, StageOK, RqStages,
                         Files, SaveRq, At
<1>1. /\ s.kind = r.kind /\ s.pc = "rq" /\ s.todo = r.todo
      /\ s.relink = (r.relink \/ r.changed)
  <2>1. /\ AfterFile(r, "rq") \in Passes
        /\ AfterFile(r, "rq").kind = r.kind /\ AfterFile(r, "rq").pc = "rq"
        /\ AfterFile(r, "rq").todo = r.todo
    BY <1>0, AfterFileTypes DEF AfterFile, Passes
  <2>2. PICK catalog :
           s = [AfterFile(r, "rq") EXCEPT !.catalog = catalog,
                                          !.relink = r.relink \/ r.changed]
    BY <1>0 DEF SaveRq
  <2> QED
    BY <2>1, <2>2 DEF Passes
<1>2. PersistIdeas(f, r.body, r.mtime)
  BY DEF SaveRq
<1>3. \A c \in CodeFiles : Current(c)' => Current(c)
  BY <1>0, <1>2 DEF PersistIdeas, Current, IsText
<1>4. \A c \in CodeFiles : Current(c)' => c \in s.todo
  BY <1>0, <1>1, <1>3 DEF LinkedSoFar, RqPhase, RqStages
<1>5. ASSUME NEW c \in CodeFiles, Current(c)'
      PROVE  Exact(c)' \/ ToRelink(s, c)
  <2>1. CASE r.relink \/ r.changed
    BY <1>1, <1>4, <1>5, <2>1 DEF ToRelink
  <2>2. CASE ~ r.relink /\ ~ r.changed
    <3>1. Exact(c)
      BY <1>0, <1>3, <1>5, <2>2 DEF LinkedSoFar, Linking, RqPhase, RqStages, ToRelink
    <3>2. NamesIn(f, ideas) = r.body
      BY <1>0, <2>2 DEF LinkedSoFar
    <3>3. ideas' = ideas
      <4>1. \A i \in Ideas : i \in ideas' <=> i \in ideas
        <5> SUFFICES ASSUME NEW i \in Ideas PROVE i \in ideas' <=> i \in ideas
          OBVIOUS
        <5>1. i = <<i[1], i[2]>> /\ i[1] \in RqFiles /\ i[2] \in Names
          BY DEF Ideas
        <5>2. i[1] = f => (i \in ideas <=> i[2] \in r.body)
          BY <3>2, <5>1 DEF NamesIn
        <5>3. i \in {f} \X r.body <=> i[1] = f /\ i[2] \in r.body
          BY <5>1
        <5> QED
          BY <1>2, <5>2, <5>3 DEF PersistIdeas
      <4>2. ideas' \in SUBSET Ideas
        BY <1>0, <1>2 DEF PersistIdeas, Ideas
      <4> QED
        BY <1>0, <4>1, <4>2
    <3>4. LinksOf(c)' = LinksOf(c)
      <4>1. ASSUME NEW l \in links, l[3] = c, l[1] = f PROVE l[2] \in r.body
        <5>1. l \in LinkRows(c, Resolve(disk[c].body, ideas))
          BY <3>1, <4>1 DEF Exact, LinksOf
        <5>2. <<l[1], l[2]>> \in ideas /\ l[2] \in Names
          BY <1>0, <5>1, LinkRowOfIdea
        <5> QED
          BY <3>2, <4>1, <5>2 DEF NamesIn
      <4> QED
        BY <1>2, <4>1 DEF PersistIdeas, LinksOf
    <3> QED
      BY <1>0, <3>1, <3>3, <3>4 DEF Exact
  <2> QED
    BY <2>1, <2>2
<1> QED
  BY <1>0, <1>1, <1>4, <1>5 DEF LinkedSoFar, Settled, RqPhase, Linking, RqStages, CodeStages

\* The file that is linked gets exactly its links, because the text in hand is its
\* text if the row is current, and the catalog in hand is the ideas table.
LEMMA LinkedBySaveCode ==
    ASSUME LinkedInv, NEW p \in Procs, SaveCode(p)
    PROVE  LinkedSoFar(pass[p])'
<1> DEFINE r == pass[p]
<1> DEFINE s == pass'[p]
<1> DEFINE d == r.file
<1>0. /\ pass \in [Procs -> Passes] /\ r \in Passes /\ UNCHANGED disk
      /\ LinkedSoFar(r) /\ TextHonest /\ r.pc = "saveCode"
      /\ docs \in [Files -> Int] /\ d \in CodeFiles
      /\ \A c \in CodeFiles : c \in Files
      /\ r.catalog = ideas
  BY DEF LinkedInv, TypeInv, TypeOK, StoreType, Stages, StageOK, CodeStages, Files,
         SaveCode, At, CatalogMirrorsStore
<1>1. s.kind = r.kind /\ s.pc = "code" /\ s.todo = r.todo /\ s.relink = r.relink
  <2>1. /\ AfterFile(r, "code") \in Passes
        /\ AfterFile(r, "code").kind = r.kind /\ AfterFile(r, "code").pc = "code"
        /\ AfterFile(r, "code").todo = r.todo /\ AfterFile(r, "code").relink = r.relink
    BY <1>0, AfterFileTypes DEF AfterFile, Passes
  <2>2. PICK keep : s = [AfterFile(r, "code") EXCEPT !.keep = keep]
    BY <1>0 DEF SaveCode
  <2> QED
    BY <2>1, <2>2 DEF Passes
<1>2. PersistLinks(d, CodeTargets(p), r.mtime)
  BY DEF SaveCode
<1>3. \A l \in LinkRows(d, CodeTargets(p)) : l[3] = d
  BY DEF LinkRows
<1>4. ASSUME NEW c \in CodeFiles, Current(c)' PROVE Exact(c)' \/ ToRelink(s, c)
  <2>1. CASE c = d
    <3>1. docs'[c] = r.mtime /\ docs'[c] = disk[c].mtime
      BY <1>0, <1>2, <1>4, <2>1 DEF PersistLinks, Current
    <3>2. r.body = disk[c].body
      BY <1>0, <2>1, <3>1 DEF TextHonest, TextInHand
    <3>3. LinksOf(c)' = LinkRows(c, CodeTargets(p))
      BY <1>2, <1>3, <2>1 DEF PersistLinks, LinksOf
    <3> QED
      BY <1>0, <1>2, <3>2, <3>3 DEF Exact, CodeTargets, PersistLinks
  <2>2. CASE c # d
    <3>1. Current(c)
      BY <1>0, <1>2, <1>4, <2>2 DEF PersistLinks, Current, IsText
    <3>2. LinksOf(c)' = LinksOf(c)
      BY <1>2, <1>3, <2>2 DEF PersistLinks, LinksOf
    <3>3. Exact(c)' <=> Exact(c)
      BY <1>0, <1>2, <3>2 DEF Exact, PersistLinks
    <3>4. Exact(c) \/ ToRelink(r, c)
      BY <1>0, <3>1 DEF LinkedSoFar, Linking, CodeStages
    <3> QED
      BY <1>0, <1>1, <2>2, <3>3, <3>4 DEF ToRelink
  <2> QED
    BY <2>1, <2>2
<1> QED
  BY <1>0, <1>1, <1>4 DEF LinkedSoFar, Settled, RqPhase, Linking, RqStages, CodeStages

\* A pruned code file has no row left, and takes no link of another with it.
LEMMA LinkedByPrune ==
    ASSUME LinkedInv, NEW p \in Procs, Prune(p)
    PROVE  LinkedSoFar(pass[p])'
<1> DEFINE r == pass[p]
<1> DEFINE s == pass'[p]
<1>0. /\ pass \in [Procs -> Passes] /\ r \in Passes /\ UNCHANGED disk
      /\ LinkedSoFar(r) /\ r.pc = "prune" /\ r.todo \subseteq CodeFiles
      /\ docs \in [Files -> Int] /\ ideas \in SUBSET Ideas /\ links \in SUBSET Links
      /\ \A c \in CodeFiles : c \in Files /\ c \notin RqFiles /\ disk[c].mtime > 0
  BY FilesAssumption DEF LinkedInv, LinkedSoFar, TypeInv, TypeOK, FileStates, StoreType,
                         Files, Prune, At
<1>1. PICK x \in r.todo : RemoveDocument(x) /\ Drop(p, x, "prune")
  BY DEF Prune
<1>2. s.kind = r.kind /\ s.pc = "prune" /\ s.todo = r.todo \ {x}
  BY <1>0, <1>1 DEF Drop, Passes
<1>3. x \in CodeFiles /\ x \notin RqFiles
  BY <1>0, <1>1
<1>4. ideas' = ideas
  BY <1>0, <1>1, <1>3 DEF RemoveDocument, Ideas
<1>5. ASSUME NEW c \in CodeFiles, Current(c)' PROVE Exact(c)'
  <2>1. c # x
    BY <1>0, <1>1, <1>5 DEF RemoveDocument, Current, NoRow
  <2>2. Current(c)
    BY <1>0, <1>1, <1>5, <2>1 DEF RemoveDocument, Current, IsText
  <2>3. LinksOf(c)' = LinksOf(c)
    BY <1>0, <1>1, <1>3, <2>1 DEF RemoveDocument, LinksOf, Links
  <2>4. Exact(c)
    BY <1>0, <2>2 DEF LinkedSoFar, Settled
  <2> QED
    BY <1>0, <1>4, <2>3, <2>4 DEF Exact
<1> QED
  BY <1>0, <1>2, <1>5 DEF LinkedSoFar, Settled, RqPhase, Linking, RqStages, CodeStages

\* An edit takes its file out of those whose rows are current.
LEMMA LinkedByEdit ==
    ASSUME LinkedInv, ~ RacyWrites, NEW f \in Files, Edit(f), NEW p \in Procs
    PROVE  LinkedSoFar(pass[p])'
<1>0. /\ UNCHANGED <<docs, ideas, links, pass>>
      /\ \A g \in Files \ {f} : disk'[g] = disk[g]
      /\ docs[f] # disk'[f].mtime
      /\ LinkedSoFar(pass[p])
      /\ \A c \in CodeFiles : c \in Files
  BY EditMoves DEF LinkedInv, Files
<1>1. \A c \in CodeFiles : Current(c)' => c # f /\ Current(c)
  BY <1>0 DEF Current, IsText
<1>2. \A c \in CodeFiles : c # f /\ Exact(c) => Exact(c)'
  BY <1>0 DEF Exact, LinksOf
<1>3. pass'[p] = pass[p] /\ ideas' = ideas
  BY <1>0
<1> QED
  BY <1>0, <1>1, <1>2, <1>3 DEF LinkedSoFar, NamesIn

LEMMA LinkedStep ==
    ASSUME LinkedInv, [Next]_vars, ~ RacyWrites, ~ MayCancel, "paths" \notin Kinds,
           InterruptAt \subseteq HarmlessCuts, \A p, q \in Procs : p = q
    PROVE  LinkedInv'
<1>0. TypeInv' /\ NotAhead' /\ TextHonest' /\ CatalogMirrorsStore'
  BY TypeStep, NotAheadStep, TextHonestStep, CatalogStep DEF LinkedInv
<1>1. SUFFICES ASSUME NEW p \in Procs PROVE LinkedSoFar(pass[p])'
  BY <1>0 DEF LinkedInv
<1>2. ASSUME UNCHANGED <<docs, disk, ideas, links>>, LinkedSoFar(pass'[p])
      PROVE  LinkedSoFar(pass[p])'
  BY <1>2, SameCurrent DEF LinkedSoFar
<1>3. ASSUME NEW f \in Files, Edit(f) PROVE LinkedSoFar(pass[p])'
  BY <1>3, LinkedByEdit
<1>4. CASE Upgrade \/ UNCHANGED vars
  <2>1. UNCHANGED <<docs, disk, ideas, links, pass>>
    BY <1>4 DEF Upgrade, vars, storeVars, syncVars
  <2>2. LinkedSoFar(pass[p])
    BY DEF LinkedInv
  <2> QED
    BY <1>2, <2>1, <2>2
<1>5. CASE Action(p)
  <2>1. CASE ClearStep(p) \/ SaveRq(p) \/ SaveCode(p) \/ Prune(p)
    BY <2>1, LinkedByClear, LinkedBySaveRq, LinkedBySaveCode, LinkedByPrune
  <2>2. CASE ~ (ClearStep(p) \/ SaveRq(p) \/ SaveCode(p) \/ Prune(p))
    BY <1>2, <1>5, <2>2, LinkedByQuiet
  <2> QED
    BY <2>1, <2>2
<1> QED
  BY <1>3, <1>4, <1>5, NextIs

\* A process that syncs the database alone leaves, between its passes, exactly
\* the links that the comments of each current code file make to the stored
\* ideas: so no later pass has to look at a file whose mtime stayed the same.
\* The hypotheses are the ones under which the code can promise it: every write
\* moves the mtime; no pass is cancelled, or cut off once it has begun on the
\* files or between two statements of a clear; and `index_paths`, which links
\* only the files it is given, is not run.  The run NativeSync_lostlink shows a
\* link lost to a cut.
THEOREM AllLinksMade ==
    ASSUME NEW only, Procs = {only}, ~ RacyWrites, ~ MayCancel, "paths" \notin Kinds,
           InterruptAt \subseteq HarmlessCuts
    PROVE  Spec => []LinksExact
<1>1. Init => LinkedInv
  <2> SUFFICES ASSUME Init PROVE LinkedInv
    OBVIOUS
  <2>1. TypeInv /\ NotAhead /\ TextHonest /\ CatalogMirrorsStore
    BY InitHonest DEF HonestInv, Init, NoPass, CatalogMirrorsStore
  <2>2. \A c \in CodeFiles : ~ Current(c)
    <3>1. \A c \in CodeFiles : c \in Files /\ docs[c] = -1 /\ disk[c].mtime > 0
      BY <2>1 DEF Init, StoreInit, NoRow, Files, TypeInv, TypeOK, FileStates
    <3> QED
      BY <3>1 DEF Current
  <2>3. \A p \in Procs : pass[p].pc = "idle" /\ pass[p].kind = "soft"
    BY DEF Init, NoPass
  <2> QED
    BY <2>1, <2>2, <2>3 DEF LinkedInv, LinkedSoFar, Settled, RqPhase, Linking, RqStages,
                            CodeStages
<1>2. LinkedInv /\ [Next]_vars => LinkedInv'
  BY LinkedStep
<1>3. Spec => []LinkedInv
  BY <1>1, <1>2, PTL DEF Spec
<1>4. LinkedInv => LinksExact
  BY DEF LinkedInv, LinkedSoFar, LinksExact, Idle, At, Settled, Exact
<1> QED
  BY <1>3, <1>4, PTL
-----------------------------------------------------------------------------
(* One process: a pass that nothing disturbs *)

UpToDate(f) == docs[f] = disk[f].mtime

\* An mtime that is the file's own, stored or under a text in hand, is that of a
\* readable file: what replaced a text has another.
RowsOfTexts ==
    /\ \A f \in Files : UpToDate(f) => IsText(f)
    /\ \A p \in Procs : pass[p].pc \in TextInHand
                        /\ pass[p].mtime = disk[pass[p].file].mtime => IsText(pass[p].file)

\* Code files are kept from the code steps on.
Keeping == {"code", "prune", "stamp"} \cup CodeStages

KeptLate == \A p \in Procs : pass[p].pc \notin Keeping => pass[p].keep = {}

InHandOf(r, f) == r.pc \in RqStages \cup CodeStages /\ r.file = f

\* The pass r has met f and will not prune its row.
Dealt(r, f) == UpToDate(f) /\ (f \in CodeFiles => f \in r.keep)

\* The documents are those of the readable files as they are.
Caught == /\ \A f \in Files : IsText(f) => UpToDate(f)
          /\ \A c \in CodeFiles : ~ IsText(c) => docs[c] = NoRow

\* How far a pass has come since its scan, if no file has changed: each readable
\* file is still to come, in hand or dealt with, and what was read of the files
\* and of their rows is still so.
Progress(r) ==
    /\ r.pc \in {"mtimes", "catalog"} \cup Linking =>
          \A f \in Files : IsText(f) => f \in r.todo \/ Dealt(r, f) \/ InHandOf(r, f)
    /\ r.pc \in {"catalog"} \cup Linking =>
          \A f \in Files : r.stored[f] = disk[f].mtime => UpToDate(f)
    /\ r.pc \in RqStages \cup CodeStages => r.mtime = Stat(r.file)
    /\ r.pc \in TextInHand => IsText(r.file)
    /\ r.pc \in {"code", "prune"} \cup CodeStages =>
          r.todo \subseteq CodeFiles /\ \A c \in r.keep : UpToDate(c)
    /\ r.pc = "prune" =>
          /\ \A f \in Files : IsText(f) => Dealt(r, f)
          /\ \A c \in CodeFiles : docs[c] # NoRow => c \in r.keep \cup r.todo
          /\ r.todo \cap r.keep = {}
    /\ r.pc \in {"idle", "stamp"} => Caught

\* What holds at every moment, edits and cuts included.
QuietBase == LinkedInv /\ MtimeHonest /\ RootInv /\ RowsOfTexts /\ KeptLate

\* The place of each step of a pass.
LEMMA StepAt ==
    ASSUME NEW p
    PROVE  /\ ClearStep(p) => At(p, "clearEdges") \/ At(p, "clearIdeas") \/ At(p, "clearDocs")
           /\ Scan(p) => At(p, "scan")
           /\ ReadMtimes(p) => At(p, "mtimes")
           /\ LoadCatalog(p) => At(p, "catalog")
           /\ SkipRq(p) \/ StatRq(p) \/ RqDone(p) => At(p, "rq")
           /\ CompareNames(p) => At(p, "compare")
           /\ SaveRq(p) \/ SaveRqFails(p) => At(p, "saveRq")
           /\ SkipCode(p) \/ StatCode(p) \/ CodeDone(p) => At(p, "code")
           /\ SaveCode(p) \/ SaveCodeAborts(p) => At(p, "saveCode")
           /\ Prune(p) \/ PruneDone(p) => At(p, "prune")
           /\ Finish(p) => At(p, "stamp")
<1>1. /\ ClearStep(p) => At(p, "clearEdges") \/ At(p, "clearIdeas") \/ At(p, "clearDocs")
      /\ Scan(p) => At(p, "scan")
      /\ ReadMtimes(p) => At(p, "mtimes")
      /\ LoadCatalog(p) => At(p, "catalog")
  BY DEF ClearStep, Scan, ReadMtimes, LoadCatalog
<1>2. SkipRq(p) => At(p, "rq")
  BY DEF SkipRq
<1>3. StatRq(p) => At(p, "rq")
  BY DEF StatRq
<1>4. /\ RqDone(p) => At(p, "rq")
      /\ CompareNames(p) => At(p, "compare")
      /\ SaveRq(p) \/ SaveRqFails(p) => At(p, "saveRq")
  BY DEF RqDone, CompareNames, SaveRq, SaveRqFails
<1>5. SkipCode(p) => At(p, "code")
  BY DEF SkipCode
<1>6. StatCode(p) => At(p, "code")
  BY DEF StatCode
<1>7. /\ CodeDone(p) => At(p, "code")
      /\ SaveCode(p) \/ SaveCodeAborts(p) => At(p, "saveCode")
      /\ Prune(p) \/ PruneDone(p) => At(p, "prune")
      /\ Finish(p) => At(p, "stamp")
  BY DEF CodeDone, SaveCode, SaveCodeAborts, Prune, PruneDone, Finish
<1> QED
  BY <1>1, <1>2, <1>3, <1>4, <1>5, <1>6, <1>7

\* A text comes in hand only from a readable file.
LEMMA TextFromFile ==
    ASSUME TypeInv, NEW p \in Procs, Action(p), pass'[p].pc \in TextInHand
    PROVE  SameFile(p) /\ (pass[p].pc \in TextInHand \/ IsText(pass[p].file))
<1>0. pass \in [Procs -> Passes] /\ pass[p] \in Passes
  BY DEF TypeInv, TypeOK
<1>1. SameFile(p)
  BY InHand DEF TextInHand, RqStages, CodeStages
<1>2. CASE pass[p].pc \in TextInHand
  BY <1>1, <1>2
<1>3. CASE pass[p].pc \in {"readRq", "readCode"}
  <2>1. ReadRq(p) \/ ReadCode(p)
    <3>1. ~ Interrupt(p)
      BY <1>0 DEF Interrupt, End, NoPass, TextInHand
    <3>2. ASSUME NEW kind \in Kinds, Begin(p, kind) PROVE FALSE
      BY <1>3, <3>2 DEF Begin, At
    <3>3. ~ Cancel(p)
      BY <1>3 DEF Cancel, At
    <3>4. \A k \in PCs : At(p, k) => k \in {"readRq", "readCode"}
      BY <1>3 DEF At
    <3> QED
      BY <3>1, <3>2, <3>3, <3>4, StepAt DEF Action, PassStep, PCs
  <2>2. AfterFile(pass[p], "rq").pc = "rq" /\ AfterFile(pass[p], "code").pc = "code"
    BY <1>0 DEF AfterFile, Passes
  <2> QED
    BY <1>0, <1>1, <2>1, <2>2 DEF ReadRq, ReadCode, NextFile, TextInHand
<1> QED
  BY <1>1, <1>2, <1>3 DEF SameFile, RqStages, CodeStages, TextInHand

LEMMA RowsOfTextsStep ==
    ASSUME TypeInv, NotAhead, RowsOfTexts, ~ RacyWrites, [Next]_vars
    PROVE  RowsOfTexts'
<1>0. /\ docs \in [Files -> Int]
      /\ \A f \in Files : disk[f].mtime \in Nat /\ disk[f].mtime > 0
      /\ \A p \in Procs : pass[p].pc \in TextInHand => pass[p].file \in Files
  BY DEF TypeInv, TypeOK, StoreType, FileStates, Stages, StageOK, RqStages, CodeStages,
         TextInHand, Files
<1>1. ASSUME NEW f \in Files, Edit(f) PROVE RowsOfTexts'
  BY <1>0, <1>1, EditMoves DEF RowsOfTexts, UpToDate, IsText
<1>2. CASE Upgrade \/ UNCHANGED vars
  BY <1>2 DEF Upgrade, RowsOfTexts, UpToDate, IsText, vars, storeVars, syncVars
<1>3. ASSUME NEW p \in Procs, Action(p) PROVE RowsOfTexts'
  <2>0. /\ UNCHANGED disk
        /\ \A q \in Procs \ {p} : pass'[q] = pass[q]
    BY <1>3, OthersSame
  <2>1. \A f \in Files : docs'[f] = disk[f].mtime => IsText(f)
    <3>1. CASE ClearDocuments \/ \E c \in Files : RemoveDocument(c)
      BY <1>0, <3>1 DEF ClearDocuments, RemoveDocument, NoRow, RowsOfTexts, UpToDate
    <3>2. CASE \/ At(p, "saveRq") /\ PersistIdeas(pass[p].file, pass[p].body, pass[p].mtime)
               \/ /\ At(p, "saveCode")
                  /\ PersistLinks(pass[p].file, CodeTargets(p), pass[p].mtime)
      BY <1>0, <3>2 DEF PersistIdeas, PersistLinks, At, TextInHand, RowsOfTexts, UpToDate
    <3>3. CASE UNCHANGED <<docs, ideas, links>> \/ ClearEdges \/ ClearIdeas
      BY <3>3 DEF ClearEdges, ClearIdeas, RowsOfTexts, UpToDate
    <3> QED
      BY <1>3, <3>1, <3>2, <3>3, WritesOf DEF Writes
  <2>2. pass'[p].pc \in TextInHand /\ pass'[p].mtime = disk[pass'[p].file].mtime =>
           IsText(pass'[p].file)
    BY <1>3, TextFromFile DEF SameFile, RowsOfTexts
  <2> QED
    BY <2>0, <2>1, <2>2 DEF RowsOfTexts, UpToDate, IsText
<1> QED
  BY <1>1, <1>2, <1>3, NextIs

LEMMA SaveRqPass ==
    ASSUME pass \in [Procs -> Passes], NEW p \in Procs, SaveRq(p)
    PROVE  \E catalog, relink :
              pass'[p] = [AfterFile(pass[p], "rq") EXCEPT !.catalog = catalog,
                                                          !.relink = relink]
<1> DEFINE catalog == {i \in pass[p].catalog : i[1] # pass[p].file}
                         \cup ({pass[p].file} \X pass[p].body)
<1>1. pass'[p] = [AfterFile(pass[p], "rq") EXCEPT
                    !.catalog = catalog, !.relink = pass[p].relink \/ pass[p].changed]
  BY DEF SaveRq
<1> HIDE DEF catalog
<1> QED
  BY <1>1

\* The steps that keep a code file are code steps.
LEMMA KeptLateStep ==
    ASSUME TypeInv, KeptLate, [Next]_vars
    PROVE  KeptLate'
<1>1. CASE UNCHANGED pass
  BY <1>1 DEF KeptLate
<1>2. ASSUME NEW p \in Procs, Action(p) PROVE KeptLate'
  <2> DEFINE r == pass[p]
  <2> DEFINE s == pass'[p]
  <2> DEFINE Goal == s.pc \in Keeping \/ s.keep = {} \/ (r.pc \notin Keeping /\ s.keep = r.keep)
  <2>0. /\ pass \in [Procs -> Passes] /\ r \in Passes
        /\ \A q \in Procs \ {p} : pass'[q] = pass[q]
    BY <1>2, OthersSame DEF TypeInv, TypeOK
  <2>1. SUFFICES Goal
    BY <2>0, <2>1 DEF KeptLate
  <2> HIDE DEF Goal
  <2> USE DEF Keeping, CodeStages
  <2>2. ASSUME NEW kind \in Kinds, Begin(p, kind) PROVE Goal
    BY <2>0, <2>2 DEF Begin, Passes, Goal
  <2>3. CASE ClearStep(p)
    BY <2>0, <2>3 DEF ClearStep, At, Goto, Passes, Goal
  <2>4. CASE Scan(p)
    <3>1. PICK listed : pass' = [pass EXCEPT ![p].todo = listed, ![p].pc = "mtimes"]
      BY <2>4 DEF Scan
    <3> QED
      BY <2>0, <2>4, <3>1 DEF Scan, At, Passes, Goal
  <2>5. CASE ReadMtimes(p) \/ LoadCatalog(p) \/ CompareNames(p)
    BY <2>0, <2>5 DEF ReadMtimes, LoadCatalog, CompareNames, At, Passes, Goal
  <2>6. CASE SkipRq(p)
    <3>1. PICK f : Drop(p, f, "rq")
      BY <2>6 DEF SkipRq
    <3> QED
      BY <2>0, <2>6, <3>1 DEF SkipRq, Drop, At, Passes, Goal
  <2>7. CASE StatRq(p)
    <3>1. PICK f, m : pass' = [pass EXCEPT ![p].todo = @ \ {f}, ![p].file = f,
                                           ![p].mtime = m, ![p].pc = "readRq"]
      BY <2>7 DEF StatRq
    <3> QED
      BY <2>0, <2>7, <3>1 DEF StatRq, At, Passes, Goal
  <2>8. AfterFile(r, "rq").keep = r.keep
    BY <2>0, AfterFileTypes
  <2>9. CASE ReadRq(p) \/ SaveRqFails(p)
    <3>1. r.pc \notin Keeping
      BY <2>9 DEF ReadRq, SaveRqFails, At
    <3>2. CASE s = AfterFile(r, "rq")
      BY <2>8, <3>1, <3>2 DEF Goal
    <3>3. CASE ReadRq(p) /\ IsText(r.file)
      BY <2>0, <3>1, <3>3 DEF ReadRq, Passes, Goal
    <3> QED
      BY <2>0, <2>9, <3>2, <3>3 DEF ReadRq, SaveRqFails, NextFile
  <2>10. CASE SaveRq(p)
    <3>1. PICK catalog, relink :
             s = [AfterFile(r, "rq") EXCEPT !.catalog = catalog, !.relink = relink]
      BY <2>0, <2>10, SaveRqPass, Zenon
    <3>2. AfterFile(r, "rq") \in Passes /\ r.pc = "saveRq"
      BY <2>0, <2>10, AfterFileTypes DEF SaveRq, At
    <3> QED
      BY <2>8, <3>1, <3>2 DEF Passes, Goal
  <2>11. CASE RqDone(p) \/ PruneDone(p) \/ CodeDone(p)
    BY <2>0, <2>11 DEF RqDone, PruneDone, CodeDone, Goto, Passes, Goal
  <2>12. CASE SkipCode(p)
    <3>1. PICK c : pass' = [pass EXCEPT ![p].todo = @ \ {c}, ![p].keep = @ \cup {c}]
      BY <2>12 DEF SkipCode
    <3>2. s.pc = "code"
      BY <2>0, <2>12, <3>1 DEF SkipCode, At, Passes
    <3> QED
      BY <3>2 DEF Goal
  <2>13. CASE StatCode(p)
    <3>1. PICK f, m : pass' = [pass EXCEPT ![p].todo = @ \ {f}, ![p].file = f,
                                           ![p].mtime = m, ![p].pc = "readCode"]
      BY <2>13 DEF StatCode
    <3> QED
      BY <2>0, <3>1 DEF Passes, Goal
  <2>14. AfterFile(r, "code").pc = "code" /\ AfterFile(r, "code") \in Passes
    BY <2>0, AfterFileTypes DEF AfterFile, Passes
  <2>15. CASE ReadCode(p)
    BY <2>0, <2>14, <2>15 DEF ReadCode, NextFile, Passes, Goal
  <2>16. CASE SaveCode(p)
    <3>1. PICK keep : s = [AfterFile(r, "code") EXCEPT !.keep = keep]
      BY <2>0, <2>16 DEF SaveCode
    <3> QED
      BY <2>14, <3>1 DEF Passes, Goal
  <2>17. CASE Prune(p)
    <3>1. PICK c : Drop(p, c, "prune")
      BY <2>17 DEF Prune
    <3> QED
      BY <2>0, <3>1 DEF Drop, Passes, Goal
  <2>18. CASE SaveCodeAborts(p) \/ Finish(p) \/ Interrupt(p) \/ Cancel(p)
    BY <2>0, <2>18 DEF SaveCodeAborts, Finish, Interrupt, Cancel, End, Goto, NoPass, Passes, Goal
  <2> QED
    BY <1>2, <2>2, <2>3, <2>4, <2>5, <2>6, <2>7, <2>9, <2>10, <2>11, <2>12, <2>13, <2>15,
       <2>16, <2>17, <2>18 DEF Action, PassStep
<1> QED
  BY <1>1, <1>2, NextIs DEF Edit, Upgrade, vars, syncVars

\* A step that touches no row and no file.
LEMMA ProgressSame ==
    ASSUME NEW p \in Procs, UNCHANGED <<docs, disk>>, Progress(pass'[p])
    PROVE  Progress(pass[p])'
  BY DEF Progress, Caught, Dealt, InHandOf, UpToDate, IsText, Stat, Present

\* Up to the first file.
LEMMA ProgressByOpening ==
    ASSUME QuietBase, NEW p \in Procs, Progress(pass[p]), UNCHANGED disk,
           \/ \E kind \in Kinds : Begin(p, kind)
           \/ ClearStep(p) \/ Scan(p) \/ ReadMtimes(p) \/ LoadCatalog(p)
    PROVE  Progress(pass[p])'
<1> DEFINE r == pass[p]
<1> DEFINE s == pass'[p]
<1>0. /\ pass \in [Procs -> Passes] /\ r \in Passes /\ r.kind # "paths"
      /\ \A f : IsText(f) => Present(f)
  BY DEF QuietBase, LinkedInv, LinkedSoFar, TypeInv, TypeOK, IsText, Present
<1> USE DEF Linking, RqPhase, RqStages, CodeStages, TextInHand
<1>1. CASE s.pc \in {"clearEdges", "clearIdeas", "clearDocs", "scan"}
  BY <1>1 DEF Progress
<1>2. ASSUME NEW kind \in Kinds, Begin(p, kind)
      PROVE  s.pc \in {"clearEdges", "clearIdeas", "clearDocs", "scan"}
  BY <1>0, <1>2 DEF Begin, Passes
<1>3. CASE ClearStep(p)
  <2>1. s.pc \in {"clearEdges", "clearIdeas", "clearDocs", "scan"}
    BY <1>0, <1>3 DEF ClearStep, Goto, Passes
  <2> QED
    BY <1>1, <2>1
<1>4. CASE Scan(p)
  <2>1. PICK listed : /\ listed = {f \in Files : Present(f)}
                      /\ pass' = [pass EXCEPT ![p].todo = listed, ![p].pc = "mtimes"]
    BY <1>0, <1>4 DEF Scan
  <2>2. s.pc = "mtimes" /\ s.todo = listed
    BY <1>0, <2>1 DEF Passes
  <2>3. \A f \in Files : IsText(f) => f \in s.todo
    BY <1>0, <2>1, <2>2
  <2>4. Progress(s)
    BY <2>2, <2>3 DEF Progress
  <2> QED
    BY <1>4, <2>4, ProgressSame DEF Scan, storeVars
<1>5. CASE ReadMtimes(p)
  <2>1. r.pc = "mtimes" /\ s.pc = "catalog" /\ s.todo = r.todo /\ s.keep = r.keep /\ s.stored = docs
    BY <1>0, <1>5 DEF ReadMtimes, At, Passes
  <2>2. Progress(s)
    BY <2>1 DEF Progress, Dealt, InHandOf, UpToDate
  <2> QED
    BY <1>5, <2>2, ProgressSame DEF ReadMtimes, storeVars
<1>6. CASE LoadCatalog(p)
  <2>1. r.pc = "catalog" /\ s.pc = "rq" /\ s.todo = r.todo /\ s.keep = r.keep /\ s.stored = r.stored
    BY <1>0, <1>6 DEF LoadCatalog, At, Passes
  <2>2. Progress(s)
    BY <2>1 DEF Progress, Dealt, InHandOf
  <2> QED
    BY <1>6, <2>2, ProgressSame DEF LoadCatalog, storeVars
<1> QED
  BY <1>1, <1>2, <1>3, <1>4, <1>5, <1>6

\* A file in hand that is readable and has just been persisted.
LEMMA SavedInHand ==
    ASSUME TypeInv, NEW p \in Procs, Progress(pass[p]), UNCHANGED disk,
           At(p, "saveRq") \/ At(p, "saveCode"),
           docs' = [docs EXCEPT ![pass[p].file] = pass[p].mtime]
    PROVE  /\ docs'[pass[p].file] = disk[pass[p].file].mtime
           /\ \A f \in Files : docs[f] = disk[f].mtime => docs'[f] = disk[f].mtime
<1>1. pass[p].file \in Files /\ docs \in [Files -> Int]
  BY DEF TypeInv, TypeOK, StoreType, Stages, StageOK, At, RqStages, CodeStages, Files
<1>2. pass[p].mtime = disk[pass[p].file].mtime
  BY DEF Progress, At, RqStages, CodeStages, TextInHand, Stat, Present, IsText
<1> QED
  BY <1>1, <1>2

\* Among the `.rq` files.
LEMMA ProgressByRq ==
    ASSUME QuietBase, NEW p \in Procs, Progress(pass[p]), UNCHANGED disk,
           \/ SkipRq(p) \/ StatRq(p) \/ ReadRq(p) \/ CompareNames(p) \/ SaveRq(p) \/ RqDone(p)
    PROVE  Progress(pass[p])'
<1> DEFINE r == pass[p]
<1> DEFINE s == pass'[p]
<1>0. /\ TypeInv /\ KeptLate
      /\ pass \in [Procs -> Passes] /\ r \in Passes
      /\ \A f \in RqFiles : f \in Files /\ f \notin CodeFiles
  BY FilesAssumption DEF QuietBase, LinkedInv, TypeInv, TypeOK, Files
<1>1. /\ AfterFile(r, "rq").pc = "rq" /\ AfterFile(r, "rq").todo = r.todo
      /\ AfterFile(r, "rq").stored = r.stored /\ AfterFile(r, "rq").keep = r.keep
      /\ AfterFile(r, "rq") \in Passes
  BY <1>0, AfterFileTypes DEF AfterFile, Passes
<1> HIDE DEF QuietBase
<1> USE DEF Linking, RqPhase, RqStages, CodeStages, TextInHand
<1>2. CASE SkipRq(p)
  <2>1. PICK f \in RqFiles : Unchanged(p, f) /\ Drop(p, f, "rq")
    BY <1>2 DEF SkipRq
  <2>2. /\ r.pc = "rq" /\ s.pc = "rq" /\ s.todo = r.todo \ {f} /\ s.keep = r.keep
        /\ s.stored = r.stored
    BY <1>0, <1>2, <2>1 DEF SkipRq, At, Drop, Passes
  <2>3. UpToDate(f)
    BY <1>0, <2>1, <2>2 DEF Unchanged, Stat, Progress
  <2>4. Progress(s)
    BY <1>0, <2>2, <2>3 DEF Progress, Dealt, InHandOf
  <2> QED
    BY <1>2, <2>4, ProgressSame DEF SkipRq, storeVars
<1>3. CASE StatRq(p)
  <2>1. PICK f \in RqFiles :
           pass' = [pass EXCEPT ![p].todo = @ \ {f}, ![p].file = f,
                                ![p].mtime = Stat(f), ![p].pc = "readRq"]
    BY <1>3 DEF StatRq
  <2>2. /\ s.pc = "readRq" /\ s.todo = r.todo \ {f} /\ s.keep = r.keep
        /\ s.stored = r.stored /\ s.file = f /\ s.mtime = Stat(f)
    BY <1>0, <2>1 DEF Passes
  <2>3. r.pc = "rq"
    BY <1>3, StepAt DEF At
  <2>4. Progress(s)
    BY <2>2, <2>3 DEF Progress, Dealt, InHandOf
  <2> QED
    BY <1>3, <2>4, ProgressSame DEF StatRq, storeVars
<1>4. CASE ReadRq(p)
  <2>1. r.pc = "readRq" /\ UNCHANGED docs
    BY <1>4 DEF ReadRq, At, storeVars
  <2>2. CASE IsText(r.file)
    <3>1. /\ s.pc = "compare" /\ s.todo = r.todo /\ s.keep = r.keep /\ s.stored = r.stored
          /\ s.file = r.file /\ s.mtime = r.mtime
      BY <1>0, <1>4, <2>2 DEF ReadRq, Passes
    <3>2. Progress(s)
      BY <2>1, <2>2, <3>1 DEF Progress, Dealt, InHandOf
    <3> QED
      BY <2>1, <3>2, ProgressSame
  <2>3. CASE ~ IsText(r.file)
    <3>1. s = AfterFile(r, "rq")
      BY <1>0, <1>4, <2>3 DEF ReadRq, NextFile
    <3>2. Progress(s)
      BY <1>1, <2>1, <2>3, <3>1 DEF Progress, Dealt, InHandOf
    <3> QED
      BY <2>1, <3>2, ProgressSame
  <2> QED
    BY <2>2, <2>3
<1>5. CASE CompareNames(p)
  <2>1. /\ r.pc = "compare" /\ s.pc = "saveRq" /\ s.todo = r.todo /\ s.keep = r.keep
        /\ s.stored = r.stored /\ s.file = r.file /\ s.mtime = r.mtime
    BY <1>0, <1>5 DEF CompareNames, At, Passes
  <2>2. Progress(s)
    BY <2>1 DEF Progress, Dealt, InHandOf
  <2> QED
    BY <1>5, <2>2, ProgressSame DEF CompareNames, storeVars
<1>6. CASE SaveRq(p)
  <2>1. /\ At(p, "saveRq") /\ r.pc = "saveRq"
        /\ docs' = [docs EXCEPT ![r.file] = r.mtime]
    BY <1>6 DEF SaveRq, At, PersistIdeas
  <2>2. PICK catalog, relink :
           s = [AfterFile(r, "rq") EXCEPT !.catalog = catalog, !.relink = relink]
    BY <1>0, <1>6, SaveRqPass, Zenon
  <2>3. s.pc = "rq" /\ s.todo = r.todo /\ s.keep = r.keep /\ s.stored = r.stored
    BY <1>1, <2>2 DEF Passes
  <2>4. r.file \notin CodeFiles
    BY <1>0, <2>1 DEF TypeInv, Stages, StageOK
  <2>5. /\ docs'[r.file] = disk[r.file].mtime
        /\ \A f \in Files : docs[f] = disk[f].mtime => docs'[f] = disk[f].mtime
    BY <1>0, <2>1, SavedInHand
  <2>6. \A f \in Files : IsText(f) => f \in r.todo \/ Dealt(r, f) \/ f = r.file
    BY <2>1 DEF Progress, InHandOf
  <2>7. \A f \in Files : IsText(f) =>
           f \in s.todo \/ (docs'[f] = disk[f].mtime /\ (f \in CodeFiles => f \in s.keep))
    BY <2>3, <2>4, <2>5, <2>6 DEF Dealt, UpToDate
  <2>8. \A f \in Files : s.stored[f] = disk[f].mtime => docs'[f] = disk[f].mtime
    BY <2>1, <2>3, <2>5 DEF Progress, UpToDate
  <2> QED
    BY <2>3, <2>7, <2>8 DEF Progress, Dealt, UpToDate, IsText
<1>7. CASE RqDone(p)
  <2>1. /\ r.pc = "rq" /\ s.pc = "code" /\ s.todo = r.todo /\ s.keep = r.keep
        /\ s.stored = r.stored /\ r.todo \cap RqFiles = {}
    BY <1>0, <1>7 DEF RqDone, Goto, At, Passes
  <2>2. s.keep = {} /\ s.todo \subseteq CodeFiles
    BY <1>0, <2>1 DEF KeptLate, Keeping, Passes, Files
  <2>3. Progress(s)
    BY <2>1, <2>2 DEF Progress, Dealt, InHandOf
  <2> QED
    BY <1>7, <2>3, ProgressSame DEF RqDone, storeVars
<1> QED
  BY <1>2, <1>3, <1>4, <1>5, <1>6, <1>7

\* Among the code files.
LEMMA ProgressByCode ==
    ASSUME QuietBase, NEW p \in Procs, Progress(pass[p]), UNCHANGED disk,
           SkipCode(p) \/ StatCode(p) \/ ReadCode(p) \/ SaveCode(p)
    PROVE  Progress(pass[p])'
<1> DEFINE r == pass[p]
<1> DEFINE s == pass'[p]
<1>0. /\ TypeInv
      /\ pass \in [Procs -> Passes] /\ r \in Passes
      /\ \A c \in CodeFiles : c \in Files
  BY DEF QuietBase, LinkedInv, TypeInv, TypeOK, Files
<1>1. /\ AfterFile(r, "code").pc = "code" /\ AfterFile(r, "code").todo = r.todo
      /\ AfterFile(r, "code").stored = r.stored /\ AfterFile(r, "code").keep = r.keep
      /\ AfterFile(r, "code") \in Passes
  BY <1>0, AfterFileTypes DEF AfterFile, Passes
<1> HIDE DEF QuietBase
<1> USE DEF Linking, RqPhase, RqStages, CodeStages, TextInHand
<1>2. CASE SkipCode(p)
  <2>1. PICK c \in CodeFiles :
           /\ Unchanged(p, c)
           /\ pass' = [pass EXCEPT ![p].todo = @ \ {c}, ![p].keep = @ \cup {c}]
    BY <1>2 DEF SkipCode
  <2>2. r.pc = "code"
    BY <1>2, StepAt DEF At
  <2>3. /\ s.pc = "code" /\ s.todo = r.todo \ {c} /\ s.keep = r.keep \cup {c}
        /\ s.stored = r.stored
    BY <1>0, <2>1, <2>2 DEF Passes
  <2>4. UpToDate(c)
    BY <1>0, <2>1, <2>2 DEF Unchanged, Stat, Progress
  <2>5. Progress(s)
    BY <2>2, <2>3, <2>4 DEF Progress, Dealt, InHandOf
  <2> QED
    BY <1>2, <2>5, ProgressSame DEF SkipCode, storeVars
<1>3. CASE StatCode(p)
  <2>1. PICK c \in CodeFiles :
           pass' = [pass EXCEPT ![p].todo = @ \ {c}, ![p].file = c,
                                ![p].mtime = Stat(c), ![p].pc = "readCode"]
    BY <1>3 DEF StatCode
  <2>2. /\ s.pc = "readCode" /\ s.todo = r.todo \ {c} /\ s.keep = r.keep
        /\ s.stored = r.stored /\ s.file = c /\ s.mtime = Stat(c)
    BY <1>0, <2>1 DEF Passes
  <2>3. r.pc = "code"
    BY <1>3, StepAt DEF At
  <2>4. Progress(s)
    BY <2>2, <2>3 DEF Progress, Dealt, InHandOf
  <2> QED
    BY <1>3, <2>4, ProgressSame DEF StatCode, storeVars
<1>4. CASE ReadCode(p)
  <2>1. r.pc = "readCode" /\ UNCHANGED docs
    BY <1>4 DEF ReadCode, At, storeVars
  <2>2. CASE IsText(r.file)
    <3>1. /\ s.pc = "saveCode" /\ s.todo = r.todo /\ s.keep = r.keep /\ s.stored = r.stored
          /\ s.file = r.file /\ s.mtime = r.mtime
      BY <1>0, <1>4, <2>2 DEF ReadCode, Passes
    <3>2. Progress(s)
      BY <2>1, <2>2, <3>1 DEF Progress, Dealt, InHandOf
    <3> QED
      BY <2>1, <3>2, ProgressSame
  <2>3. CASE ~ IsText(r.file)
    <3>1. s = AfterFile(r, "code")
      BY <1>0, <1>4, <2>3 DEF ReadCode, NextFile
    <3>2. Progress(s)
      BY <1>1, <2>1, <2>3, <3>1 DEF Progress, Dealt, InHandOf
    <3> QED
      BY <2>1, <3>2, ProgressSame
  <2> QED
    BY <2>2, <2>3
<1>5. CASE SaveCode(p)
  <2>1. /\ At(p, "saveCode") /\ r.pc = "saveCode"
        /\ docs' = [docs EXCEPT ![r.file] = r.mtime]
        /\ s = [AfterFile(r, "code") EXCEPT !.keep = r.keep \cup {r.file}]
    BY <1>0, <1>5 DEF SaveCode, At, PersistLinks
  <2>2. /\ s.pc = "code" /\ s.todo = r.todo /\ s.stored = r.stored
        /\ s.keep = r.keep \cup {r.file}
    BY <1>1, <2>1 DEF Passes
  <2>3. /\ docs'[r.file] = disk[r.file].mtime
        /\ \A f \in Files : docs[f] = disk[f].mtime => docs'[f] = disk[f].mtime
    BY <1>0, <2>1, SavedInHand
  <2>4. \A f \in Files : IsText(f) => f \in r.todo \/ Dealt(r, f) \/ f = r.file
    BY <2>1 DEF Progress, InHandOf
  <2>5. \A f \in Files : IsText(f) =>
           f \in s.todo \/ (docs'[f] = disk[f].mtime /\ (f \in CodeFiles => f \in s.keep))
    BY <2>2, <2>3, <2>4 DEF Dealt, UpToDate
  <2>6. \A f \in Files : s.stored[f] = disk[f].mtime => docs'[f] = disk[f].mtime
    BY <2>1, <2>2, <2>3 DEF Progress, UpToDate
  <2>7. s.todo \subseteq CodeFiles /\ \A c \in s.keep : docs'[c] = disk[c].mtime
    <3>1. r.todo \subseteq CodeFiles /\ r.keep \subseteq Files
          /\ \A c \in r.keep : docs[c] = disk[c].mtime
      BY <1>0, <2>1 DEF Progress, UpToDate, Passes
    <3> QED
      BY <2>2, <2>3, <3>1
  <2> QED
    BY <2>2, <2>5, <2>6, <2>7 DEF Progress, Dealt, UpToDate, IsText
<1> QED
  BY <1>2, <1>3, <1>4, <1>5

\* From the list of what to prune to the end.  A row that is left at a file that
\* is not readable would have been the file's own, and it is not.
LEMMA ProgressByPrune ==
    ASSUME QuietBase, NEW p \in Procs, Progress(pass[p]), UNCHANGED disk,
           \/ CodeDone(p) \/ Prune(p) \/ PruneDone(p) \/ Finish(p)
           \/ At(p, "stamp") /\ Interrupt(p)
    PROVE  Progress(pass[p])'
<1> DEFINE r == pass[p]
<1> DEFINE s == pass'[p]
<1>0. /\ docs \in [Files -> Int]
      /\ pass \in [Procs -> Passes] /\ r \in Passes
      /\ \A c \in CodeFiles : c \in Files
      /\ RowsOfTexts
  BY DEF QuietBase, LinkedInv, TypeInv, TypeOK, StoreType, Files
<1> HIDE DEF QuietBase
<1> USE DEF Linking, RqPhase, RqStages, CodeStages, TextInHand
<1>1. CASE CodeDone(p)
  <2>1. /\ r.pc = "code" /\ s.pc = "prune" /\ s.keep = r.keep
        /\ s.todo = CodeDocuments \ r.keep /\ r.todo = {}
    BY <1>0, <1>1 DEF CodeDone, At, Passes
  <2>2. Progress(s)
    BY <2>1 DEF Progress, Dealt, InHandOf, CodeDocuments
  <2> QED
    BY <1>1, <2>2, ProgressSame DEF CodeDone, storeVars
<1>2. CASE Prune(p)
  <2>1. PICK c : c \in r.todo /\ RemoveDocument(c) /\ Drop(p, c, "prune")
    BY <1>2 DEF Prune
  <2>2. r.pc = "prune" /\ s.pc = "prune" /\ s.keep = r.keep /\ s.todo = r.todo \ {c}
    BY <1>0, <1>2, <2>1 DEF Prune, At, Drop, Passes
  <2>3. docs' = [docs EXCEPT ![c] = NoRow]
    BY <2>1 DEF RemoveDocument
  <2>4. c \in CodeFiles /\ c \notin r.keep /\ r.keep \subseteq CodeFiles
    BY <1>0, <2>1, <2>2 DEF Progress, Passes
  <2>5. \A f \in Files : IsText(f) =>
           docs'[f] = disk[f].mtime /\ (f \in CodeFiles => f \in s.keep)
    BY <1>0, <2>2, <2>3, <2>4 DEF Progress, Dealt, UpToDate
  <2>6. \A d \in CodeFiles : docs'[d] # NoRow => d \in s.keep \cup s.todo
    BY <1>0, <2>2, <2>3, <2>4 DEF Progress
  <2>7. s.todo \subseteq CodeFiles /\ \A d \in s.keep : docs'[d] = disk[d].mtime
    BY <1>0, <2>2, <2>3, <2>4 DEF Progress, UpToDate
  <2>8. s.todo \cap s.keep = {}
    BY <2>2 DEF Progress
  <2> QED
    BY <2>2, <2>5, <2>6, <2>7, <2>8 DEF Progress, Dealt, UpToDate, IsText
<1>3. CASE PruneDone(p)
  <2>1. r.pc = "prune" /\ s.pc = "stamp" /\ r.todo = {}
    BY <1>0, <1>3 DEF PruneDone, Goto, At, Passes
  <2>2. Caught
    BY <1>0, <2>1 DEF Progress, Dealt, Caught, RowsOfTexts, UpToDate
  <2>3. Progress(s)
    BY <2>1, <2>2 DEF Progress
  <2> QED
    BY <1>3, <2>3, ProgressSame DEF PruneDone, storeVars
<1>4. CASE Finish(p) \/ (At(p, "stamp") /\ Interrupt(p))
  <2>1. r.pc = "stamp" /\ s = NoPass /\ UNCHANGED docs
    BY <1>0, <1>4 DEF Finish, Interrupt, End, At, SetExtractVersion, storeVars
  <2>2. s.pc = "idle"
    BY <2>1 DEF NoPass
  <2>3. Progress(s)
    BY <2>1, <2>2 DEF Progress
  <2> QED
    BY <2>1, <2>3, ProgressSame
<1> QED
  BY <1>1, <1>2, <1>3, <1>4

LEMMA ProgressStep ==
    ASSUME QuietBase, ~ MayCancel, NEW p \in Procs, Action(p), Progress(pass[p]),
           Interrupt(p) => At(p, "stamp"), ~ SaveRqFails(p)
    PROVE  Progress(pass[p])'
<1>1. UNCHANGED disk
  BY OthersSame DEF QuietBase, LinkedInv
<1>2. ~ SaveCodeAborts(p) /\ ~ Cancel(p)
  BY TargetsStored DEF QuietBase, LinkedInv, SaveCodeAborts, Cancel
<1>3. CASE \/ \E kind \in Kinds : Begin(p, kind)
           \/ ClearStep(p) \/ Scan(p) \/ ReadMtimes(p) \/ LoadCatalog(p)
  BY <1>1, <1>3, ProgressByOpening
<1>4. CASE SkipRq(p) \/ StatRq(p) \/ ReadRq(p) \/ CompareNames(p) \/ SaveRq(p) \/ RqDone(p)
  BY <1>1, <1>4, ProgressByRq
<1>5. CASE SkipCode(p) \/ StatCode(p) \/ ReadCode(p) \/ SaveCode(p)
  BY <1>1, <1>5, ProgressByCode
<1>6. CASE CodeDone(p) \/ Prune(p) \/ PruneDone(p) \/ Finish(p) \/ Interrupt(p)
  BY <1>1, <1>6, ProgressByPrune
<1> QED
  BY <1>2, <1>3, <1>4, <1>5, <1>6 DEF Action, PassStep

\* A pass that begins on whatever the database holds, and that nobody disturbs:
\* no file changes, no write fails, and the process is not cut off before it has
\* pruned.
Opening     == \A p \in Procs : pass[p].pc \in {"clearEdges", "scan"}
Undisturbed == /\ UNCHANGED disk
               /\ \A p \in Procs : ~ SaveRqFails(p) /\ (Interrupt(p) => At(p, "stamp"))

\* One pass is enough.  With a single process on the database, once a pass has
\* begun after the last edit, the database describes the base whenever no pass
\* runs: each readable file has its own mtime and, if a `.rq` file, exactly its
\* ideas and, if a code file, exactly its links; no other code file has a row.
\* That is the safety part of Converges, which says besides that passes end.
\* The hypotheses are those of AllLinksMade.
THEOREM QuietPassInSync ==
    ASSUME NEW only, Procs = {only}, ~ RacyWrites, ~ MayCancel, "paths" \notin Kinds,
           InterruptAt \subseteq HarmlessCuts
    PROVE  Spec => [](Opening /\ [][Undisturbed]_vars => [](Idle => InSync))
<1> DEFINE Moving == \A p \in Procs : Progress(pass[p])
<1>0. "clearDocs" \notin InterruptAt /\ \A p, q \in Procs : p = q
  BY DEF HarmlessCuts
<1>1. Init => QuietBase
  <2> SUFFICES ASSUME Init PROVE QuietBase
    OBVIOUS
  <2>1. HonestInv
    BY InitHonest
  <2>2. \A f \in Files : docs[f] = -1 /\ disk[f].mtime > 0 /\ ~ UpToDate(f)
    BY <2>1 DEF Init, StoreInit, NoRow, HonestInv, TypeInv, TypeOK, FileStates, UpToDate
  <2>3. \A p \in Procs : pass[p].pc = "idle" /\ pass[p].kind = "soft" /\ pass[p].keep = {}
    BY DEF Init, NoPass
  <2>4. LinkedInv
    BY <2>1, <2>2, <2>3 DEF HonestInv, LinkedInv, LinkedSoFar, CatalogMirrorsStore, Settled,
                            RqPhase, Linking, RqStages, CodeStages, Current, Files, UpToDate
  <2>5. RootInv
    BY <2>1, <2>3 DEF Init, StoreInit, HonestInv, RootInv, Cleared, At, MtimesTaken, RowsRooted,
                      RqStages, CodeStages
  <2>6. RowsOfTexts /\ KeptLate
    BY <2>2, <2>3 DEF RowsOfTexts, KeptLate, TextInHand
  <2> QED
    BY <2>1, <2>4, <2>5, <2>6 DEF QuietBase, HonestInv
<1>2. QuietBase /\ [Next]_vars => QuietBase'
  <2> SUFFICES ASSUME QuietBase, [Next]_vars PROVE QuietBase'
    OBVIOUS
  <2>1. LinkedInv'
    BY <1>0, LinkedStep DEF QuietBase
  <2>2. MtimeHonest'
    BY <1>0, HonestStep DEF QuietBase, LinkedInv, HonestInv
  <2>3. RootInv'
    BY <1>0, TypeStep, ClearedStep, MtimesTakenStep, RowsRootedStep DEF QuietBase, RootInv
  <2>4. RowsOfTexts' /\ KeptLate'
    BY RowsOfTextsStep, KeptLateStep DEF QuietBase, LinkedInv
  <2> QED
    BY <2>1, <2>2, <2>3, <2>4 DEF QuietBase
<1>3. Spec => []QuietBase
  BY <1>1, <1>2, PTL DEF Spec
<1>4. Opening => Moving
  BY DEF Opening, Progress, Linking, RqPhase, RqStages, CodeStages, TextInHand
<1>5. QuietBase /\ Moving /\ [Next]_vars /\ [Undisturbed]_vars => Moving'
  <2> SUFFICES ASSUME QuietBase, Moving, [Next]_vars, [Undisturbed]_vars,
                      NEW p \in Procs
               PROVE  Progress(pass[p])'
    OBVIOUS
  <2>1. CASE UNCHANGED vars
    BY <2>1, ProgressSame DEF vars, storeVars, syncVars
  <2>2. CASE Next /\ Undisturbed
    <3>1. UNCHANGED disk
      BY <2>2 DEF Undisturbed
    <3>2. CASE Upgrade \/ \E f \in Files : Edit(f)
      BY <3>1, <3>2, ProgressSame DEF Upgrade, Edit, storeVars
    <3>3. ASSUME NEW q \in Procs, Action(q) PROVE Progress(pass[p])'
      BY <1>0, <2>2, <3>3, ProgressStep DEF Undisturbed
    <3> QED
      BY <2>2, <3>2, <3>3, NextIs
  <2> QED
    BY <2>1, <2>2
<1>6. QuietBase /\ Moving => (Idle => InSync)
  <2> SUFFICES ASSUME QuietBase, Moving, Idle PROVE InSync
    OBVIOUS
  <2>1. \A p \in Procs : pass[p].pc = "idle"
    BY DEF Idle, At
  <2>2. Caught
    BY <1>0, <2>1 DEF Progress
  <2>3. \A f \in RqFiles : IsText(f) => Current(f) /\ NamesIn(f, ideas) = disk[f].body
    BY <2>1, <2>2 DEF QuietBase, MtimeHonest, At, Caught, Current, UpToDate, Files
  <2>4. \A c \in CodeFiles : IsText(c) =>
           Current(c) /\ LinksOf(c) = LinkRows(c, Resolve(disk[c].body, ideas))
    BY <1>0, <2>1, <2>2 DEF QuietBase, LinkedInv, LinkedSoFar, Settled, Exact, Caught, Current,
                            UpToDate, Files
  <2>5. \A c \in CodeFiles : ~ IsText(c) => docs[c] = NoRow /\ LinksOf(c) = {}
    BY <2>2 DEF QuietBase, RootInv, RowsRooted, Caught, LinksOf
  <2> QED
    BY <2>3, <2>4, <2>5 DEF InSync
<1> HIDE DEF Moving
<1> QED
  BY <1>3, <1>4, <1>5, <1>6, PTL DEF Spec

=============================================================================
