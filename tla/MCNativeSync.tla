---------------------------- MODULE MCNativeSync ----------------------------
(***************************************************************************)
(* Instances of NativeSync for TLC.                                        *)
(***************************************************************************)
EXTENDS NativeSyncProps, TLC

CONSTANTS r1, r2, c1, n1, n2

\* Texts of `.rq` files: with and without each of two names, so that an edit
\* can rename, add and remove an idea.
MCOneName  == {{}, {n1}}
MCTwoNames == {{n1}, {n2}}

\* Texts of code files: no reference, a qualified one, an unqualified one.
MCRefs      == {{<<r1, n1>>}, {<<AnyFile, n1>>}}
MCAnyRef    == {{}, {<<AnyFile, n1>>}}
MCOneRef    == {{<<AnyFile, n1>>}}
MCBothNames == {{<<AnyFile, n1>>, <<r1, n2>>}}

\* Anywhere but between deleting the ideas and deleting the documents.
MCAnywhereSafe == PCs \ {"idle", "clearDocs"}
MCNowhere      == {}
MCTornClear    == {"clearDocs"}
MCCodePhase    == {"code"}
=============================================================================
