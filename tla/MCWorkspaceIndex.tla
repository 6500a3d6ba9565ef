---------------------------- MODULE MCWorkspaceIndex ----------------------------
(***************************************************************************)
(* Instances of WorkspaceIndex for TLC.                                    *)
(***************************************************************************)
EXTENDS WorkspaceIndexProps, TLC

CONSTANTS r1, r2, c1, n1

MCNames == {{}, {n1}}
MCName  == {{n1}}
MCRefs  == {{<<AnyFile, n1>>}}
=============================================================================
