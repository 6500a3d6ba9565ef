------------------------------ MODULE MCLspServer ------------------------------
(***************************************************************************)
(* Instances of LspServer for TLC.                                         *)
(***************************************************************************)
EXTENDS LspServerProps, TLC

CONSTANTS q1, q2, d1, c1
=============================================================================
