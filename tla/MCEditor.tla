-------------------------------- MODULE MCEditor --------------------------------
(***************************************************************************)
(* The instance of Editor for TLC.                                         *)
(***************************************************************************)
EXTENDS Editor, TLC

CONSTANTS b1, b2, d1, d2, f1, f2, i1, i2, p1, p2

MCFiles == {<<"a">>, <<"a", "b">>, <<"a", "b", "a">>, <<"b">>}
MCRoots == {<<>>, <<"a">>, <<"a", "b">>}

\* One document in each base.
MCOwner == d1 :> b1 @@ d2 :> b2

\* Four of five ideas are in one file.
MCFileOf == <<f1, f2, f1, f1, f1>>

\* Each of two ideas is a neighbour of the other, in one direction.
MCLists == i1 :> <<<<i2>>, <<>>, <<>>, <<i2>>>> @@ i2 :> <<<<>>, <<i1>>, <<>>, <<i1>>>>

MCCalls == p1 :> 2 @@ p2 :> 1
=============================================================================
