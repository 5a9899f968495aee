-------------------------- MODULE MCDisplayCaches --------------------------
(***************************************************************************)
(* DisplayCaches with a match of two players and one of a player alone, and *)
(* a rank that is kept for a shorter time than a name.                     *)
(***************************************************************************)
EXTENDS DisplayCaches, TLC

CONSTANTS p1, p2

MCPuuids == {p1, p2}
MCMatches == {p1 :> 2 @@ p2 :> 1}
MCWithSession == {p1}
MCLists == {{p1, p2}}

Symmetry == Permutations(Requests)
===========================================================================
