---------------------------- MODULE MCMatchSync ----------------------------
(***************************************************************************)
(* MatchSync with two matches and two players, one of whom took part in    *)
(* one of the matches only.                                                *)
(***************************************************************************)
EXTENDS MatchSync, TLC

CONSTANTS p1, p2, m1, m2

MCRoster == m1 :> {p1, p2} @@ m2 :> {p1}

MCRosterOne == m1 :> {p1}

Symmetry == Permutations(Requests)
===========================================================================
