--------------------------- MODULE MCRiotSession ---------------------------
(***************************************************************************)
(* RiotSession with two players, one of whom plays in a region that the    *)
(* database does not know, or with one player who is linked twice.         *)
(***************************************************************************)
EXTENDS RiotSession, TLC

CONSTANTS p1, p2, t1, t2, t3, eu

MCOwnerOfTwo == t1 :> p1 @@ t3 :> p2
MCOwnerOfOne == t1 :> p1 @@ t2 :> p1
MCRegionOf == p1 :> eu @@ p2 :> NoRegion
MCRegionOfOne == p1 :> eu

Symmetry == Permutations(Requests)
===========================================================================
