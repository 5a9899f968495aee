------------------------- MODULE MCStorefrontCache -------------------------
(***************************************************************************)
(* StorefrontCache with periods that have no common rotation before six.   *)
(***************************************************************************)
EXTENDS StorefrontCache, TLC

MCPeriod == "skins" :> 2 @@ "bundles" :> 5 @@ "accessories" :> 3

Symmetry == Permutations(Requests)
===========================================================================
