--------------------------- MODULE MCAssetCatalog ---------------------------
(***************************************************************************)
(* AssetCatalog on small instances: single lookups next to bulk ones, or    *)
(* bulk lookups of several items.                                          *)
(***************************************************************************)
EXTENDS AssetCatalog, TLC

Symmetry == UNION {Permutations(Items), Permutations(BulkItems), Permutations(Names),
                   Permutations(Requests)}
===========================================================================
