----------------------------- MODULE MCSkinsCache ----------------------------
(***************************************************************************)
(* SkinsCache on a small instance; what is of one kind is interchangeable. *)
(***************************************************************************)
EXTENDS SkinsCache, TLC

Symmetry == UNION {Permutations(BulkItems), Permutations(Names), Permutations(Requests)}
===========================================================================
