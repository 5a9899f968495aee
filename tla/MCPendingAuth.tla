--------------------------- MODULE MCPendingAuth ---------------------------
(***************************************************************************)
(* PendingAuth on a small instance; ids, attempts and requests are         *)
(* interchangeable.                                                        *)
(***************************************************************************)
EXTENDS PendingAuth, TLC

Symmetry == UNION {Permutations(Ids), Permutations(Attempts), Permutations(Requests)}
===========================================================================
