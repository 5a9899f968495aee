--------------------------- MODULE MCAuthTokens ---------------------------
(***************************************************************************)
(* AuthTokens on a small instance; users, tokens, browsers and requests    *)
(* are interchangeable.                                                    *)
(***************************************************************************)
EXTENDS AuthTokens, TLC

Symmetry == UNION {Permutations(Users), Permutations(Tokens),
                   Permutations(Browsers), Permutations(Requests)}
===========================================================================
