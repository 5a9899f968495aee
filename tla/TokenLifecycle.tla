-------------------------- MODULE TokenLifecycle --------------------------
(***************************************************************************)
(* What the refresh-token store promises, whatever the handlers do in      *)
(* between: a token is issued to one user, is spent (rotated away, logged  *)
(* out or expired) at most once, and a spent token never comes back.       *)
(***************************************************************************)
CONSTANTS Tokens, Users, NoUser

VARIABLES owner,   \* the user a live token stands for, NoUser if it is not live
          spent    \* the tokens that were live once and are not any more

Init == /\ owner = [t \in Tokens |-> NoUser]
        /\ spent = {}

Issue(t, u) == /\ owner[t] = NoUser
               /\ t \notin spent
               /\ owner' = [owner EXCEPT ![t] = u]
               /\ UNCHANGED spent

Spend(t) == /\ owner[t] # NoUser
            /\ owner' = [owner EXCEPT ![t] = NoUser]
            /\ spent' = spent \cup {t}

Next == \E t \in Tokens : Spend(t) \/ \E u \in Users : Issue(t, u)

Spec == Init /\ [][Next]_<<owner, spent>>
===========================================================================
