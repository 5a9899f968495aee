--------------------------- MODULE MatchArchive ---------------------------
(***************************************************************************)
(* What the stored match history promises its readers: a match becomes     *)
(* visible as a whole, and a stored match does not change any more.        *)
(***************************************************************************)
CONSTANTS Matches, Roster, Absent

VARIABLE archive   \* per match, Absent or what a reader finds

\* All players of the match, and its kill events.
Full(m) == [players |-> Roster[m], kills |-> TRUE]

Init == archive = [m \in Matches |-> Absent]

Store(m) == /\ archive[m] = Absent
            /\ archive' = [archive EXCEPT ![m] = Full(m)]

Next == \E m \in Matches : Store(m)

Spec == Init /\ [][Next]_archive
===========================================================================
