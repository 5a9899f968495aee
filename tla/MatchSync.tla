----------------------------- MODULE MatchSync -----------------------------
(***************************************************************************)
(* Match history: concurrent requests that copy matches from the Riot API  *)
(* into Postgres (force=true) and read them back.  A match is written in   *)
(* one transaction (READ COMMITTED); a reader sees committed rows only, one *)
(* query at a time.  The rows of match_kills have no key of their own, so  *)
(* the table is modelled by how often the events of a match are in it.     *)
(***************************************************************************)
EXTENDS Naturals, FiniteSets

CONSTANTS Matches,   \* match ids
          Players,   \* puuids
          Roster,    \* the players of each match, as GetDetails returns them
          Requests,  \* slots for concurrent requests
          NoMatch, NoPlayer, NoRequest, Absent,
          Faults     \* whether Riot and Postgres calls may fail

ASSUME RosterAssumption == Roster \in [Matches -> SUBSET Players]
ASSUME RequestsAssumption == IsFiniteSet(Requests)
ASSUME NoRequestAssumption == NoRequest \notin Requests
ASSUME NoMatchAssumption == NoMatch \notin Matches
ASSUME AbsentAssumption == /\ \A s \in SUBSET Players, k \in BOOLEAN :
                                  Absent # [players |-> s, kills |-> k]
                           /\ Absent \notin [players : SUBSET Players, kills : Nat]

VARIABLES matches,   \* committed rows of matches
          players,   \* committed rows of match_players, per match
          kills,     \* how often the kill events of a match are in match_kills
          writer,    \* the open transaction that has inserted the row of a match
          req        \* the requests being served

vars == <<matches, players, kills, writer, req>>
tables == <<matches, players, kills>>

Steps == {"history", "next", "details", "insert", "rows", "commit",
          "list", "read", "readkills", "answer"}

Row == [players : SUBSET Players, kills : Nat]
NoPage == [m \in Matches |-> Absent]

Idle == [step |-> "idle", player |-> NoPlayer, history |-> {}, todo |-> {},
         match |-> NoMatch, rows |-> {}, page |-> NoPage, failed |-> FALSE]

Request == [step : Steps \cup {"idle"},
            player : Players \cup {NoPlayer},
            history : SUBSET Matches,         \* what Riot listed
            todo : SUBSET Matches,            \* matches the loop has yet to visit
            match : Matches \cup {NoMatch},   \* the one it is at
            rows : SUBSET Players,            \* match_players rows of the transaction
            page : [Matches -> Row \cup {Absent}],   \* what was read back
            failed : BOOLEAN]                 \* an item was skipped because of an error

TypeOK == /\ matches \subseteq Matches
          /\ players \in [Matches -> SUBSET Players]
          /\ kills \in [Matches -> Nat]
          /\ writer \in [Matches -> Requests \cup {NoRequest}]
          /\ req \in [Requests -> Request]

Init == /\ matches = {}
        /\ players = [m \in Matches |-> {}]
        /\ kills = [m \in Matches |-> 0]
        /\ writer = [m \in Matches |-> NoRequest]
        /\ req = [r \in Requests |-> Idle]

---------------------------------------------------------------------------
At(r, step) == req[r].step = step
GoTo(r, step) == req' = [req EXCEPT ![r].step = step]
Skip(r) == req' = [req EXCEPT ![r].step = "next", ![r].rows = {}, ![r].failed = TRUE]
Fail(r) == Faults /\ req' = [req EXCEPT ![r] = Idle]

\* GET /valorant/matches/{puuid}, with force=true (SyncAndGet) or without (GetCached).
Begin(r, p, step) == /\ req[r] = Idle
                     /\ req' = [req EXCEPT ![r] = [Idle EXCEPT !.step = step, !.player = p]]
                     /\ UNCHANGED <<tables, writer>>

SyncAndGet(r, p) == Begin(r, p, "history")
GetCached(r, p) == Begin(r, p, "list")

Played(p) == {m \in Matches : p \in Roster[m]}

\* Riot lists recent matches of the player; which ones changes with time.
GetHistory(r) ==
    /\ At(r, "history")
    /\ \/ \E h \in SUBSET Played(req[r].player) :
              req' = [req EXCEPT ![r].step = "next", ![r].history = h, ![r].todo = h]
       \/ Fail(r)
    /\ UNCHANGED <<tables, writer>>

\* Variants with a bug, for the runs that show what the properties catch.
ExistsMatchBreak(r) ==   \* "break" instead of "continue"
    /\ At(r, "next")
    /\ \E m \in req[r].todo :
           \/ m \in matches /\ req' = [req EXCEPT ![r].todo = {}]
           \/ m \notin matches /\ req' = [req EXCEPT ![r].todo = @ \ {m}, ![r].match = m,
                                                     ![r].step = "details"]
    /\ UNCHANGED <<tables, writer>>
ExistsMatchIgnored(r) ==   \* the result of the check is not used
    /\ At(r, "next")
    /\ \E m \in req[r].todo : req' = [req EXCEPT ![r].todo = @ \ {m}, ![r].match = m,
                                                 ![r].step = "details"]
    /\ UNCHANGED <<tables, writer>>

\* The loop over the history: a match that is stored, or whose check fails, is passed over.
ExistsMatch(r) ==
    /\ At(r, "next")
    /\ \E m \in req[r].todo :
           \/ /\ m \in matches
              /\ req' = [req EXCEPT ![r].todo = @ \ {m}]
           \/ /\ m \notin matches
              /\ req' = [req EXCEPT ![r].todo = @ \ {m}, ![r].match = m, ![r].step = "details"]
           \/ /\ Faults
              /\ req' = [req EXCEPT ![r].todo = @ \ {m}, ![r].failed = TRUE]
    /\ UNCHANGED <<tables, writer>>

EndOfHistory(r) == /\ At(r, "next")
                   /\ req[r].todo = {}
                   /\ GoTo(r, "list")
                   /\ UNCHANGED <<tables, writer>>

GetDetails(r) == /\ At(r, "details")
                 /\ GoTo(r, "insert") \/ (Faults /\ Skip(r))
                 /\ UNCHANGED <<tables, writer>>

---------------------------------------------------------------------------
(* SaveMatch: one transaction per match.                                   *)

Released(r) == [m \in Matches |-> IF writer[m] = r THEN NoRequest ELSE writer[m]]

RollbackMissing(r) ==   \* no deferred Rollback
    Faults /\ Skip(r) /\ UNCHANGED <<tables, writer>>
RollbackByDeletes(r) ==   \* rows are taken back one by one, whether inserted or not
    /\ Faults
    /\ Skip(r)
    /\ kills' = [kills EXCEPT ![req[r].match] = @ - 1]
    /\ writer' = Released(r)
    /\ UNCHANGED <<matches, players>>

\* Any error on the way, and the deferred Rollback drops all rows.
Rollback(r) == /\ Faults
               /\ Skip(r)
               /\ writer' = Released(r)
               /\ UNCHANGED tables

InsertMatchAutocommit(r) ==   \* outside of the transaction
    /\ At(r, "insert")
    /\ matches' = matches \cup {req[r].match}
    /\ GoTo(r, "rows")
    /\ UNCHANGED <<players, kills, writer>>

\* INSERT INTO matches ... ON CONFLICT DO NOTHING: waits for an open transaction that
\* has inserted the same row, then inserts it or finds it there; goes on either way.
InsertMatch(r) ==
    LET m == req[r].match IN
    /\ At(r, "insert")
    /\ \/ m \in matches /\ UNCHANGED writer
       \/ m \notin matches /\ writer[m] = NoRequest /\ writer' = [writer EXCEPT ![m] = r]
    /\ GoTo(r, "rows")
    /\ UNCHANGED tables

InsertRowsPartial(r) ==   \* a player whose insert fails is passed over
    /\ At(r, "rows")
    /\ \E s \in SUBSET Roster[req[r].match] :
           req' = [req EXCEPT ![r].step = "commit", ![r].rows = s]
    /\ UNCHANGED <<tables, writer>>

\* The rows of match_players (ON CONFLICT DO NOTHING) and of match_kills.
InsertRows(r) == /\ At(r, "rows")
                 /\ req' = [req EXCEPT ![r].step = "commit", ![r].rows = Roster[req[r].match]]
                 /\ UNCHANGED <<tables, writer>>

Committed(r) == LET m == req[r].match IN
    /\ matches' = matches \cup {m}
    /\ players' = [players EXCEPT ![m] = @ \cup req[r].rows]
    /\ kills' = [kills EXCEPT ![m] = @ + 1]
    /\ writer' = Released(r)

\* A commit whose answer is lost is logged as a failure all the same.
Commit(r) == /\ At(r, "commit")
             /\ Committed(r)
             /\ \/ req' = [req EXCEPT ![r].step = "next", ![r].rows = {}]
                \/ Faults /\ Skip(r)

SaveMatchFails(r) == /\ At(r, "insert") \/ At(r, "rows") \/ At(r, "commit")
                     /\ Rollback(r)

---------------------------------------------------------------------------
(* GetMatchesByPUUID: the list, then players and kills of each match.      *)

NoRow == [players |-> {}, kills |-> 0]

ListMatches(r) ==
    /\ At(r, "list")
    /\ \/ LET found == {m \in matches : req[r].player \in players[m]} IN
          req' = [req EXCEPT ![r].step = "read", ![r].todo = found,
                             ![r].page = [m \in Matches |-> IF m \in found THEN NoRow ELSE Absent]]
       \/ Fail(r)
    /\ UNCHANGED <<tables, writer>>

GetPlayers(r) ==
    /\ At(r, "read")
    /\ \/ \E m \in req[r].todo :
              req' = [req EXCEPT ![r] = [@ EXCEPT !.step = "readkills", !.match = m,
                                                  !.todo = req[r].todo \ {m},
                                                  !.page[m].players = players[m]]]
       \/ Fail(r)
    /\ UNCHANGED <<tables, writer>>

GetKills(r) ==
    /\ At(r, "readkills")
    /\ \/ LET m == req[r].match IN
          req' = [req EXCEPT ![r] = [@ EXCEPT !.step = "read", !.page[m].kills = kills[m]]]
       \/ Fail(r)
    /\ UNCHANGED <<tables, writer>>

EndOfList(r) == /\ At(r, "read")
                /\ req[r].todo = {}
                /\ GoTo(r, "answer")
                /\ UNCHANGED <<tables, writer>>

Answer(r) == /\ At(r, "answer")
             /\ req' = [req EXCEPT ![r] = Idle]
             /\ UNCHANGED <<tables, writer>>

---------------------------------------------------------------------------
\* The process dies: open transactions are rolled back by Postgres.
Restart == /\ Faults
           /\ req' = [r \in Requests |-> Idle]
           /\ writer' = [m \in Matches |-> NoRequest]
           /\ UNCHANGED tables

Proceed(r) == \/ GetHistory(r) \/ ExistsMatch(r) \/ EndOfHistory(r) \/ GetDetails(r)
              \/ InsertMatch(r) \/ InsertRows(r) \/ Commit(r)
              \/ ListMatches(r) \/ GetPlayers(r) \/ GetKills(r) \/ EndOfList(r) \/ Answer(r)

Next == \/ \E r \in Requests : \/ Proceed(r) \/ SaveMatchFails(r)
                               \/ \E p \in Players : SyncAndGet(r, p) \/ GetCached(r, p)
        \/ Restart

Spec == Init /\ [][Next]_vars

\* A handler runs in a goroutine of its own; Postgres queues those who wait for
\* a row, so that each gets its turn.  No step is assumed to fail.
FairSpec == Spec /\ \A r \in Requests : WF_vars(Proceed(r)) /\ SF_vars(InsertMatch(r))

---------------------------------------------------------------------------
(* Properties.                                                             *)

\* A match is visible as a whole or not at all, and what was read of it once
\* is what will be read of it always.
Content(m) == IF m \in matches THEN [players |-> players[m], kills |-> kills[m] > 0]
                               ELSE Absent
Archive == INSTANCE MatchArchive WITH archive <- [m \in Matches |-> Content(m)]
ArchiveImplemented == Archive!Spec

Listed(r) == {m \in Matches : req[r].page[m] # Absent}

\* The page a request answers with has no torn match, although it was read
\* with several queries while other requests were writing.
PagesComplete ==
    \A r \in Requests : At(r, "answer") =>
        \A m \in Listed(r) : /\ req[r].page[m].players = Roster[m]
                             /\ req[r].page[m].kills > 0

\* A synchronisation in which nothing failed answers with every match that
\* Riot listed, whoever stored it.
SyncReturnsHistory ==
    \A r \in Requests :
        At(r, "answer") /\ ~ req[r].failed => req[r].history \subseteq Listed(r)

\* Repeated synchronisations never store kill events again: at worst each of
\* the requests that overlap at the first one does.
CopiesBounded == \A m \in Matches : kills[m] <= Cardinality(Requests)

\* Whoever waits for the row of a match waits for a request that is still writing that match
\* and that does not wait itself; once it is stored nobody can be waited for.
LocksHeldByWriters ==
    \A m \in Matches : writer[m] # NoRequest =>
        /\ At(writer[m], "rows") \/ At(writer[m], "commit")
        /\ req[writer[m]].match = m
        /\ m \notin matches

\* Every request is answered: waiting for another transaction ends.
RequestsAnswered == \A r \in Requests : req[r] # Idle ~> req[r] = Idle

\* "SaveMatch atomically stores the full match", which is "immutable once
\* stored": its kill events are there once.
KillsStoredOnce == \A m \in Matches : kills[m] <= 1
===========================================================================
