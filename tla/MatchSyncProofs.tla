-------------------------- MODULE MatchSyncProofs --------------------------
(***************************************************************************)
(* Stored matches are whole and immutable, and pages built from them are   *)
(* complete, for any number of matches, players and concurrent requests.   *)
(***************************************************************************)
EXTENDS MatchSync, FiniteSetTheorems, TLAPS

\* Rows of a match exist exactly when the match does, and then all of them.
Whole == \A m \in Matches : /\ m \in matches => players[m] = Roster[m] /\ kills[m] > 0
                            /\ m \notin matches => players[m] = {}

Saving(r) == req[r].step \in {"details", "insert", "rows", "commit"}
Reading(r) == req[r].step \in {"read", "readkills", "answer"}

\* The match a request is at, and the rows of its transaction.
Located(r) ==
    /\ Saving(r) => req[r].match \in Matches
    /\ At(r, "commit") => req[r].rows = Roster[req[r].match]
    /\ At(r, "readkills") => req[r].match \in Listed(r)

\* Where the matches of the history are while nothing has failed.
Accounted(r) == ~ req[r].failed =>
    /\ \A m \in req[r].history : req[r].player \in Roster[m]
    /\ At(r, "next") => req[r].history \subseteq req[r].todo \cup matches
    /\ Saving(r) => req[r].history \subseteq req[r].todo \cup {req[r].match} \cup matches
    /\ At(r, "history") => req[r].history = {}
    /\ At(r, "list") => req[r].history \subseteq matches
    /\ Reading(r) => req[r].history \subseteq Listed(r)

\* What of the page has been read already.
PageSoFar(r) == Reading(r) =>
    /\ req[r].todo \subseteq Listed(r)
    /\ At(r, "answer") => req[r].todo = {}
    /\ \A m \in Listed(r) :
          /\ m \in matches
          /\ m \notin req[r].todo => req[r].page[m].players = Roster[m]
          /\ m \notin req[r].todo /\ ~ (At(r, "readkills") /\ m = req[r].match)
                => req[r].page[m].kills > 0

Local(r) == Located(r) /\ Accounted(r) /\ PageSoFar(r)

IInv == TypeOK /\ Whole /\ \A r \in Requests : Local(r)

USE RosterAssumption

\* The tables are empty at first.
LEMMA InitIInv == Init => IInv
<1> SUFFICES ASSUME Init PROVE IInv
  OBVIOUS
<1>1. Idle \in Request
  BY DEF Idle, Request, NoPage, Row
<1>2. TypeOK
  BY <1>1 DEF Init, TypeOK
<1>3. Whole
  BY DEF Init, Whole
<1>4. \A r \in Requests : Local(r)
  BY DEF Init, Local, Located, Accounted, PageSoFar, At, Saving, Reading, Idle
<1> QED  BY <1>2, <1>3, <1>4 DEF IInv

(***************************************************************************)
(* A step of one request: what the other requests know stays true, since   *)
(* matches are only added.                                                 *)
(***************************************************************************)
LEMMA OneRequest ==
    ASSUME IInv, NEW r \in Requests, TypeOK', Whole', matches \subseteq matches',
           \A s \in Requests : s # r => req'[s] = req[s],
           Local(r)'
    PROVE  IInv'
<1> SUFFICES ASSUME NEW s \in Requests, s # r PROVE Local(s)'
  BY DEF IInv
<1>1. req'[s] = req[s] /\ Local(s)
  BY DEF IInv
<1>2. Listed(s)' = Listed(s)
  BY <1>1 DEF Listed
<1>3. Located(s)'
  BY <1>1, <1>2 DEF Local, Located, Saving, At
<1>4. Accounted(s)'
  BY <1>1, <1>2 DEF Local, Accounted, Saving, Reading, At
<1>5. PageSoFar(s)'
  BY <1>1, <1>2 DEF Local, PageSoFar, Reading, At
<1> QED  BY <1>3, <1>4, <1>5 DEF Local

\* Nothing is written but the request itself.
LEMMA QuietStep ==
    ASSUME IInv, NEW r \in Requests, UNCHANGED tables,
           writer' \in [Matches -> Requests \cup {NoRequest}],
           NEW q \in Request, req' = [req EXCEPT ![r] = q], Local(r)'
    PROVE  IInv'
<1>1. TypeOK'
  BY DEF IInv, TypeOK, tables
<1>2. Whole' /\ matches \subseteq matches'
  BY DEF IInv, Whole, tables
<1>3. \A s \in Requests : s # r => req'[s] = req[s]
  BY DEF IInv, TypeOK
<1> QED  BY <1>1, <1>2, <1>3, OneRequest

\* A request that ends knows nothing any more.
LEMMA IdleStep ==
    ASSUME IInv, NEW r \in Requests, UNCHANGED <<tables, writer>>,
           req' = [req EXCEPT ![r] = Idle]
    PROVE  IInv'
<1>1. Idle \in Request
  BY DEF Idle, Request, NoPage, Row
<1>2. req'[r] = Idle
  BY DEF IInv, TypeOK
<1>3. Local(r)'
  BY <1>2 DEF Local, Located, Accounted, PageSoFar, At, Saving, Reading, Idle
<1>4. writer' \in [Matches -> Requests \cup {NoRequest}]
  BY DEF IInv, TypeOK
<1> QED  BY <1>1, <1>3, <1>4, QuietStep

\* A match that is passed over is stored, or the request has failed.
LEMMA ExistsMatchIInv ==
    ASSUME IInv, NEW r \in Requests, ExistsMatch(r)
    PROVE  IInv'
<1>1. req[r] \in Request /\ Local(r) /\ UNCHANGED tables /\ req[r].step = "next"
  BY DEF ExistsMatch, At, IInv, TypeOK, tables
<1>2. writer' \in [Matches -> Requests \cup {NoRequest}]
  BY DEF ExistsMatch, IInv, TypeOK
<1>3. ASSUME NEW m \in req[r].todo,
             m \in matches, req' = [req EXCEPT ![r] = [req[r] EXCEPT !.todo = @ \ {m}]]
      PROVE  IInv'
  <2> DEFINE q == [req[r] EXCEPT !.todo = @ \ {m}]
  <2>1. q \in Request
    BY <1>1, <1>3 DEF Request, Steps
  <2>2. req'[r] = q
    BY <1>1, <1>3 DEF IInv, TypeOK
  <2>3. matches' = matches /\ Listed(r)' = {x \in Matches : q.page[x] # Absent}
    BY <1>1, <2>2 DEF Listed, tables
  <2>4. Located(r)'
    BY <1>1, <1>3, <2>2, <2>3 DEF Local, Located, At, Saving, Request
  <2>5. Accounted(r)'
    BY <1>1, <1>3, <2>2, <2>3 DEF Local, Accounted, At, Saving, Reading, Request, Listed
  <2>6. PageSoFar(r)'
    BY <1>1, <1>3, <2>2, <2>3 DEF Local, PageSoFar, At, Reading, Request, Listed
  <2> QED  BY <1>1, <1>2, <1>3, <2>1, <2>4, <2>5, <2>6, QuietStep DEF Local
<1>4. ASSUME NEW m \in req[r].todo,
             req' = [req EXCEPT ![r] = [req[r] EXCEPT !.todo = @ \ {m}, !.match = m, !.step = "details"]]
      PROVE  IInv'
  <2> DEFINE q == [req[r] EXCEPT !.todo = @ \ {m}, !.match = m, !.step = "details"]
  <2>1. q \in Request
    BY <1>1, <1>4 DEF Request, Steps
  <2>2. req'[r] = q
    BY <1>1, <1>4 DEF IInv, TypeOK
  <2>3. matches' = matches /\ Listed(r)' = {x \in Matches : q.page[x] # Absent}
    BY <1>1, <2>2 DEF Listed, tables
  <2>4. Located(r)'
    BY <1>1, <1>4, <2>2, <2>3 DEF Local, Located, At, Saving, Request
  <2>5. Accounted(r)'
    BY <1>1, <1>4, <2>2, <2>3 DEF Local, Accounted, At, Saving, Reading, Request, Listed
  <2>6. PageSoFar(r)'
    BY <1>1, <1>4, <2>2, <2>3 DEF Local, PageSoFar, At, Reading, Request, Listed
  <2> QED  BY <1>1, <1>2, <1>4, <2>1, <2>4, <2>5, <2>6, QuietStep DEF Local
<1>5. ASSUME NEW m \in req[r].todo,
             req' = [req EXCEPT ![r] = [req[r] EXCEPT !.todo = @ \ {m}, !.failed = TRUE]]
      PROVE  IInv'
  <2> DEFINE q == [req[r] EXCEPT !.todo = @ \ {m}, !.failed = TRUE]
  <2>1. q \in Request
    BY <1>1, <1>5 DEF Request, Steps
  <2>2. req'[r] = q
    BY <1>1, <1>5 DEF IInv, TypeOK
  <2>3. matches' = matches /\ Listed(r)' = {x \in Matches : q.page[x] # Absent}
    BY <1>1, <2>2 DEF Listed, tables
  <2>4. Located(r)'
    BY <1>1, <1>5, <2>2, <2>3 DEF Local, Located, At, Saving, Request
  <2>5. Accounted(r)'
    BY <1>1, <1>5, <2>2, <2>3 DEF Local, Accounted, At, Saving, Reading, Request, Listed
  <2>6. PageSoFar(r)'
    BY <1>1, <1>5, <2>2, <2>3 DEF Local, PageSoFar, At, Reading, Request, Listed
  <2> QED  BY <1>1, <1>2, <1>5, <2>1, <2>4, <2>5, <2>6, QuietStep DEF Local
<1> QED  BY <1>3, <1>4, <1>5 DEF ExistsMatch

\* A new request knows nothing yet.
LEMMA BeginIInv ==
    ASSUME IInv, NEW r \in Requests, NEW p \in Players, NEW step \in {"history", "list"},
           Begin(r, p, step)
    PROVE  IInv'
<1>1. req[r] \in Request /\ Local(r) /\ UNCHANGED tables /\ req[r] = Idle
  BY DEF Begin, At, IInv, TypeOK, tables
<1>2. writer' \in [Matches -> Requests \cup {NoRequest}]
  BY DEF Begin, IInv, TypeOK
<1>3. ASSUME req' = [req EXCEPT ![r] = [Idle EXCEPT !.step = step, !.player = p]]
      PROVE  IInv'
  <2> DEFINE q == [Idle EXCEPT !.step = step, !.player = p]
  <2>1. q \in Request
    BY <1>1, <1>3 DEF Request, Steps, Idle, NoPage, Row
  <2>2. req'[r] = q
    BY <1>1, <1>3 DEF IInv, TypeOK
  <2>3. matches' = matches /\ Listed(r)' = {x \in Matches : q.page[x] # Absent}
    BY <1>1, <2>2 DEF Listed, tables
  <2>4. Located(r)'
    BY <1>1, <1>3, <2>2, <2>3 DEF Local, Located, At, Saving, Idle
  <2>5. Accounted(r)'
    BY <1>1, <1>3, <2>2, <2>3 DEF Local, Accounted, At, Saving, Reading, Idle
  <2>6. PageSoFar(r)'
    BY <1>1, <1>3, <2>2, <2>3 DEF Local, PageSoFar, At, Reading, Idle
  <2> QED  BY <1>1, <1>2, <1>3, <2>1, <2>4, <2>5, <2>6, QuietStep DEF Local
<1> QED  BY <1>3 DEF Begin

\* The history has matches of the player only; all of them are yet to be visited.
LEMMA GetHistoryIInv ==
    ASSUME IInv, NEW r \in Requests, GetHistory(r)
    PROVE  IInv'
<1>1. req[r] \in Request /\ Local(r) /\ UNCHANGED tables /\ req[r].step = "history"
  BY DEF GetHistory, At, IInv, TypeOK, tables
<1>2. writer' \in [Matches -> Requests \cup {NoRequest}]
  BY DEF GetHistory, IInv, TypeOK
<1>3. ASSUME NEW h \in SUBSET Played(req[r].player),
             req' = [req EXCEPT ![r] = [req[r] EXCEPT !.step = "next", !.history = h, !.todo = h]]
      PROVE  IInv'
  <2> DEFINE q == [req[r] EXCEPT !.step = "next", !.history = h, !.todo = h]
  <2>0. /\ h \subseteq Matches
        /\ \A m \in h : req[r].player \in Roster[m]
    BY <1>3 DEF Played
  <2>1. q \in Request
    BY <1>1, <1>3, <2>0 DEF Request, Steps
  <2>2. req'[r] = q
    BY <1>1, <1>3 DEF IInv, TypeOK
  <2>3. matches' = matches /\ Listed(r)' = {x \in Matches : q.page[x] # Absent}
    BY <1>1, <2>2 DEF Listed, tables
  <2>4. Located(r)'
    BY <1>1, <1>3, <2>2, <2>3 DEF Local, Located, At, Saving, Request
  <2>5. Accounted(r)'
    BY <1>1, <1>3, <2>0, <2>2, <2>3 DEF Local, Accounted, At, Saving, Reading, Request, Listed
  <2>6. PageSoFar(r)'
    BY <1>1, <1>3, <2>2, <2>3 DEF Local, PageSoFar, At, Reading, Request, Listed
  <2> QED  BY <1>1, <1>2, <1>3, <2>1, <2>4, <2>5, <2>6, QuietStep DEF Local
<1>4. CASE Fail(r)
  BY <1>4, IdleStep DEF GetHistory, Fail
<1> QED  BY <1>3, <1>4 DEF GetHistory

\* All matches of the history are stored, or the request has failed.
LEMMA EndOfHistoryIInv ==
    ASSUME IInv, NEW r \in Requests, EndOfHistory(r)
    PROVE  IInv'
<1>1. req[r] \in Request /\ Local(r) /\ UNCHANGED tables /\ req[r].step = "next" /\ req[r].todo = {}
  BY DEF EndOfHistory, GoTo, At, IInv, TypeOK, tables
<1>2. writer' \in [Matches -> Requests \cup {NoRequest}]
  BY DEF EndOfHistory, GoTo, IInv, TypeOK
<1>3. ASSUME req' = [req EXCEPT ![r] = [req[r] EXCEPT !.step = "list"]]
      PROVE  IInv'
  <2> DEFINE q == [req[r] EXCEPT !.step = "list"]
  <2>1. q \in Request
    BY <1>1, <1>3 DEF Request, Steps
  <2>2. req'[r] = q
    BY <1>1, <1>3 DEF IInv, TypeOK
  <2>3. matches' = matches /\ Listed(r)' = {x \in Matches : q.page[x] # Absent}
    BY <1>1, <2>2 DEF Listed, tables
  <2>4. Located(r)'
    BY <1>1, <1>3, <2>2, <2>3 DEF Local, Located, At, Saving, Request
  <2>5. Accounted(r)'
    BY <1>1, <1>3, <2>2, <2>3 DEF Local, Accounted, At, Saving, Reading, Request, Listed
  <2>6. PageSoFar(r)'
    BY <1>1, <1>3, <2>2, <2>3 DEF Local, PageSoFar, At, Reading, Request, Listed
  <2> QED  BY <1>1, <1>2, <1>3, <2>1, <2>4, <2>5, <2>6, QuietStep DEF Local
<1> QED  BY <1>3 DEF EndOfHistory, GoTo

\* The match is to be saved, or the request has failed.
LEMMA GetDetailsIInv ==
    ASSUME IInv, NEW r \in Requests, GetDetails(r)
    PROVE  IInv'
<1>1. req[r] \in Request /\ Local(r) /\ UNCHANGED tables /\ req[r].step = "details"
  BY DEF GetDetails, GoTo, Skip, At, IInv, TypeOK, tables
<1>2. writer' \in [Matches -> Requests \cup {NoRequest}]
  BY DEF GetDetails, GoTo, Skip, IInv, TypeOK
<1>3. ASSUME req' = [req EXCEPT ![r] = [req[r] EXCEPT !.step = "insert"]]
      PROVE  IInv'
  <2> DEFINE q == [req[r] EXCEPT !.step = "insert"]
  <2>1. q \in Request
    BY <1>1, <1>3 DEF Request, Steps
  <2>2. req'[r] = q
    BY <1>1, <1>3 DEF IInv, TypeOK
  <2>3. matches' = matches /\ Listed(r)' = {x \in Matches : q.page[x] # Absent}
    BY <1>1, <2>2 DEF Listed, tables
  <2>4. Located(r)'
    BY <1>1, <1>3, <2>2, <2>3 DEF Local, Located, At, Saving, Request
  <2>5. Accounted(r)'
    BY <1>1, <1>3, <2>2, <2>3 DEF Local, Accounted, At, Saving, Reading, Request, Listed
  <2>6. PageSoFar(r)'
    BY <1>1, <1>3, <2>2, <2>3 DEF Local, PageSoFar, At, Reading, Request, Listed
  <2> QED  BY <1>1, <1>2, <1>3, <2>1, <2>4, <2>5, <2>6, QuietStep DEF Local
<1>4. ASSUME req' = [req EXCEPT ![r] = [req[r] EXCEPT !.step = "next", !.rows = {}, !.failed = TRUE]]
      PROVE  IInv'
  <2> DEFINE q == [req[r] EXCEPT !.step = "next", !.rows = {}, !.failed = TRUE]
  <2>1. q \in Request
    BY <1>1, <1>4 DEF Request, Steps
  <2>2. req'[r] = q
    BY <1>1, <1>4 DEF IInv, TypeOK
  <2>3. matches' = matches /\ Listed(r)' = {x \in Matches : q.page[x] # Absent}
    BY <1>1, <2>2 DEF Listed, tables
  <2>4. Located(r)'
    BY <1>1, <1>4, <2>2, <2>3 DEF Local, Located, At, Saving, Request
  <2>5. Accounted(r)'
    BY <1>1, <1>4, <2>2, <2>3 DEF Local, Accounted, At, Saving, Reading, Request, Listed
  <2>6. PageSoFar(r)'
    BY <1>1, <1>4, <2>2, <2>3 DEF Local, PageSoFar, At, Reading, Request, Listed
  <2> QED  BY <1>1, <1>2, <1>4, <2>1, <2>4, <2>5, <2>6, QuietStep DEF Local
<1> QED  BY <1>3, <1>4 DEF GetDetails, GoTo, Skip

\* Only the lock on the row changes hands.
LEMMA InsertMatchIInv ==
    ASSUME IInv, NEW r \in Requests, InsertMatch(r)
    PROVE  IInv'
<1>1. req[r] \in Request /\ Local(r) /\ UNCHANGED tables /\ req[r].step = "insert"
  BY DEF InsertMatch, GoTo, At, IInv, TypeOK, tables
<1>2. writer' \in [Matches -> Requests \cup {NoRequest}]
  BY DEF InsertMatch, GoTo, IInv, TypeOK
<1>3. ASSUME req' = [req EXCEPT ![r] = [req[r] EXCEPT !.step = "rows"]]
      PROVE  IInv'
  <2> DEFINE q == [req[r] EXCEPT !.step = "rows"]
  <2>1. q \in Request
    BY <1>1, <1>3 DEF Request, Steps
  <2>2. req'[r] = q
    BY <1>1, <1>3 DEF IInv, TypeOK
  <2>3. matches' = matches /\ Listed(r)' = {x \in Matches : q.page[x] # Absent}
    BY <1>1, <2>2 DEF Listed, tables
  <2>4. Located(r)'
    BY <1>1, <1>3, <2>2, <2>3 DEF Local, Located, At, Saving, Request
  <2>5. Accounted(r)'
    BY <1>1, <1>3, <2>2, <2>3 DEF Local, Accounted, At, Saving, Reading, Request, Listed
  <2>6. PageSoFar(r)'
    BY <1>1, <1>3, <2>2, <2>3 DEF Local, PageSoFar, At, Reading, Request, Listed
  <2> QED  BY <1>1, <1>2, <1>3, <2>1, <2>4, <2>5, <2>6, QuietStep DEF Local
<1> QED  BY <1>3 DEF InsertMatch, GoTo

\* The transaction has all players of the match.
LEMMA InsertRowsIInv ==
    ASSUME IInv, NEW r \in Requests, InsertRows(r)
    PROVE  IInv'
<1>1. req[r] \in Request /\ Local(r) /\ UNCHANGED tables /\ req[r].step = "rows"
  BY DEF InsertRows, GoTo, At, IInv, TypeOK, tables
<1>2. writer' \in [Matches -> Requests \cup {NoRequest}]
  BY DEF InsertRows, GoTo, IInv, TypeOK
<1>3. ASSUME req' = [req EXCEPT ![r] = [req[r] EXCEPT !.step = "commit", !.rows = Roster[req[r].match]]]
      PROVE  IInv'
  <2> DEFINE q == [req[r] EXCEPT !.step = "commit", !.rows = Roster[req[r].match]]
  <2>1. q \in Request
    BY <1>1, <1>3 DEF Request, Steps, Local, Located, Saving
  <2>2. req'[r] = q
    BY <1>1, <1>3 DEF IInv, TypeOK
  <2>3. matches' = matches /\ Listed(r)' = {x \in Matches : q.page[x] # Absent}
    BY <1>1, <2>2 DEF Listed, tables
  <2>4. Located(r)'
    BY <1>1, <1>3, <2>2, <2>3 DEF Local, Located, At, Saving, Request
  <2>5. Accounted(r)'
    BY <1>1, <1>3, <2>2, <2>3 DEF Local, Accounted, At, Saving, Reading, Request, Listed
  <2>6. PageSoFar(r)'
    BY <1>1, <1>3, <2>2, <2>3 DEF Local, PageSoFar, At, Reading, Request, Listed
  <2> QED  BY <1>1, <1>2, <1>3, <2>1, <2>4, <2>5, <2>6, QuietStep DEF Local
<1> QED  BY <1>3 DEF InsertRows, GoTo

\* A transaction that fails leaves no row, and the request has failed.
LEMMA SaveMatchFailsIInv ==
    ASSUME IInv, NEW r \in Requests, SaveMatchFails(r)
    PROVE  IInv'
<1>1. req[r] \in Request /\ Local(r) /\ UNCHANGED tables /\ req[r].step \in {"insert", "rows", "commit"}
  BY DEF SaveMatchFails, Rollback, Skip, Released, At, IInv, TypeOK, tables
<1>2. writer' \in [Matches -> Requests \cup {NoRequest}]
  BY DEF SaveMatchFails, Rollback, Skip, Released, IInv, TypeOK
<1>3. ASSUME req' = [req EXCEPT ![r] = [req[r] EXCEPT !.step = "next", !.rows = {}, !.failed = TRUE]]
      PROVE  IInv'
  <2> DEFINE q == [req[r] EXCEPT !.step = "next", !.rows = {}, !.failed = TRUE]
  <2>1. q \in Request
    BY <1>1, <1>3 DEF Request, Steps
  <2>2. req'[r] = q
    BY <1>1, <1>3 DEF IInv, TypeOK
  <2>3. matches' = matches /\ Listed(r)' = {x \in Matches : q.page[x] # Absent}
    BY <1>1, <2>2 DEF Listed, tables
  <2>4. Located(r)'
    BY <1>1, <1>3, <2>2, <2>3 DEF Local, Located, At, Saving, Request
  <2>5. Accounted(r)'
    BY <1>1, <1>3, <2>2, <2>3 DEF Local, Accounted, At, Saving, Reading, Request, Listed
  <2>6. PageSoFar(r)'
    BY <1>1, <1>3, <2>2, <2>3 DEF Local, PageSoFar, At, Reading, Request, Listed
  <2> QED  BY <1>1, <1>2, <1>3, <2>1, <2>4, <2>5, <2>6, QuietStep DEF Local
<1> QED  BY <1>3 DEF SaveMatchFails, Rollback, Skip, Released

\* What is listed is stored, and everything stored of the player is listed.
LEMMA ListMatchesIInv ==
    ASSUME IInv, NEW r \in Requests, ListMatches(r)
    PROVE  IInv'
<1> DEFINE found == {m \in matches : req[r].player \in players[m]}
           q == [req[r] EXCEPT !.step = "read", !.todo = found,
                               !.page = [m \in Matches |-> IF m \in found THEN NoRow ELSE Absent]]
<1>1. /\ req[r] \in Request /\ Local(r) /\ UNCHANGED tables /\ req[r].step = "list"
      /\ Whole /\ TypeOK /\ writer' \in [Matches -> Requests \cup {NoRequest}]
  BY DEF ListMatches, At, IInv, TypeOK, tables
<1>2. ASSUME req' = [req EXCEPT ![r] = q]  PROVE IInv'
  <2>1. NoRow \in Row /\ found \in SUBSET Matches
    BY <1>1 DEF NoRow, Row, TypeOK
  <2>2. q \in Request
    BY <1>1, <2>1 DEF Request, Steps
  <2>3. req'[r] = q /\ matches' = matches
    BY <1>1, <1>2 DEF TypeOK, tables
  <2>4. Listed(r)' = found
    BY <1>1, <2>1, <2>3, AbsentAssumption DEF Listed, Request, Row
  <2>5. Located(r)'
    BY <1>1, <2>3 DEF Located, At, Saving, Request
  <2>6. ~ req[r].failed => req[r].history \subseteq found
    BY <1>1, <2>1 DEF Local, Accounted, At, Whole, TypeOK
  <2>7. Accounted(r)'
    BY <1>1, <2>3, <2>4, <2>6 DEF Local, Accounted, At, Saving, Reading, Request
  <2>8. PageSoFar(r)'
    BY <1>1, <2>3, <2>4 DEF PageSoFar, At, Reading, Request
  <2> QED  BY <1>1, <1>2, <2>2, <2>5, <2>7, <2>8, QuietStep DEF Local
<1> QED  BY <1>2, IdleStep DEF ListMatches, Fail

\* The players of a listed match are complete.
LEMMA GetPlayersIInv ==
    ASSUME IInv, NEW r \in Requests, GetPlayers(r)
    PROVE  IInv'
<1>1. /\ req[r] \in Request /\ Local(r) /\ UNCHANGED tables /\ req[r].step = "read"
      /\ Whole /\ TypeOK /\ writer' \in [Matches -> Requests \cup {NoRequest}]
  BY DEF GetPlayers, At, IInv, TypeOK, tables
<1>2. ASSUME \E m \in req[r].todo :
                req' = [req EXCEPT ![r] = [@ EXCEPT !.step = "readkills", !.match = m, !.todo = req[r].todo \ {m},
                                                  !.page[m].players = players[m]]]
      PROVE  IInv'
  <2>0. PICK m \in req[r].todo :
                req' = [req EXCEPT ![r] = [@ EXCEPT !.step = "readkills", !.match = m, !.todo = req[r].todo \ {m},
                                                  !.page[m].players = players[m]]]
    BY <1>2
  <2> DEFINE q == [req[r] EXCEPT !.step = "readkills", !.match = m, !.todo = req[r].todo \ {m},
                                                   !.page[m].players = players[m]]
  <2>1. /\ m \in Matches /\ m \in Listed(r)
        /\ req[r].page[m] \in Row /\ players[m] \in SUBSET Players
    BY <1>1, <2>0 DEF Local, PageSoFar, Located, Reading, At, Listed, Request, TypeOK
  <2>2. q \in Request
    BY <1>1, <2>1 DEF Request, Steps, TypeOK, Row
  <2>3. req'[r] = q /\ matches' = matches
    BY <1>1, <2>0 DEF TypeOK, tables
  <2>4. Listed(r)' = Listed(r)
    BY <1>1, <2>1, <2>2, <2>3, AbsentAssumption DEF Listed, Request, Row
  <2>5. Located(r)'
    BY <1>1, <2>1, <2>3, <2>4 DEF Located, At, Saving, Request
  <2>6. Accounted(r)'
    BY <1>1, <2>3, <2>4 DEF Local, Accounted, At, Saving, Reading, Request
  <2>7. PageSoFar(r)'
    BY <1>1, <2>1, <2>3, <2>4 DEF Local, PageSoFar, At, Reading, Request, Whole
  <2> QED  BY <1>1, <2>0, <2>2, <2>5, <2>6, <2>7, QuietStep DEF Local
<1>3. CASE Fail(r)
  BY <1>3, IdleStep DEF GetPlayers, Fail
<1> QED  BY <1>2, <1>3 DEF GetPlayers

\* The match that has been read has its kill events.
LEMMA GetKillsIInv ==
    ASSUME IInv, NEW r \in Requests, GetKills(r)
    PROVE  IInv'
<1>1. /\ req[r] \in Request /\ Local(r) /\ UNCHANGED tables /\ req[r].step = "readkills"
      /\ Whole /\ TypeOK /\ writer' \in [Matches -> Requests \cup {NoRequest}]
  BY DEF GetKills, At, IInv, TypeOK, tables
<1>2. ASSUME 
             req' = [req EXCEPT ![r] = [req[r] EXCEPT !.step = "read", !.page[req[r].match].kills = kills[req[r].match]]]
      PROVE  IInv'
  <2> DEFINE q == [req[r] EXCEPT !.step = "read", !.page[req[r].match].kills = kills[req[r].match]]
  <2>1. /\ req[r].match \in Matches /\ req[r].match \in Listed(r)
        /\ req[r].page[req[r].match] \in Row /\ kills[req[r].match] \in Nat
    BY <1>1, <1>2 DEF Local, PageSoFar, Located, Reading, At, Listed, Request, TypeOK
  <2>2. q \in Request
    BY <1>1, <2>1 DEF Request, Steps, TypeOK, Row
  <2>3. req'[r] = q /\ matches' = matches
    BY <1>1, <1>2 DEF TypeOK, tables
  <2>4. Listed(r)' = Listed(r)
    BY <1>1, <2>1, <2>2, <2>3, AbsentAssumption DEF Listed, Request, Row
  <2>5. Located(r)'
    BY <1>1, <2>1, <2>3, <2>4 DEF Located, At, Saving, Request
  <2>6. Accounted(r)'
    BY <1>1, <2>3, <2>4 DEF Local, Accounted, At, Saving, Reading, Request
  <2>7. PageSoFar(r)'
    BY <1>1, <2>1, <2>3, <2>4 DEF Local, PageSoFar, At, Reading, Request, Whole
  <2> QED  BY <1>1, <1>2, <2>2, <2>5, <2>6, <2>7, QuietStep DEF Local
<1>3. CASE Fail(r)
  BY <1>3, IdleStep DEF GetKills, Fail
<1> QED  BY <1>1, <1>2, <1>3 DEF GetKills

\* Every listed match has been read.
LEMMA EndOfListIInv ==
    ASSUME IInv, NEW r \in Requests, EndOfList(r)
    PROVE  IInv'
<1>1. req[r] \in Request /\ Local(r) /\ UNCHANGED tables /\ req[r].step = "read" /\ req[r].todo = {}
  BY DEF EndOfList, GoTo, At, IInv, TypeOK, tables
<1>2. writer' \in [Matches -> Requests \cup {NoRequest}]
  BY DEF EndOfList, GoTo, IInv, TypeOK
<1>3. ASSUME req' = [req EXCEPT ![r] = [req[r] EXCEPT !.step = "answer"]]
      PROVE  IInv'
  <2> DEFINE q == [req[r] EXCEPT !.step = "answer"]
  <2>1. q \in Request
    BY <1>1, <1>3 DEF Request, Steps
  <2>2. req'[r] = q
    BY <1>1, <1>3 DEF IInv, TypeOK
  <2>3. matches' = matches /\ Listed(r)' = {x \in Matches : q.page[x] # Absent}
    BY <1>1, <2>2 DEF Listed, tables
  <2>4. Located(r)'
    BY <1>1, <1>3, <2>2, <2>3 DEF Local, Located, At, Saving, Request
  <2>5. Accounted(r)'
    BY <1>1, <1>3, <2>2, <2>3 DEF Local, Accounted, At, Saving, Reading, Request, Listed
  <2>6. PageSoFar(r)'
    BY <1>1, <1>3, <2>2, <2>3 DEF Local, PageSoFar, At, Reading, Request, Listed
  <2> QED  BY <1>1, <1>2, <1>3, <2>1, <2>4, <2>5, <2>6, QuietStep DEF Local
<1> QED  BY <1>3 DEF EndOfList, GoTo

\* A committed transaction adds the whole match, or rows that are there already.
LEMMA CommitIInv ==
    ASSUME IInv, NEW r \in Requests, Commit(r)
    PROVE  IInv'
<1> DEFINE m == req[r].match
<1>1. /\ req[r] \in Request /\ Local(r) /\ req[r].step = "commit" /\ Whole /\ TypeOK
      /\ m \in Matches /\ req[r].rows = Roster[m]
  BY DEF Commit, At, IInv, TypeOK, Local, Located, Saving
<1>2. /\ matches' = matches \cup {m}
      /\ players' = [players EXCEPT ![m] = @ \cup Roster[m]]
      /\ kills' = [kills EXCEPT ![m] = @ + 1]
      /\ writer' = Released(r)
  BY <1>1 DEF Commit, Committed
<1>3. PICK q \in Request : /\ req' = [req EXCEPT ![r] = q]
                           /\ q.step = "next" /\ q.todo = req[r].todo /\ q.player = req[r].player
                           /\ q.history = req[r].history /\ (q.failed \/ q.failed = req[r].failed)
  <2> DEFINE done == [req[r] EXCEPT !.step = "next", !.rows = {}]
             skipped == [req[r] EXCEPT !.step = "next", !.rows = {}, !.failed = TRUE]
  <2>1. done \in Request /\ skipped \in Request
    BY <1>1 DEF Request, Steps
  <2>2. /\ done.step = "next" /\ done.todo = req[r].todo /\ done.player = req[r].player
        /\ done.history = req[r].history /\ done.failed = req[r].failed
        /\ skipped.step = "next" /\ skipped.todo = req[r].todo /\ skipped.player = req[r].player
        /\ skipped.history = req[r].history /\ skipped.failed
    BY <1>1 DEF Request
  <2>3. req' = [req EXCEPT ![r] = done] \/ req' = [req EXCEPT ![r] = skipped]
    BY DEF Commit, Skip
  <2> HIDE DEF done, skipped
  <2> QED  BY <2>1, <2>2, <2>3
<1>4. req'[r] = q /\ \A s \in Requests : s # r => req'[s] = req[s]
  BY <1>1, <1>3 DEF TypeOK
<1>5. Released(r) \in [Matches -> Requests \cup {NoRequest}]
  BY <1>1 DEF TypeOK, Released
<1>6. TypeOK'
  <2>1. matches' \subseteq Matches /\ writer' \in [Matches -> Requests \cup {NoRequest}]
    BY <1>1, <1>2, <1>5 DEF TypeOK
  <2>2. players' \in [Matches -> SUBSET Players] /\ kills' \in [Matches -> Nat]
    BY <1>1, <1>2 DEF TypeOK
  <2>3. req' \in [Requests -> Request]
    BY <1>1, <1>3 DEF TypeOK
  <2> QED  BY <2>1, <2>2, <2>3 DEF TypeOK
<1>7. Whole'
  BY <1>1, <1>2 DEF TypeOK, Whole
<1>8. Local(r)'
  BY <1>1, <1>2, <1>3, <1>4 DEF Local, Located, Accounted, PageSoFar, At, Saving, Reading
<1> QED  BY <1>2, <1>4, <1>6, <1>7, <1>8, OneRequest

\* An answered request is idle again.
LEMMA AnswerIInv ==
    ASSUME IInv, NEW r \in Requests, Answer(r)
    PROVE  IInv'
BY IdleStep DEF Answer

\* Nothing but the requests and the locks is lost.
LEMMA RestartIInv ==
    ASSUME IInv, Restart
    PROVE  IInv'
<1>1. Idle \in Request
  BY DEF Idle, Request, NoPage, Row
<1>2. TypeOK'
  BY <1>1 DEF Restart, IInv, TypeOK, tables
<1>3. Whole'
  BY DEF Restart, IInv, Whole, tables
<1>4. \A r \in Requests : Local(r)'
  BY DEF Restart, Local, Located, Accounted, PageSoFar, At, Saving, Reading, Idle
<1> QED  BY <1>2, <1>3, <1>4 DEF IInv

\* The strengthening is an invariant of every behaviour.
THEOREM Inductive == Spec => []IInv
<1>1. IInv /\ [Next]_vars => IInv'
  <2> SUFFICES ASSUME IInv, [Next]_vars  PROVE IInv'
    OBVIOUS
  <2>1. CASE UNCHANGED vars
    BY <2>1 DEF vars, tables, IInv, TypeOK, Whole, Local, Located, Accounted, PageSoFar, At,
                Saving, Reading, Listed
  <2>2. ASSUME NEW r \in Requests, Proceed(r)  PROVE IInv'
    BY <2>2, GetHistoryIInv, ExistsMatchIInv, EndOfHistoryIInv, GetDetailsIInv, InsertMatchIInv,
       InsertRowsIInv, CommitIInv, ListMatchesIInv, GetPlayersIInv, GetKillsIInv, EndOfListIInv,
       AnswerIInv DEF Proceed
  <2>3. ASSUME NEW r \in Requests, SaveMatchFails(r)  PROVE IInv'
    BY <2>3, SaveMatchFailsIInv
  <2>4. ASSUME NEW r \in Requests, NEW p \in Players, SyncAndGet(r, p) \/ GetCached(r, p)
        PROVE  IInv'
    BY <2>4, BeginIInv DEF SyncAndGet, GetCached
  <2>5. CASE Restart
    BY <2>5, RestartIInv
  <2> QED  BY <2>1, <2>2, <2>3, <2>4, <2>5 DEF Next
<1> QED  BY <1>1, InitIInv, PTL DEF Spec

\* The variables keep their types.
THEOREM TypeCorrect == Spec => []TypeOK
BY Inductive, PTL DEF IInv

\* A page never contains a torn match.
THEOREM PagesAreComplete == Spec => []PagesComplete
<1>1. IInv => PagesComplete
  BY DEF IInv, Local, PageSoFar, PagesComplete, At, Reading
<1> QED  BY <1>1, Inductive, PTL

\* A synchronisation without errors answers with the whole history Riot listed.
THEOREM SyncsReturnHistory == Spec => []SyncReturnsHistory
<1>1. IInv => SyncReturnsHistory
  BY DEF IInv, Local, Accounted, SyncReturnsHistory, At, Reading
<1> QED  BY <1>1, Inductive, PTL

(***************************************************************************)
(* Whoever writes a match holds its row, or has found it stored.           *)
(***************************************************************************)
Writing(r) == At(r, "rows") \/ At(r, "commit")

Locks == /\ LocksHeldByWriters
         /\ \A r \in Requests : Writing(r) => req[r].match \in matches \/ writer[req[r].match] = r

\* A request that was not writing and does not begin to leaves the locks of others alone.
LEMMA LocksStep ==
    ASSUME IInv, Locks, NEW r \in Requests, ~Writing(r), ~Writing(r)', UNCHANGED <<tables, writer>>,
           \A s \in Requests : s # r => req'[s] = req[s]
    PROVE  Locks'
<1>1. matches' = matches /\ writer' = writer /\ writer \in [Matches -> Requests \cup {NoRequest}]
  BY DEF tables, IInv, TypeOK
<1>2. \A m \in Matches : writer[m] # NoRequest => writer[m] \in Requests /\ writer[m] # r
  BY <1>1 DEF Locks, LocksHeldByWriters, Writing
<1>3. LocksHeldByWriters'
  BY <1>1, <1>2 DEF Locks, LocksHeldByWriters, At
<1>4. \A s \in Requests : Writing(s)' => s # r /\ Writing(s)
  BY DEF Writing, At
<1> QED  BY <1>1, <1>3, <1>4 DEF Locks

\* The transaction of a request is over: its lock is gone, whatever it was on.
LEMMA LocksReleased ==
    ASSUME IInv, Locks, NEW r \in Requests, Writing(r), writer' = Released(r),
           matches' \in {matches, matches \cup {req[r].match}},
           NEW q, q.step = "next", req' = [req EXCEPT ![r] = q]
    PROVE  Locks'
<1>1. \A s \in Requests : req'[s] = IF s = r THEN q ELSE req[s]
  BY DEF IInv, TypeOK
<1>2. writer \in [Matches -> Requests \cup {NoRequest}]
  BY DEF IInv, TypeOK
<1>3. \A m \in Matches : writer'[m] = IF writer[m] = r THEN NoRequest ELSE writer[m]
  BY DEF Released
<1>4. ASSUME NEW m \in Matches, writer'[m] # NoRequest
      PROVE  /\ writer'[m] = writer[m] /\ writer[m] \in Requests /\ writer[m] # r
             /\ m # req[r].match
  <2>1. writer'[m] = writer[m] /\ writer[m] \in Requests /\ writer[m] # r
    BY <1>2, <1>3, <1>4
  <2>2. m \notin matches
    BY <2>1, <1>4 DEF Locks, LocksHeldByWriters
  <2> QED  BY <2>1, <2>2 DEF Locks
<1>5. LocksHeldByWriters'
  BY <1>1, <1>4 DEF Locks, LocksHeldByWriters, At
<1>6. ASSUME NEW s \in Requests, Writing(s)'
      PROVE  req'[s].match \in matches' \/ writer'[req'[s].match] = s
  <2>1. s # r /\ Writing(s) /\ req'[s] = req[s]
    BY <1>1, <1>6 DEF Writing, At
  <2>2. req[s].match \in Matches
    BY <2>1 DEF IInv, Local, Located, Saving, Writing, At
  <2> QED  BY <1>3, <2>1, <2>2 DEF Locks
<1> QED  BY <1>5, <1>6 DEF Locks

LEMMA InsertLocks == ASSUME IInv, Locks, NEW r \in Requests, InsertMatch(r) PROVE Locks'
<1> DEFINE m == req[r].match
<1>1. m \in Matches /\ ~Writing(r)
  BY DEF InsertMatch, IInv, Local, Located, Saving, Writing, At
<1>2. /\ \A s \in Requests : s # r => req'[s] = req[s]
      /\ req'[r].step = "rows" /\ req'[r].match = m
  BY DEF InsertMatch, GoTo, IInv, TypeOK, Request
<1>3. matches' = matches /\ writer \in [Matches -> Requests \cup {NoRequest}]
  BY DEF InsertMatch, tables, IInv, TypeOK
<1>4. \/ m \in matches /\ writer' = writer
      \/ m \notin matches /\ writer[m] = NoRequest /\ writer' = [writer EXCEPT ![m] = r]
  BY DEF InsertMatch
<1> HIDE DEF m
<1>5. \A n \in Matches : writer[n] # NoRequest => writer[n] \in Requests /\ writer[n] # r
  BY <1>1, <1>3 DEF Locks, LocksHeldByWriters, Writing
<1>6. LocksHeldByWriters'
  <2> SUFFICES ASSUME NEW n \in Matches, writer'[n] # NoRequest
               PROVE  /\ req'[writer'[n]].step \in {"rows", "commit"}
                      /\ req'[writer'[n]].match = n /\ n \notin matches'
    BY DEF LocksHeldByWriters, At
  <2>1. CASE writer'[n] = writer[n]
    BY <1>2, <1>3, <1>5, <2>1 DEF Locks, LocksHeldByWriters, At
  <2>2. CASE writer'[n] # writer[n]
    <3>1. n = m /\ writer'[n] = r /\ m \notin matches
      BY <1>1, <1>3, <1>4, <2>2
    <3> QED  BY <1>2, <1>3, <3>1 DEF At
  <2> QED  BY <2>1, <2>2
<1>7. ASSUME NEW s \in Requests, Writing(s)'
      PROVE  req'[s].match \in matches' \/ writer'[req'[s].match] = s
  <2>1. CASE s = r
    BY <1>1, <1>2, <1>3, <1>4, <2>1
  <2>2. CASE s # r
    <3>1. Writing(s) /\ req'[s] = req[s] /\ req[s].match \in Matches
      BY <1>2, <1>7, <2>2 DEF IInv, Local, Located, Saving, Writing, At
    <3> QED  BY <1>1, <1>3, <1>4, <3>1, NoRequestAssumption DEF Locks
  <2> QED  BY <2>1, <2>2
<1> QED  BY <1>6, <1>7 DEF Locks

LEMMA RowsLocks == ASSUME IInv, Locks, NEW r \in Requests, InsertRows(r) PROVE Locks'
<1>1. /\ \A s \in Requests : req'[s].match = req[s].match /\ (s # r => req'[s] = req[s])
      /\ req[r].step = "rows" /\ req'[r].step = "commit"
  BY DEF InsertRows, At, IInv, TypeOK, Request
<1>2. matches' = matches /\ writer' = writer /\ writer \in [Matches -> Requests \cup {NoRequest}]
  BY DEF InsertRows, tables, IInv, TypeOK
<1>3. \A s \in Requests : Writing(s)' <=> Writing(s)
  BY <1>1 DEF Writing, At
<1> QED  BY <1>1, <1>2, <1>3 DEF Locks, LocksHeldByWriters, Writing, At

LEMMA NextLocks == IInv /\ Locks /\ [Next]_vars => Locks'
<1> SUFFICES ASSUME IInv, Locks, [Next]_vars PROVE Locks'
  OBVIOUS
<1>0. \A r \in Requests : req[r] \in Request
  BY DEF IInv, TypeOK
<1>1. ASSUME NEW r \in Requests, UNCHANGED <<tables, writer>>, ~Writing(r),
             NEW q, req' = [req EXCEPT ![r] = q], q.step \notin {"rows", "commit"}
      PROVE  Locks'
  <2>1. req'[r] = q /\ \A s \in Requests : s # r => req'[s] = req[s]
    BY <1>1 DEF IInv, TypeOK
  <2> QED  BY <1>1, <2>1, LocksStep DEF Writing, At
<1>2. ASSUME NEW r \in Requests, Fail(r) \/ Answer(r), UNCHANGED <<tables, writer>>, ~Writing(r)
      PROVE  Locks'
  BY <1>1, <1>2 DEF Fail, Answer, Idle
<1>3. ASSUME NEW r \in Requests, Proceed(r), ~InsertMatch(r), ~InsertRows(r), ~Commit(r) PROVE Locks'
  <2>1. ~Writing(r) /\ UNCHANGED <<tables, writer>>
    BY <1>3 DEF Proceed, Writing, At, GetHistory, ExistsMatch, EndOfHistory, GetDetails, ListMatches,
       GetPlayers, GetKills, EndOfList, Answer, tables
  <2>2. CASE GetHistory(r)
    <3>1. ASSUME NEW h, req' = [req EXCEPT ![r] = [req[r] EXCEPT !.step = "next", !.history = h, !.todo = h]]
          PROVE  Locks'
      <4>1. [req[r] EXCEPT !.step = "next", !.history = h, !.todo = h].step = "next"
        BY <1>0 DEF Request
      <4> QED  BY <1>1, <2>1, <3>1, <4>1
    <3> QED  BY <1>2, <2>1, <2>2, <3>1 DEF GetHistory
  <2>3. CASE ExistsMatch(r)
    <3>0. PICK m \in req[r].todo :
              \/ req' = [req EXCEPT ![r] = [req[r] EXCEPT !.todo = @ \ {m}]]
              \/ req' = [req EXCEPT ![r] = [req[r] EXCEPT !.todo = @ \ {m}, !.failed = TRUE]]
              \/ req' = [req EXCEPT ![r] = [req[r] EXCEPT !.todo = @ \ {m}, !.match = m, !.step = "details"]]
      BY <2>3 DEF ExistsMatch
    <3>1. /\ [req[r] EXCEPT !.todo = @ \ {m}].step = "next"
          /\ [req[r] EXCEPT !.todo = @ \ {m}, !.failed = TRUE].step = "next"
          /\ [req[r] EXCEPT !.todo = @ \ {m}, !.match = m, !.step = "details"].step = "details"
      BY <1>0, <2>3 DEF ExistsMatch, At, Request
    <3> QED  BY <1>1, <2>1, <3>0, <3>1
  <2>4. ASSUME NEW step \in {"list", "insert", "answer"}, GoTo(r, step) PROVE Locks'
    <3>1. [req[r] EXCEPT !.step = step].step = step
      BY <1>0 DEF Request
    <3> QED  BY <1>1, <2>1, <2>4, <3>1 DEF GoTo
  <2>5. ASSUME Skip(r) PROVE Locks'
    <3> DEFINE q == [req[r] EXCEPT !.step = "next", !.rows = {}, !.failed = TRUE]
    <3>1. req' = [req EXCEPT ![r] = q] /\ q.step = "next"
      BY <1>0, <2>5 DEF Skip, Request
    <3> HIDE DEF q
    <3> QED  BY <1>1, <2>1, <3>1
  <2>6. CASE ListMatches(r)
    <3>1. ASSUME NEW t, NEW page,
                 req' = [req EXCEPT ![r] = [req[r] EXCEPT !.step = "read", !.todo = t, !.page = page]]
          PROVE  Locks'
      <4>1. [req[r] EXCEPT !.step = "read", !.todo = t, !.page = page].step = "read"
        BY <1>0 DEF Request
      <4> QED  BY <1>1, <2>1, <3>1, <4>1
    <3> DEFINE found == {m \in matches : req[r].player \in players[m]}
               page == [m \in Matches |-> IF m \in found THEN NoRow ELSE Absent]
    <3>2. \/ req' = [req EXCEPT ![r] = [req[r] EXCEPT !.step = "read", !.todo = found, !.page = page]]
          \/ Fail(r)
      BY <2>6 DEF ListMatches
    <3> HIDE DEF found, page
    <3> QED  BY <1>2, <2>1, <3>1, <3>2
  <2>7. CASE GetPlayers(r)
    <3>1. ASSUME NEW m, req' = [req EXCEPT ![r] = [req[r] EXCEPT !.step = "readkills", !.match = m,
                                     !.todo = req[r].todo \ {m}, !.page[m].players = players[m]]]
          PROVE  Locks'
      <4> DEFINE q == [req[r] EXCEPT !.step = "readkills", !.match = m,
                                     !.todo = req[r].todo \ {m}, !.page[m].players = players[m]]
      <4>1. q.step = "readkills" /\ req' = [req EXCEPT ![r] = q]
        BY <1>0, <3>1 DEF Request
      <4> HIDE DEF q
      <4> QED  BY <1>1, <2>1, <4>1
    <3> QED  BY <1>2, <2>1, <2>7, <3>1 DEF GetPlayers
  <2>8. CASE GetKills(r)
    <3>1. ASSUME NEW m, req' = [req EXCEPT ![r] = [req[r] EXCEPT !.step = "read", !.page[m].kills = kills[m]]]
          PROVE  Locks'
      <4> DEFINE q == [req[r] EXCEPT !.step = "read", !.page[m].kills = kills[m]]
      <4>1. q.step = "read" /\ req' = [req EXCEPT ![r] = q]
        BY <1>0, <3>1 DEF Request
      <4> HIDE DEF q
      <4> QED  BY <1>1, <2>1, <4>1
    <3> QED  BY <1>2, <2>1, <2>8, <3>1 DEF GetKills
  <2>9. CASE EndOfHistory(r) \/ GetDetails(r) \/ EndOfList(r)
    BY <2>4, <2>5, <2>9 DEF EndOfHistory, GetDetails, EndOfList
  <2> QED  BY <1>2, <1>3, <2>1, <2>2, <2>3, <2>6, <2>7, <2>8, <2>9 DEF Proceed
<1>6. ASSUME NEW r \in Requests, Commit(r) \/ SaveMatchFails(r) PROVE Locks'
  <2>1. PICK q \in {[req[r] EXCEPT !.step = "next", !.rows = {}],
                   [req[r] EXCEPT !.step = "next", !.rows = {}, !.failed = TRUE]} :
            req' = [req EXCEPT ![r] = q]
    BY <1>6 DEF Commit, SaveMatchFails, Rollback, Skip
  <2>2. q.step = "next"
    BY <1>0 DEF Request
  <2>3. writer' = Released(r) /\ matches' \in {matches, matches \cup {req[r].match}}
    BY <1>6 DEF Commit, Committed, SaveMatchFails, Rollback, tables
  <2>4. CASE Writing(r)
    BY <2>1, <2>2, <2>3, <2>4, LocksReleased
  <2>5. CASE ~Writing(r)
    <3>1. At(r, "insert") /\ UNCHANGED tables
      BY <1>6, <2>5 DEF Commit, SaveMatchFails, Rollback, Writing
    <3>2. \A m \in Matches : writer[m] # r
      BY <2>5, NoRequestAssumption DEF Locks, LocksHeldByWriters, Writing
    <3>3. writer' = writer
      BY <2>3, <3>2 DEF Released, IInv, TypeOK
    <3> QED  BY <1>1, <2>1, <2>2, <2>5, <3>1, <3>3
  <2> QED  BY <2>4, <2>5
<1>7. ASSUME NEW r \in Requests, NEW p \in Players, SyncAndGet(r, p) \/ GetCached(r, p) PROVE Locks'
  <2>1. ~Writing(r) /\ UNCHANGED <<tables, writer>>
    BY <1>7 DEF SyncAndGet, GetCached, Begin, Writing, At, Idle, tables
  <2>2. req'[r].step \in {"history", "list"} /\ \A s \in Requests : s # r => req'[s] = req[s]
    BY <1>7 DEF SyncAndGet, GetCached, Begin, Idle, IInv, TypeOK
  <2> QED  BY <2>1, <2>2, LocksStep DEF Writing, At
<1>8. CASE Restart
  BY <1>8 DEF Restart, Locks, LocksHeldByWriters, Writing, At, Idle
<1>9. CASE UNCHANGED vars
  BY <1>9 DEF vars, Locks, LocksHeldByWriters, Writing, At
<1> QED  BY <1>3, <1>6, <1>7, <1>8, <1>9, InsertLocks, RowsLocks DEF Next

\* A row is locked by a request that is writing that match, for the first time, and only by it.
THEOREM LocksAreHeldByWriters == Spec => []LocksHeldByWriters
<1>1. Init => Locks
  BY DEF Init, Locks, LocksHeldByWriters, Writing, At, Idle
<1>2. IInv /\ Locks => LocksHeldByWriters
  BY DEF Locks
<1> QED  BY <1>1, <1>2, NextLocks, Inductive, PTL DEF Spec

(***************************************************************************)
(* The kill events of a match are stored by the requests that found it     *)
(* missing, each of them once; when it is there nobody finds it missing.   *)
(***************************************************************************)
Copying(m) == {r \in Requests : Saving(r) /\ req[r].match = m}

Counted == \A m \in Matches :
               /\ m \notin matches => kills[m] = 0
               /\ kills[m] + Cardinality(Copying(m)) <= Cardinality(Requests)

\* Nobody new copies a match that is stored.
LEMMA CountedWithout ==
    ASSUME IInv, Counted, matches' = matches, kills' = kills,
           \A m \in matches : Copying(m)' \subseteq Copying(m)
    PROVE  Counted'
<1> SUFFICES ASSUME NEW m \in Matches
             PROVE  /\ m \notin matches => kills[m] = 0
                    /\ kills[m] + Cardinality(Copying(m)') <= Cardinality(Requests)
  BY DEF Counted
<1>1. /\ IsFiniteSet(Copying(m)) /\ Cardinality(Copying(m)) \in Nat
      /\ IsFiniteSet(Copying(m)') /\ Cardinality(Copying(m)') \in Nat
      /\ Cardinality(Requests) \in Nat
      /\ Cardinality(Copying(m)') <= Cardinality(Requests)
  <2>1. Copying(m) \subseteq Requests /\ Copying(m)' \subseteq Requests
    BY DEF Copying
  <2> QED  BY <2>1, RequestsAssumption, FS_Subset, FS_CardinalityType
<1>2. CASE m \in matches
  <2>1. Cardinality(Copying(m)') <= Cardinality(Copying(m))
    BY <1>1, <1>2, FS_Subset
  <2> QED  BY <1>1, <1>2, <2>1 DEF Counted, IInv, TypeOK
<1>3. CASE m \notin matches
  BY <1>1, <1>3 DEF Counted
<1> QED  BY <1>2, <1>3

\* A request goes on with its match, takes one that is not stored, or copies nothing.
LEMMA CountedStep ==
    ASSUME IInv, Counted, NEW r \in Requests, matches' = matches, kills' = kills,
           NEW q, req' = [req EXCEPT ![r] = q],
           \/ q.step \notin {"details", "insert", "rows", "commit"}
           \/ q.match \notin matches
           \/ Saving(r) /\ q.match = req[r].match
    PROVE  Counted'
<1>1. req'[r] = q /\ \A s \in Requests : s # r => req'[s] = req[s]
  BY DEF IInv, TypeOK
<1>2. \A m \in matches : Copying(m)' \subseteq Copying(m)
  BY <1>1 DEF Copying, Saving
<1> QED  BY <1>2, CountedWithout

\* A commit adds a copy, and one of those who are copying is done.
LEMMA CountedCommit ==
    ASSUME IInv, Counted, NEW r \in Requests, Commit(r)
    PROVE  Counted'
<1>0. PICK n \in Matches : n = req[r].match
  BY DEF Commit, At, IInv, Local, Located, Saving
<1>1. /\ matches' = matches \cup {n} /\ kills' = [kills EXCEPT ![n] = @ + 1]
      /\ req[r].step = "commit" /\ req'[r].step = "next"
      /\ \A s \in Requests : s # r => req'[s] = req[s]
      /\ kills \in [Matches -> Nat]
  <2>1. req \in [Requests -> Request] /\ kills \in [Matches -> Nat]
    BY DEF IInv, TypeOK
  <2>2. PICK q \in {[req[r] EXCEPT !.step = "next", !.rows = {}],
                   [req[r] EXCEPT !.step = "next", !.rows = {}, !.failed = TRUE]} :
            req' = [req EXCEPT ![r] = q]
    BY DEF Commit, Skip
  <2>3. q.step = "next"
    BY <2>1 DEF Request
  <2>4. req'[r].step = "next" /\ \A s \in Requests : s # r => req'[s] = req[s]
    BY <2>1, <2>2, <2>3
  <2> QED  BY <1>0, <2>1, <2>4 DEF Commit, Committed, At
<1> SUFFICES ASSUME NEW m \in Matches
             PROVE  /\ m \notin matches' => kills'[m] = 0
                    /\ kills'[m] + Cardinality(Copying(m)') <= Cardinality(Requests)
  BY DEF Counted
<1>2. /\ IsFiniteSet(Copying(m)) /\ Cardinality(Copying(m)) \in Nat /\ Cardinality(Requests) \in Nat
      /\ kills[m] + Cardinality(Copying(m)) <= Cardinality(Requests)
      /\ m \notin matches => kills[m] = 0
  <2>1. Copying(m) \subseteq Requests
    BY DEF Copying
  <2> QED  BY <2>1, RequestsAssumption, FS_Subset, FS_CardinalityType DEF Counted
<1>3. Copying(m)' = Copying(m) \ {r}
  BY <1>1 DEF Copying, Saving
<1>4. r \in Copying(m) <=> m = n
  BY <1>0, <1>1 DEF Copying, Saving
<1>5. Cardinality(Copying(m)') = IF m = n THEN Cardinality(Copying(m)) - 1 ELSE Cardinality(Copying(m))
  BY <1>2, <1>3, <1>4, FS_RemoveElement
<1> QED  BY <1>1, <1>2, <1>5

\* A match has no more copies of its kill events than there are requests at a time.
THEOREM CopiesAreBounded == Spec => []CopiesBounded
<1>1. Init => Counted
  <2> SUFFICES ASSUME Init, NEW m \in Matches
               PROVE  kills[m] = 0 /\ Cardinality(Copying(m)) <= Cardinality(Requests)
                      /\ Cardinality(Copying(m)) \in Nat
    BY DEF Counted
  <2>1. Copying(m) \subseteq Requests
    BY DEF Copying
  <2> QED  BY <2>1, RequestsAssumption, FS_Subset, FS_CardinalityType DEF Init
<1>2. IInv /\ Counted /\ [Next]_vars => Counted'
  <2> SUFFICES ASSUME IInv, Counted, [Next]_vars PROVE Counted'
    OBVIOUS
  <2>1. \A r \in Requests : req[r] \in Request
    BY DEF IInv, TypeOK
  <2>2. ASSUME NEW r \in Requests, Proceed(r), ~ Commit(r)  PROVE Counted'
    <3>1. matches' = matches /\ kills' = kills
      BY <2>2 DEF Proceed, GetHistory, ExistsMatch, EndOfHistory, GetDetails, InsertMatch,
         InsertRows, ListMatches, GetPlayers, GetKills, EndOfList, Answer, tables
    <3>2. ASSUME Fail(r) \/ Answer(r)  PROVE Counted'
      BY <3>1, <3>2, CountedStep DEF Fail, Answer, Idle
    <3>3. CASE GetHistory(r)
      <4>1. ASSUME NEW h, req' = [req EXCEPT ![r] = [req[r] EXCEPT !.step = "next", !.history = h, !.todo = h]]
            PROVE  Counted'
        <5>1. [req[r] EXCEPT !.step = "next", !.history = h, !.todo = h].step = "next"
          BY <2>1 DEF Request
        <5> QED  BY <3>1, <4>1, <5>1, CountedStep
      <4> QED  BY <3>2, <3>3, <4>1 DEF GetHistory
    <3>4. CASE ExistsMatch(r)
      <4>0. req[r].step = "next"
        BY <3>4 DEF ExistsMatch, At
      <4>1. ASSUME NEW m, req' = [req EXCEPT ![r] = [req[r] EXCEPT !.todo = @ \ {m}]]
            PROVE  Counted'
        <5>1. [req[r] EXCEPT !.todo = @ \ {m}].step = "next"
          BY <2>1, <4>0 DEF Request
        <5> QED  BY <3>1, <4>1, <5>1, CountedStep
      <4>2. ASSUME NEW m, m \notin matches,
                   req' = [req EXCEPT ![r] = [req[r] EXCEPT !.todo = @ \ {m}, !.match = m, !.step = "details"]]
            PROVE  Counted'
        <5>1. [req[r] EXCEPT !.todo = @ \ {m}, !.match = m, !.step = "details"].match = m
          BY <2>1 DEF Request
        <5> QED  BY <3>1, <4>2, <5>1, CountedStep
      <4>3. ASSUME NEW m, req' = [req EXCEPT ![r] = [req[r] EXCEPT !.todo = @ \ {m}, !.failed = TRUE]]
            PROVE  Counted'
        <5>1. [req[r] EXCEPT !.todo = @ \ {m}, !.failed = TRUE].step = "next"
          BY <2>1, <4>0 DEF Request
        <5> QED  BY <3>1, <4>3, <5>1, CountedStep
      <4> QED  BY <3>4, <4>1, <4>2, <4>3 DEF ExistsMatch
    <3>5. ASSUME NEW step \in Steps, GoTo(r, step), step \notin {"details", "insert", "rows", "commit"} \/ Saving(r)
          PROVE  Counted'
      <4> DEFINE q == [req[r] EXCEPT !.step = step]
      <4>1. req' = [req EXCEPT ![r] = q] /\ q.step = step /\ q.match = req[r].match
        BY <2>1, <3>5 DEF GoTo, Request
      <4> HIDE DEF q
      <4> QED  BY <3>1, <3>5, <4>1, CountedStep
    <3>6. CASE EndOfHistory(r) \/ EndOfList(r)
      BY <3>5, <3>6 DEF EndOfHistory, EndOfList, Steps
    <3>7. ASSUME Skip(r)  PROVE Counted'
      <4> DEFINE q == [req[r] EXCEPT !.step = "next", !.rows = {}, !.failed = TRUE]
      <4>1. req' = [req EXCEPT ![r] = q] /\ q.step = "next"
        BY <2>1, <3>7 DEF Skip, Request
      <4> HIDE DEF q
      <4> QED  BY <3>1, <4>1, CountedStep
    <3>8. CASE GetDetails(r) \/ InsertMatch(r)
      BY <3>5, <3>7, <3>8 DEF GetDetails, InsertMatch, Steps, Saving, At
    <3>9. CASE InsertRows(r)
      <4> DEFINE q == [req[r] EXCEPT !.step = "commit", !.rows = Roster[req[r].match]]
      <4>1. req' = [req EXCEPT ![r] = q] /\ q.match = req[r].match /\ Saving(r)
        BY <2>1, <3>9 DEF InsertRows, Request, Saving, At
      <4> HIDE DEF q
      <4> QED  BY <3>1, <4>1, CountedStep
    <3>10. CASE ListMatches(r)
      <4>1. ASSUME NEW t, NEW page,
                   req' = [req EXCEPT ![r] = [req[r] EXCEPT !.step = "read", !.todo = t, !.page = page]]
            PROVE  Counted'
        <5>1. [req[r] EXCEPT !.step = "read", !.todo = t, !.page = page].step = "read"
          BY <2>1 DEF Request
        <5> QED  BY <3>1, <4>1, <5>1, CountedStep
      <4> DEFINE found == {m \in matches : req[r].player \in players[m]}
                 page == [m \in Matches |-> IF m \in found THEN NoRow ELSE Absent]
      <4>2. \/ req' = [req EXCEPT ![r] = [req[r] EXCEPT !.step = "read", !.todo = found, !.page = page]]
            \/ Fail(r)
        BY <3>10 DEF ListMatches
      <4> HIDE DEF found, page
      <4> QED  BY <3>2, <4>1, <4>2
    <3>11. CASE GetPlayers(r) \/ GetKills(r)
      <4>1. ASSUME NEW m, req' = [req EXCEPT ![r] = [req[r] EXCEPT !.step = "readkills", !.match = m,
                                       !.todo = req[r].todo \ {m}, !.page[m].players = players[m]]]
            PROVE  Counted'
        <5> DEFINE q == [req[r] EXCEPT !.step = "readkills", !.match = m,
                                       !.todo = req[r].todo \ {m}, !.page[m].players = players[m]]
        <5>1. q.step = "readkills"
          BY <2>1 DEF Request
        <5>2. req' = [req EXCEPT ![r] = q]
          BY <4>1
        <5> HIDE DEF q
        <5> QED  BY <3>1, <5>1, <5>2, CountedStep
      <4>2. ASSUME NEW m, req' = [req EXCEPT ![r] = [req[r] EXCEPT !.step = "read", !.page[m].kills = kills[m]]]
            PROVE  Counted'
        <5> DEFINE q == [req[r] EXCEPT !.step = "read", !.page[m].kills = kills[m]]
        <5>1. q.step = "read"
          BY <2>1 DEF Request
        <5>2. req' = [req EXCEPT ![r] = q]
          BY <4>2
        <5> HIDE DEF q
        <5> QED  BY <3>1, <5>1, <5>2, CountedStep
      <4>3. CASE GetPlayers(r)
        BY <3>2, <4>1, <4>3 DEF GetPlayers
      <4>4. CASE GetKills(r)
        BY <3>2, <4>2, <4>4 DEF GetKills
      <4> QED  BY <3>11, <4>3, <4>4
    <3> QED  BY <2>2, <3>2, <3>3, <3>4, <3>6, <3>8, <3>9, <3>10, <3>11 DEF Proceed
  <2>3. ASSUME NEW r \in Requests, SaveMatchFails(r)  PROVE Counted'
    <3> DEFINE q == [req[r] EXCEPT !.step = "next", !.rows = {}, !.failed = TRUE]
    <3>1. req' = [req EXCEPT ![r] = q] /\ q.step = "next" /\ matches' = matches /\ kills' = kills
      BY <2>1, <2>3 DEF SaveMatchFails, Rollback, Skip, Request, tables
    <3> HIDE DEF q
    <3> QED  BY <3>1, CountedStep
  <2>4. ASSUME NEW r \in Requests, NEW p \in Players, SyncAndGet(r, p) \/ GetCached(r, p)
        PROVE  Counted'
    <3>1. PICK step \in {"history", "list"} : Begin(r, p, step)
      BY <2>4 DEF SyncAndGet, GetCached
    <3>2. PICK q \in {[Idle EXCEPT !.step = step, !.player = p]} : req' = [req EXCEPT ![r] = q]
      BY <3>1 DEF Begin
    <3>3. q.step = step /\ matches' = matches /\ kills' = kills
      BY <3>1 DEF Begin, Idle, tables
    <3> QED  BY <3>2, <3>3, CountedStep
  <2>5. CASE Restart
    <3>1. \A m \in matches : Copying(m)' \subseteq Copying(m)
      BY <2>5 DEF Restart, Copying, Saving, Idle
    <3> QED  BY <2>5, <3>1, CountedWithout DEF Restart, tables
  <2>6. CASE UNCHANGED vars
    <3>1. \A m \in matches : Copying(m)' \subseteq Copying(m)
      BY <2>6 DEF vars, Copying, Saving
    <3> QED  BY <2>6, <3>1, CountedWithout DEF vars
  <2> QED  BY <2>2, <2>3, <2>4, <2>5, <2>6, CountedCommit DEF Next
<1>3. IInv /\ Counted => CopiesBounded
  <2> SUFFICES ASSUME IInv, Counted, NEW m \in Matches PROVE kills[m] <= Cardinality(Requests)
    BY DEF CopiesBounded
  <2>1. Copying(m) \subseteq Requests
    BY DEF Copying
  <2>2. Cardinality(Copying(m)) \in Nat /\ Cardinality(Requests) \in Nat /\ kills[m] \in Nat
    BY <2>1, RequestsAssumption, FS_Subset, FS_CardinalityType DEF IInv, TypeOK
  <2> QED  BY <2>2 DEF Counted
<1> QED  BY <1>1, <1>2, <1>3, Inductive, PTL DEF Spec

(***************************************************************************)
(* The tables implement MatchArchive.  Only a commit changes them, and it  *)
(* changes what a reader finds of one match at most, from nothing to all.  *)
(***************************************************************************)
LEMMA CommitArchives ==
    ASSUME IInv, NEW r \in Requests, Commit(r)
    PROVE  [Archive!Next]_([m \in Matches |-> Content(m)])
<1>0. PICK n \in Matches : n = req[r].match
  BY DEF Commit, At, IInv, Local, Located, Saving
<1> DEFINE old == [m \in Matches |-> Content(m)]
           new == [m \in Matches |-> Content(m)']
<1>1. /\ TypeOK /\ Whole
      /\ matches' = matches \cup {n}
      /\ players' = [players EXCEPT ![n] = @ \cup Roster[n]]
      /\ kills' = [kills EXCEPT ![n] = @ + 1]
  BY <1>0 DEF Commit, Committed, At, IInv, Local, Located, Saving
<1>2. \A m \in Matches : m # n => Content(m)' = Content(m)
  BY <1>1 DEF TypeOK, Content
<1>3. Content(n)' = Archive!Full(n)
  <2>1. n \in matches' /\ players'[n] = Roster[n] /\ kills'[n] > 0
    BY <1>1 DEF TypeOK, Whole
  <2>2. (kills'[n] > 0) = TRUE
    BY <2>1
  <2> QED  BY <2>1, <2>2, Zenon DEF Content, Archive!Full
<1>4. CASE n \in matches
  <2>1. Content(n) = Archive!Full(n)
    <3>1. players[n] = Roster[n] /\ (kills[n] > 0) = TRUE
      BY <1>1, <1>4 DEF TypeOK, Whole
    <3> QED  BY <1>4, <3>1, Zenon DEF Content, Archive!Full
  <2>2. \A m \in Matches : Content(m)' = Content(m)
    BY <1>2, <1>3, <2>1
  <2>3. new = old
    BY <2>2, Zenon
  <2> QED  BY <2>3
<1>5. CASE n \notin matches
  <2>1. Content(n) = Absent
    BY <1>5 DEF Content
  <2>2. \A m \in Matches : Content(m)' = IF m = n THEN Archive!Full(n) ELSE old[m]
    BY <1>2, <1>3
  <2>4. new = [old EXCEPT ![n] = Archive!Full(n)]
    <3> HIDE DEF old
    <3>1. DOMAIN old = Matches
      BY DEF old
    <3> QED  BY <2>2, <3>1
  <2>3. Archive!Store(n)
    BY <1>1, <2>1, <2>4 DEF Archive!Store
  <2> QED  BY <1>1, <2>3 DEF Archive!Next
<1> QED  BY <1>4, <1>5

\* Matches become visible as a whole and do not change any more.
THEOREM MatchesAreArchived == Spec => ArchiveImplemented
<1>1. Init => Archive!Init
  BY DEF Init, Archive!Init, Content
<1>2. IInv /\ [Next]_vars => [Archive!Next]_([m \in Matches |-> Content(m)])
  <2> SUFFICES ASSUME IInv, [Next]_vars
               PROVE  [Archive!Next]_([m \in Matches |-> Content(m)])
    OBVIOUS
  <2>1. CASE UNCHANGED tables
    BY <2>1 DEF tables, Content
  <2>2. ASSUME NEW r \in Requests, Commit(r)
        PROVE  [Archive!Next]_([m \in Matches |-> Content(m)])
    BY <2>2, CommitArchives
  <2>3. ASSUME NEW r \in Requests, Proceed(r), ~ Commit(r)  PROVE UNCHANGED tables
    BY <2>3 DEF Proceed, GetHistory, ExistsMatch, EndOfHistory, GetDetails, InsertMatch, InsertRows,
                ListMatches, GetPlayers, GetKills, EndOfList, Answer, tables
  <2>4. ASSUME NEW r \in Requests, SaveMatchFails(r)  PROVE UNCHANGED tables
    BY <2>4 DEF SaveMatchFails, Rollback
  <2>5. ASSUME NEW r \in Requests, NEW p \in Players, SyncAndGet(r, p) \/ GetCached(r, p)
        PROVE  UNCHANGED tables
    BY <2>5 DEF SyncAndGet, GetCached, Begin, tables
  <2>6. CASE UNCHANGED vars \/ Restart
    BY <2>1, <2>6 DEF vars, Restart, tables
  <2> QED  BY <2>1, <2>2, <2>3, <2>4, <2>5, <2>6 DEF Next
<1> QED  BY <1>1, <1>2, Inductive, PTL DEF Spec, Archive!Spec, ArchiveImplemented
===========================================================================
