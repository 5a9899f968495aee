---------------------------- MODULE AssetCatalog ----------------------------
(***************************************************************************)
(* Names and icons of items: the assets table in front of valorant-api.com. *)
(* GetAsset looks one item up, BulkGetByType many at once; what the table   *)
(* lacks is fetched and written by goroutines that nobody waits for.  One   *)
(* of the two uses the path of the API as the type of an item, the other   *)
(* the UUID of the type, so that their rows are different ones.            *)
(*                                                                         *)
(* An item's data is Blank when both name and icon are empty.              *)
(***************************************************************************)
EXTENDS FiniteSets

CONSTANTS Items,      \* <<path of the API, item id>>, the keys of GetAsset
          BulkItems,  \* <<type UUID, item id>>, the keys of BulkGetByType
          Names,      \* data of an item, other than Blank
          Requests,   \* slots for concurrent requests
          Blank, NoRow,
          Faults      \* whether calls to Postgres and the API may fail

Keys == Items \cup BulkItems
Data == Names \cup {Blank}

ASSUME BlankAssumption == Blank \notin Names
ASSUME NoRowAssumption == NoRow \notin Data

VARIABLES assets,    \* Postgres: the row of each key
          api,       \* what valorant-api.com says of a key, NoRow if it is not listed
          unsaved,   \* <<key, data>> that goroutines have yet to write
          told,      \* <<key, data>> that the API has ever answered
          req        \* the requests being served

vars == <<assets, api, unsaved, told, req>>

Request == [step : {"idle", "lookup", "fetch", "bulk", "fetchall", "answer"},
            ids : SUBSET Keys,
            found : [Keys -> Data \cup {NoRow}],   \* the result
            failed : BOOLEAN]                      \* the API could not be asked
Nothing == [k \in Keys |-> NoRow]
Idle == [step |-> "idle", ids |-> {}, found |-> Nothing, failed |-> FALSE]

TypeOK == /\ assets \in [Keys -> Data \cup {NoRow}]
          /\ api \in [Keys -> Data \cup {NoRow}]
          /\ unsaved \subseteq Keys \X Data
          /\ told \subseteq Keys \X Data
          /\ req \in [Requests -> Request]

Init == /\ assets = Nothing
        /\ api = Nothing
        /\ unsaved = {}
        /\ told = {}
        /\ req = [r \in Requests |-> Idle]

At(r, step) == req[r].step = step
GoTo(r, step) == req' = [req EXCEPT ![r].step = step]
Finish(r) == req' = [req EXCEPT ![r] = Idle]
Start(r, step, ids) ==
    /\ req[r] = Idle
    /\ req' = [req EXCEPT ![r] = [Idle EXCEPT !.step = step, !.ids = ids]]
    /\ UNCHANGED <<assets, api, unsaved, told>>

\* What the API lists of a set of keys, as pairs (and a variant with a bug, which
\* takes what is not listed for data).
ApiAnswerUnchecked(ks) == {<<k, api[k]>> : k \in ks}
ApiAnswer(ks) == {<<k, api[k]>> : k \in {j \in ks : api[j] # NoRow}}
Merged(found, pairs) == [k \in Keys |-> IF \E d \in Data : <<k, d>> \in pairs
                                        THEN CHOOSE d \in Data : <<k, d>> \in pairs
                                        ELSE found[k]]

---------------------------------------------------------------------------
(* GetAsset.                                                               *)

GetAsset(r, k) == Start(r, "lookup", {k})

\* A row is returned as it is, Blank or not.
LookupAsset(r) ==
    /\ At(r, "lookup")
    /\ \E k \in req[r].ids :
           \/ assets[k] # NoRow /\ req' = [req EXCEPT ![r].step = "answer",
                                                      ![r].found = [@ EXCEPT ![k] = assets[k]]]
           \/ assets[k] = NoRow /\ GoTo(r, "fetch")
           \/ Faults /\ Finish(r)
    /\ UNCHANGED <<assets, api, unsaved, told>>

\* The answer does not wait for the row to be written.
FetchAsset(r) ==
    LET pairs == ApiAnswer(req[r].ids) IN
    /\ At(r, "fetch")
    /\ \/ /\ pairs # {}
          /\ req' = [req EXCEPT ![r].step = "answer", ![r].found = Merged(@, pairs)]
          /\ unsaved' = unsaved \cup pairs
          /\ told' = told \cup pairs
       \/ /\ pairs = {} \/ Faults
          /\ Finish(r)
          /\ UNCHANGED <<unsaved, told>>
    /\ UNCHANGED <<assets, api>>

---------------------------------------------------------------------------
(* BulkGetByType.                                                          *)

BulkGetByType(r, ks) == Start(r, "bulk", ks)

FoundRowsAll(ks) == {k \in ks : assets[k] # NoRow}   \* Blank rows count
\* Rows without name and icon are passed over, to be fetched again.
FoundRows(ks) == {k \in ks : assets[k] \in Names}

DataOf(rows) == [k \in Keys |-> IF k \in rows THEN assets[k] ELSE NoRow]

\* One query.  An error counts as nothing found.
LookupAll(r) ==
    LET ks == req[r].ids IN
    /\ At(r, "bulk")
    /\ \E rows \in {FoundRows(ks)} \cup (IF Faults THEN {{}} ELSE {}) :
           req' = [req EXCEPT ![r].step = IF rows = ks THEN "answer" ELSE "fetchall",
                              ![r].found = DataOf(rows)]
    /\ UNCHANGED <<assets, api, unsaved, told>>

Missing(r) == {k \in req[r].ids : req[r].found[k] = NoRow}

FetchAllAliased(r) ==   \* the goroutine's pointers all lead to the same data
    LET pairs == ApiAnswer(Missing(r)) IN
    /\ At(r, "fetchall")
    /\ req' = [req EXCEPT ![r].step = "answer", ![r].found = Merged(@, pairs)]
    /\ \E last \in pairs : unsaved' = unsaved \cup {<<p[1], last[2]>> : p \in pairs}
    /\ told' = told \cup pairs
    /\ UNCHANGED <<assets, api>>
\* The whole list of the type; when that fails the result has what the table had.
FetchAll(r) ==
    LET pairs == ApiAnswer(Missing(r)) IN
    /\ At(r, "fetchall")
    /\ \/ /\ req' = [req EXCEPT ![r].step = "answer", ![r].found = Merged(@, pairs)]
          /\ unsaved' = unsaved \cup pairs
          /\ told' = told \cup pairs
       \/ /\ Faults
          /\ req' = [req EXCEPT ![r].step = "answer", ![r].failed = TRUE]
          /\ UNCHANGED <<unsaved, told>>
    /\ UNCHANGED <<assets, api>>

Answer(r) == /\ At(r, "answer")
             /\ Finish(r)
             /\ UNCHANGED <<assets, api, unsaved, told>>

---------------------------------------------------------------------------
(* The goroutines.                                                         *)

UpsertAlways(k, d) == [assets EXCEPT ![k] = d]        \* without the WHERE
\* INSERT ... ON CONFLICT DO UPDATE ... WHERE the row that is there is Blank.
Upsert(k, d) == [assets EXCEPT ![k] = IF @ \in {NoRow, Blank} THEN d ELSE @]

\* Writes that overlap run in any order; an error is logged, and the data lost.
AddAsset(k, d) == /\ <<k, d>> \in unsaved
                  /\ assets' = Upsert(k, d) \/ (Faults /\ UNCHANGED assets)
                  /\ unsaved' = unsaved \ {<<k, d>>}
                  /\ UNCHANGED <<api, told, req>>

\* valorant-api.com lists an item, renames it, or completes its data.
Publish(k, d) == /\ api[k] # d
                 /\ api' = [api EXCEPT ![k] = d]
                 /\ UNCHANGED <<assets, unsaved, told, req>>

\* The goroutines die with the process.
Restart == /\ Faults
           /\ req' = [r \in Requests |-> Idle]
           /\ unsaved' = {}
           /\ UNCHANGED <<assets, api, told>>

---------------------------------------------------------------------------
Serve(r) == \/ LookupAsset(r) \/ FetchAsset(r) \/ LookupAll(r) \/ FetchAll(r) \/ Answer(r)

Arrive(r) == \/ \E k \in Items : GetAsset(r, k)
             \/ \E ks \in (SUBSET BulkItems) \ {{}} : BulkGetByType(r, ks)

Next == \/ \E r \in Requests : Serve(r) \/ Arrive(r)
        \/ \E k \in Keys, d \in Data : AddAsset(k, d) \/ Publish(k, d)
        \/ Restart

Spec == Init /\ [][Next]_vars

---------------------------------------------------------------------------
(* Properties.                                                             *)

\* A row that has a name or an icon never changes any more: late goroutines that
\* carry older data, or none, do no harm.
KnownStaysKnown ==
    [][\A k \in Keys : assets[k] \in Names => assets'[k] = assets[k]]_vars

\* A bulk lookup that could ask the API leaves no item out, and none blank, that
\* the API has data for: rows that were stored while the
\* API had no data yet do not hide the data that it has now.
BulkFillsGaps ==
    [][\A r \in Requests : req[r].step \in {"bulk", "fetchall"} /\ At(r, "answer")' /\ ~ req'[r].failed =>
           \A k \in req[r].ids : api[k] \in Names => req'[r].found[k] \in Names]_vars

\* What the table holds and what requests are answered with was once said by the
\* API of that very item.
NothingInvented ==
    /\ \A k \in Keys : assets[k] # NoRow => <<k, assets[k]>> \in told
    /\ \A r \in Requests, k \in Keys : req[r].found[k] # NoRow => <<k, req[r].found[k]>> \in told
===========================================================================
