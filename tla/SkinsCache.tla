----------------------------- MODULE SkinsCache -----------------------------
(***************************************************************************)
(* The skins of one account: the inventory is asked of Riot, its names and  *)
(* icons of the asset catalogue, and the answer is cached without a TTL,   *)
(* whether or not the two could be reached.  The catalogue is AssetCatalog: *)
(* a page of skins makes one of its bulk lookups, next to those of others. *)
(***************************************************************************)
EXTENDS AssetCatalog

CONSTANTS NoEntry,
          Purchases    \* whether the player buys skins

Skins == BulkItems     \* all of one type
\* A list of skins with their names and icons, Blank where there are none.
Entry == UNION {[skins -> Data] : skins \in SUBSET Skins}

ASSUME NoEntryAssumption == NoEntry \notin Entry
ASSUME FaultsAssumption == Faults \in BOOLEAN /\ Purchases \in BOOLEAN

VARIABLES owned,    \* the player's skins
          cached,   \* Redis: account:<puuid>
          page      \* the requests for the player's skins, each with the slot of its lookup

accountVars == <<owned, cached, page>>

NoSkins == [k \in {} |-> Blank]

Page == [step : {"idle", "lookup", "skins", "names", "save", "answer"},
         force : BOOLEAN,
         before : SUBSET Skins,   \* what the player had when the request came
         failed : BOOLEAN,        \* Riot could not be asked
         answer : Entry]
NoPage == [step |-> "idle", force |-> FALSE, before |-> {}, failed |-> FALSE, answer |-> NoSkins]

AccountTypeOK == /\ owned \subseteq Skins
                 /\ cached \in Entry \cup {NoEntry}
                 /\ page \in [Requests -> Page]

AccountInit == /\ Init
               /\ owned \in SUBSET Skins
               /\ cached = NoEntry
               /\ page = [r \in Requests |-> NoPage]

PageAt(r, step) == page[r].step = step
Turn(r, step) == page' = [page EXCEPT ![r].step = step]
Close(r) == page' = [page EXCEPT ![r] = NoPage]

---------------------------------------------------------------------------
GetAccountCached(r, force) ==   \* force is not looked at
    /\ page[r] = NoPage /\ req[r] = Idle
    /\ page' = [page EXCEPT ![r] = [NoPage EXCEPT !.step = "lookup", !.force = force, !.before = owned]]
    /\ UNCHANGED <<owned, cached, vars>>
\* GET /valorant/account/{puuid}; force=true goes past the cache.
GetAccount(r, force) ==
    /\ page[r] = NoPage /\ req[r] = Idle
    /\ page' = [page EXCEPT ![r] = [NoPage EXCEPT !.step = IF force THEN "skins" ELSE "lookup",
                                                  !.force = force, !.before = owned]]
    /\ UNCHANGED <<owned, cached, vars>>

Lookup(r) ==
    /\ PageAt(r, "lookup")
    /\ \/ cached # NoEntry /\ page' = [page EXCEPT ![r].step = "answer", ![r].answer = cached]
       \/ (cached = NoEntry \/ Faults) /\ Turn(r, "skins")
    /\ UNCHANGED <<owned, cached, vars>>

GetSkinsUnfiltered(r) ==   \* without the early return, and an empty list asks for the whole type
    LET ids == IF owned = {} THEN Skins ELSE owned IN
    /\ PageAt(r, "skins")
    /\ page' = [page EXCEPT ![r].step = "names", ![r].answer = [k \in ids |-> Blank]]
    /\ BulkGetByType(r, ids)
    /\ UNCHANGED <<owned, cached>>
\* Session and client (RiotSession) may fail, which ends the request; an error of the
\* inventory itself is logged, and no skins are answered.  Names are asked only for
\* an inventory that is not empty.
GetSkins(r) ==
    /\ PageAt(r, "skins")
    /\ \/ /\ page' = [page EXCEPT ![r].step = "names", ![r].answer = [k \in owned |-> Blank]]
          /\ owned # {} /\ BulkGetByType(r, owned)
       \/ owned = {} /\ Turn(r, "save") /\ UNCHANGED vars
       \/ /\ Faults
          /\ page' = [page EXCEPT ![r].step = "save", ![r].failed = TRUE]
          /\ UNCHANGED vars
       \/ Faults /\ Close(r) /\ UNCHANGED vars
    /\ UNCHANGED <<owned, cached>>

\* The lookup has data for some of the skins: the others stay Blank.
BulkNames(r) ==
    /\ PageAt(r, "names")
    /\ page' = [page EXCEPT
                  ![r].step = "save",
                  ![r].answer = [k \in DOMAIN @ |-> IF req[r].found[k] # NoRow THEN req[r].found[k]
                                                                               ELSE Blank]]
    /\ Answer(r)
    /\ UNCHANGED <<owned, cached>>

\* SET without TTL, of whatever there is to answer; an error is logged.
Save(r) == /\ PageAt(r, "save")
           /\ cached' = page[r].answer \/ (Faults /\ UNCHANGED cached)
           /\ Turn(r, "answer")
           /\ UNCHANGED <<owned, vars>>

AnswerPage(r) == /\ PageAt(r, "answer")
                 /\ Close(r)
                 /\ UNCHANGED <<owned, cached, vars>>

\* Skins are bought, and never go away.
Buy(s) == /\ Purchases
          /\ s \notin owned
          /\ owned' = owned \cup {s}
          /\ UNCHANGED <<cached, page, vars>>

\* The catalogue goes on: for the page that waits for it, for others, by itself.
Catalog == /\ \/ \E r \in Requests : PageAt(r, "names") /\ (LookupAll(r) \/ FetchAll(r))
              \/ \E r \in Requests : PageAt(r, "idle") /\ (Serve(r) \/ Arrive(r))
              \/ \E k \in Keys, d \in Data : AddAsset(k, d) \/ Publish(k, d)
           /\ UNCHANGED accountVars

RestartAll == /\ Restart
              /\ page' = [r \in Requests |-> NoPage]
              /\ UNCHANGED <<owned, cached>>

---------------------------------------------------------------------------
ServePage(r) == \/ Lookup(r) \/ GetSkins(r) \/ BulkNames(r) \/ Save(r) \/ AnswerPage(r)

AccountNext == \/ \E r \in Requests : ServePage(r) \/ \E force \in BOOLEAN : GetAccount(r, force)
               \/ \E s \in Skins : Buy(s)
               \/ Catalog
               \/ RestartAll

AccountSpec == AccountInit /\ [][AccountNext]_<<vars, accountVars>>

---------------------------------------------------------------------------
(* Properties.                                                             *)

\* Nobody is shown a skin that the player does not have, nor a name or an icon that
\* the API has not given to that very skin, out of a cache that lasts for good and
\* is filled by requests that overlap and fail half-way.
Shown(list) == /\ DOMAIN list \subseteq owned
               /\ \A k \in DOMAIN list : list[k] # Blank => <<k, list[k]>> \in told
SkinsAreOwned == /\ cached # NoEntry => Shown(cached)
                 /\ \A r \in Requests : Shown(page[r].answer)

\* A forced refresh that reached Riot answers with all that the player had when
\* it was asked for, whatever the cache holds.
ForceIsCurrent ==
    \A r \in Requests : PageAt(r, "answer") /\ page[r].force /\ ~ page[r].failed =>
                        page[r].before \subseteq DOMAIN page[r].answer

\* "Skins can only be added to an account, so the cache always stays up to date."
CacheStaysCurrent == cached # NoEntry => DOMAIN cached = owned
===========================================================================
