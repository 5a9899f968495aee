--------------------------- MODULE StorefrontCache ---------------------------
(***************************************************************************)
(* The cached storefront of one player.  Each section of a storefront      *)
(* rotates with a period of its own; Riot says how long each will last.    *)
(* The answer is enriched with names and images, which takes time, and is   *)
(* then cached for as long as the shortest section lasts.                  *)
(*                                                                         *)
(* Time is a counter.  A storefront is named by the time Riot gave it out,  *)
(* which determines what each of its sections holds.                       *)
(***************************************************************************)
EXTENDS Integers

CONSTANTS Period,     \* how long each section lasts
          Requests,   \* slots for concurrent requests
          Lag,        \* bound: how long a request may keep a storefront before it is cached
          MaxTime,    \* bound of the clock
          NoEntry,
          Faults      \* whether calls to Redis and Riot may fail

Sections == {"skins", "bundles", "accessories"}

ASSUME PeriodAssumption == Period \in [Sections -> Nat \ {0}]
ASSUME LagAssumption == Lag \in Nat
ASSUME MaxTimeAssumption == MaxTime \in Nat
ASSUME NoEntryAssumption == NoEntry \notin [at : Nat, sections : SUBSET Sections, until : Nat]

VARIABLES now,
          cached,   \* Redis: storefront:<puuid>
          req       \* the requests being served

vars == <<now, cached, req>>

Storefront == [at : Nat, sections : SUBSET Sections]
Entry == [at : Nat, sections : SUBSET Sections, until : Nat]

Request == [step : {"idle", "invalidate", "lookup", "fetch", "enrich", "answer"},
            at : Nat,                     \* when Riot gave out the storefront
            sections : SUBSET Sections]   \* the sections it came with
Idle == [step |-> "idle", at |-> 0, sections |-> {}]

TypeOK == /\ now \in Nat
          /\ cached \in Entry \cup {NoEntry}
          /\ req \in [Requests -> Request]

Init == /\ now = 0
        /\ cached = NoEntry
        /\ req = [r \in Requests |-> Idle]

At(r, step) == req[r].step = step
GoTo(r, step) == req' = [req EXCEPT ![r].step = step]
Finish(r) == req' = [req EXCEPT ![r] = Idle]

---------------------------------------------------------------------------
(* How long the storefront lasts.                                          *)

\* The seconds Riot reports for a section at time t; zero if it is not there.
Left(s, t) == Period[s] - (t % Period[s])
Remaining(s, t, sections) == IF s \in sections THEN Left(s, t) ELSE 0

Longer(m, s) == IF s > 0 /\ (m = 0 \/ s > m) THEN s ELSE m   \* with a bug
Shorter(m, s) == IF s > 0 /\ (m = 0 \/ s < m) THEN s ELSE m

\* storefrontTTL: a loop over the three durations.
Shortest(skins, bundles, accessories) ==
    Shorter(Shorter(Shorter(0, skins), bundles), accessories)

StorefrontTTL(t, sections) == Shortest(Remaining("skins", t, sections),
                                       Remaining("bundles", t, sections),
                                       Remaining("accessories", t, sections))

---------------------------------------------------------------------------
\* GET /valorant/store/{puuid}, with or without force=true.
GetUserStore(r, force) ==
    /\ req[r] = Idle
    /\ GoTo(r, IF force THEN "invalidate" ELSE "lookup")
    /\ UNCHANGED <<now, cached>>

\* invalidateStorefrontCache: an error is logged.
Invalidate(r) == /\ At(r, "invalidate")
                 /\ cached' = NoEntry \/ (Faults /\ UNCHANGED cached)
                 /\ GoTo(r, "fetch")
                 /\ UNCHANGED now

\* A hit is answered as it is.
Lookup(r) == /\ At(r, "lookup")
             /\ \/ cached # NoEntry /\ GoTo(r, "answer")
                \/ (cached = NoEntry \/ Faults) /\ GoTo(r, "fetch")
             /\ UNCHANGED <<now, cached>>

\* The session and the client for Riot are the subject of RiotSession; here they
\* fail or not.  A section may be missing from Riot's answer.
GetStorefront(r) ==
    /\ At(r, "fetch")
    /\ \/ \E sections \in SUBSET Sections :
              req' = [req EXCEPT ![r] = [step |-> "enrich", at |-> now, sections |-> sections]]
       \/ Finish(r)
    /\ UNCHANGED <<now, cached>>

SaveAlways(r) ==   \* the test of the TTL is missing; Redis keeps a key with TTL 0 for good
    /\ At(r, "enrich")
    /\ LET ttl == StorefrontTTL(req[r].at, req[r].sections) IN
       cached' = [at |-> req[r].at, sections |-> req[r].sections,
                  until |-> IF ttl = 0 THEN MaxTime + 1 ELSE now + ttl]
    /\ GoTo(r, "answer")
    /\ UNCHANGED now
SaveFromNow(r) ==   \* the time left is looked up when the storefront is saved, after a rotation
    LET ttl == StorefrontTTL(now, req[r].sections) IN
    /\ At(r, "enrich")
    /\ cached' = IF ttl = 0 THEN cached
                 ELSE [at |-> req[r].at, sections |-> req[r].sections, until |-> now + ttl]
    /\ GoTo(r, "answer")
    /\ UNCHANGED now
SaveUntil(r) ==   \* the clock is subtracted instead of added
    LET ttl == StorefrontTTL(req[r].at, req[r].sections) IN
    /\ At(r, "enrich")
    /\ IF ttl > 0 THEN cached' = [at |-> req[r].at, sections |-> req[r].sections, until |-> ttl - now]
                  ELSE UNCHANGED cached
    /\ GoTo(r, "answer")
    /\ UNCHANGED now
\* After enrichOffers, enrichAccessoryOffers and enrichBundles: SET with the TTL that
\* was right when Riot answered.  An error is logged.
Save(r) ==
    LET ttl == StorefrontTTL(req[r].at, req[r].sections) IN
    /\ At(r, "enrich")
    /\ \/ ttl > 0 /\ cached' = [at |-> req[r].at, sections |-> req[r].sections, until |-> now + ttl]
       \/ (ttl = 0 \/ Faults) /\ UNCHANGED cached
    /\ GoTo(r, "answer")
    /\ UNCHANGED now

Answer(r) == /\ At(r, "answer")
             /\ Finish(r)
             /\ UNCHANGED <<now, cached>>

\* Redis drops the key when its time is over.
Tick == /\ now < MaxTime
        /\ \A r \in Requests : At(r, "enrich") => now < req[r].at + Lag
        /\ now' = now + 1
        /\ cached' = IF cached # NoEntry /\ cached.until <= now + 1 THEN NoEntry ELSE cached
        /\ UNCHANGED req

Restart == /\ Faults
           /\ req' = [r \in Requests |-> Idle]
           /\ UNCHANGED <<now, cached>>

---------------------------------------------------------------------------
Serve(r) == \/ Invalidate(r) \/ Lookup(r) \/ GetStorefront(r) \/ Save(r) \/ Answer(r)

Next == \/ \E r \in Requests : Serve(r) \/ \E force \in BOOLEAN : GetUserStore(r, force)
        \/ Tick
        \/ Restart

Spec == Init /\ [][Next]_vars

---------------------------------------------------------------------------
(* Properties.                                                             *)

\* What is in the cache is out of date by less than Lag, in every section: late
\* saves, forced refreshes and sections of several periods together do not make
\* the cache serve an old storefront for longer than it took to enrich it.
StaleForLagOnly ==
    cached # NoEntry => \A s \in cached.sections : now < cached.at + Left(s, cached.at) + Lag

\* The cache implements FreshCache with a single key: what is in it was said at most
\* Lag before it was stored, and lives as long as one of the sections lasted then,
\* whatever forced refreshes and late saves do to one another.
Promise == INSTANCE FreshCache WITH
    Keys <- {"storefront"},
    TTLs <- [t \in Nat |-> {Left(s, t) : s \in Sections}],
    Forced <- TRUE,
    held <- [k \in {"storefront"} |-> IF cached = NoEntry THEN NoEntry
                                     ELSE [of |-> k, at |-> cached.at, until |-> cached.until]]
StorefrontFresh == Promise!Spec
===========================================================================
