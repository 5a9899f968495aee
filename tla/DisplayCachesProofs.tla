------------------------ MODULE DisplayCachesProofs ------------------------
(***************************************************************************)
(* Proofs about DisplayCaches, for any players, matches, lists, requests,  *)
(* times to live and lag.                                                  *)
(*                                                                         *)
(* That a cache forgets in time rests on what is on its way to it: a name  *)
(* or rank that a request has yet to store is not older than Lag.          *)
(***************************************************************************)
EXTENDS DisplayCaches, FiniteSetTheorems, TLAPS

Young(fact, t) == fact # NoEntry /\ fact.at <= t /\ t <= fact.at + Lag

Healthy(q, t) ==
    /\ q.step \in {"lookup", "mmr", "save", "account", "rank"} => q.pos \in 1..Len(q.rows)
    /\ \A p \in Puuids : /\ q.name[p] # NoEntry => q.name[p].of = p
                         /\ q.rank[p] # NoEntry => q.rank[p].of = p
    /\ q.toStore # {} => q.step = "store"
    /\ \A p \in q.toStore : Young(q.name[p], t)
    /\ q.step = "save" => Young(q.rank[q.rows[q.pos]], t)
    /\ q.step \in {"store", "page"} /\ ~q.failed
         => \A i \in DOMAIN q.rows : q.name[q.rows[i]] # NoEntry

InTime(cache, ttl) ==
    \A p \in Puuids : cache[p] # NoEntry => /\ cache[p].of = p
                                            /\ cache[p].at <= now /\ now < cache[p].until
                                            /\ cache[p].until <= cache[p].at + Lag + ttl

IInv == /\ TypeOK
        /\ \A r \in Requests : Healthy(req[r], now)
        /\ InTime(names, NameTTL) /\ InTime(ranks, RankTTL)

USE MatchesAssumption, ListsAssumption, TTLAssumption, MaxTimeAssumption, NoEntryAssumption

LEMMA IdleHealthy == ASSUME NEW t PROVE Idle \in Request /\ Healthy(Idle, t)
BY DEF Idle, Request, Healthy, Nothing

LEMMA InitIInv == Init => IInv
BY IdleHealthy DEF Init, IInv, TypeOK, InTime, Nothing

\* A step of one request that leaves the clock and leaves everything in order.
LEMMA Served ==
    ASSUME IInv, now' = now, NEW r \in Requests, NEW q,
           req' = [req EXCEPT ![r] = q], q \in Request, Healthy(q, now),
           names' \in [Puuids -> Entry \cup {NoEntry}], InTime(names, NameTTL)',
           ranks' \in [Puuids -> Entry \cup {NoEntry}], InTime(ranks, RankTTL)'
    PROVE  IInv'
<1>1. TypeOK'
  BY DEF IInv, TypeOK
<1>2. \A s \in Requests : Healthy(req[s], now)'
  <2> SUFFICES ASSUME NEW s \in Requests PROVE Healthy(req[s], now)'
    OBVIOUS
  <2>1. CASE s = r
    <3>1. req'[s] = q
      BY <2>1 DEF IInv, TypeOK
    <3> QED  BY <3>1 DEF Healthy, Young
  <2>2. CASE s # r
    <3>1. req'[s] = req[s]
      BY <2>2 DEF IInv, TypeOK
    <3>2. Healthy(req[s], now)
      BY DEF IInv
    <3> QED  BY <3>1, <3>2 DEF Healthy, Young
  <2> QED  BY <2>1, <2>2
<1> QED  BY <1>1, <1>2 DEF IInv

\* The same for the many steps that leave the caches.
LEMMA ServedOnly ==
    ASSUME IInv, UNCHANGED <<now, caches>>, NEW r \in Requests, NEW q,
           req' = [req EXCEPT ![r] = q], q \in Request, Healthy(q, now)
    PROVE  IInv'
<1>1. /\ names' \in [Puuids -> Entry \cup {NoEntry}] /\ InTime(names, NameTTL)'
      /\ ranks' \in [Puuids -> Entry \cup {NoEntry}] /\ InTime(ranks, RankTTL)'
      /\ now' = now
  BY DEF IInv, TypeOK, caches, InTime
<1> QED  BY <1>1, Served

\* The rows of a page are players of the match, and there is one at least.
LEMMA OrdersAreRows ==
    ASSUME NEW m, DOMAIN m \subseteq Puuids, IsFiniteSet(DOMAIN m), NEW rows \in Orders(m)
    PROVE  rows \in Seq(Puuids) /\ (DOMAIN m # {} => 1 \in 1..Len(rows))
<1>1. Cardinality(DOMAIN m) \in Nat /\ (Cardinality(DOMAIN m) = 0 <=> DOMAIN m = {})
  BY FS_CardinalityType, FS_EmptySet
<1>2. rows \in [1..Cardinality(DOMAIN m) -> Puuids]
  BY DEF Orders
<1> QED  BY <1>1, <1>2

\* A new page starts with nothing taken from anywhere.
LEMMA FreshHealthy ==
    ASSUME NEW step \in {"lookup", "mmr", "account", "answer"}, NEW rows \in Seq(Puuids),
           step # "answer" => 1 \in 1..Len(rows)
    PROVE  LET q == [Idle EXCEPT !.step = step, !.rows = rows]
           IN  q \in Request /\ Healthy(q, now)
BY DEF Idle, Request, Healthy, Nothing

(***************************************************************************)
(* Every action.                                                           *)
(***************************************************************************)
LEMMA ArriveKeeps == ASSUME IInv, NEW r \in Requests, Arrive(r) PROVE IInv'
<1>1. CASE \E m \in Matches : GetMatchHistory(r, m)
  <2>1. PICK m \in Matches : \E rows \in Orders(m) : /\ Serving(r, "lookup", rows)
                                                     /\ UNCHANGED <<now, caches>>
    BY <1>1 DEF GetMatchHistory, ToMatchDTO
  <2>2. PICK rows \in Orders(m) : Serving(r, "lookup", rows) /\ UNCHANGED <<now, caches>>
    BY <2>1
  <2>3. rows \in Seq(Puuids) /\ 1 \in 1..Len(rows)
    BY OrdersAreRows
  <2> QED  BY <2>2, <2>3, FreshHealthy, ServedOnly DEF Serving
<1>2. CASE \E p \in WithSession : GetMMR(r, p)
  <2>1. PICK p \in WithSession : Serving(r, "mmr", <<p>>) /\ UNCHANGED <<now, caches>>
    BY <1>2 DEF GetMMR
  <2>2. <<p>> \in Seq(Puuids) /\ 1 \in 1..Len(<<p>>)
    OBVIOUS
  <2> QED  BY <2>1, <2>2, FreshHealthy, ServedOnly DEF Serving
<1>3. CASE \E accounts \in Lists : GetAccounts(r, accounts)
  <2>0. PICK accounts \in Lists : GetAccounts(r, accounts)
    BY <1>3
  <2>1. PICK rows \in Orders([p \in accounts |-> 0]) :
                 /\ Serving(r, IF accounts = {} THEN "answer" ELSE "account", rows)
                 /\ UNCHANGED <<now, caches>>
    BY <2>0 DEF GetAccounts, GetAccountsList
  <2>2. rows \in Seq(Puuids) /\ (accounts # {} => 1 \in 1..Len(rows))
    <3> DEFINE m == [p \in accounts |-> 0]
    <3>1. DOMAIN m = accounts
      OBVIOUS
    <3> HIDE DEF m
    <3> QED  BY <3>1, OrdersAreRows
  <2> QED  BY <2>1, <2>2, FreshHealthy, ServedOnly DEF Serving
<1> QED  BY <1>1, <1>2, <1>3 DEF Arrive

\* The row that a handler is at is a player.
LEMMA RowIsPlayer ==
    ASSUME IInv, NEW r \in Requests, req[r].step \in {"lookup", "mmr", "save", "account", "rank"}
    PROVE  Row(r) \in Puuids /\ req[r].pos \in 1..Len(req[r].rows)
BY DEF IInv, TypeOK, Request, Healthy, Row

\* What was found in a cache is the player's.
LEMMA FoundIsOfPlayer ==
    ASSUME IInv, NEW p \in Puuids
    PROVE  /\ Found(names, p) => Read(names[p]) \in Fact /\ Read(names[p]).of = p
           /\ Found(ranks, p) => Read(ranks[p]) \in Fact /\ Read(ranks[p]).of = p
BY DEF IInv, TypeOK, InTime, Found, Read, Fact, Entry

\* A handler moves on to a step that neither stores nor has finished a page.
LEMMA MovesOn ==
    ASSUME NEW q \in Request, NEW t, Healthy(q, t), q.toStore = {}, NEW pos \in Nat,
           NEW step \in {"lookup", "fetch", "account", "rank", "answer"},
           step \in {"lookup", "account", "rank"} => pos \in 1..Len(q.rows)
    PROVE  LET next == [q EXCEPT !.step = step, !.pos = pos]
           IN  next \in Request /\ Healthy(next, t)
BY DEF Request, Healthy

\* A handler takes a name, or a rank, for a player.
LEMMA TakesName ==
    ASSUME NEW q \in Request, NEW t, Healthy(q, t), q.toStore = {},
           q.step \in {"lookup", "fetch", "account", "rank", "answer"},
           NEW p \in Puuids, NEW fact \in Fact, fact.of = p
    PROVE  LET hit == [q EXCEPT !.name[p] = fact] IN hit \in Request /\ Healthy(hit, t)
<1> DEFINE hit == [q EXCEPT !.name[p] = fact]
<1>1. hit \in Request
  BY DEF Request
<1>2. /\ hit.step = q.step /\ hit.rows = q.rows /\ hit.pos = q.pos /\ hit.toStore = {}
      /\ hit.rank = q.rank /\ \A o \in Puuids : hit.name[o] = IF o = p THEN fact ELSE q.name[o]
  BY DEF Request
<1> HIDE DEF hit
<1>3. Healthy(hit, t)
  BY <1>2 DEF Healthy
<1> QED  BY <1>1, <1>3 DEF hit

LEMMA TakesRank ==
    ASSUME NEW q \in Request, NEW t, Healthy(q, t), q.toStore = {},
           q.step \in {"lookup", "fetch", "account", "rank", "answer"},
           NEW p \in Puuids, NEW fact \in Fact, fact.of = p
    PROVE  LET hit == [q EXCEPT !.rank[p] = fact] IN hit \in Request /\ Healthy(hit, t)
<1> DEFINE hit == [q EXCEPT !.rank[p] = fact]
<1>1. hit \in Request
  BY DEF Request
<1>2. /\ hit.step = q.step /\ hit.rows = q.rows /\ hit.pos = q.pos /\ hit.toStore = {}
      /\ hit.name = q.name /\ \A o \in Puuids : hit.rank[o] = IF o = p THEN fact ELSE q.rank[o]
  BY DEF Request
<1> HIDE DEF hit
<1>3. Healthy(hit, t)
  BY <1>2 DEF Healthy
<1> QED  BY <1>1, <1>3 DEF hit

LEMMA GetNameKeeps == ASSUME IInv, NEW r \in Requests, GetName(r) PROVE IInv'
<1> DEFINE next == [req[r] EXCEPT !.step = AfterLookup(r), !.pos = @ + 1]
           hit == [next EXCEPT !.name[Row(r)] = Read(names[Row(r)])]
<1>1. /\ Row(r) \in Puuids /\ req[r].pos \in 1..Len(req[r].rows) /\ req[r].step = "lookup"
      /\ req[r] \in Request /\ Healthy(req[r], now) /\ req[r].toStore = {}
  BY RowIsPlayer DEF GetName, At, IInv, TypeOK, Healthy
<1>2. /\ next \in Request /\ Healthy(next, now) /\ next.toStore = {}
      /\ next.step \in {"lookup", "fetch"}
  <2>1. /\ req[r].pos + 1 \in Nat /\ AfterLookup(r) \in {"lookup", "fetch"}
        /\ AfterLookup(r) = "lookup" => req[r].pos + 1 \in 1..Len(req[r].rows)
    BY <1>1 DEF AfterLookup, Request
  <2>2. next \in Request /\ Healthy(next, now)
    BY <1>1, <2>1, MovesOn
  <2> QED  BY <1>1, <2>1, <2>2 DEF Request
<1>3. CASE Found(names, Row(r)) /\ req' = [req EXCEPT ![r] = hit]
  <2> HIDE DEF next
  <2>1. hit \in Request /\ Healthy(hit, now)
    BY <1>1, <1>2, <1>3, FoundIsOfPlayer, TakesName
  <2> QED  BY <1>3, <2>1, ServedOnly DEF GetName
<1>4. CASE req' = [req EXCEPT ![r] = next]
  BY <1>2, <1>4, ServedOnly DEF GetName
<1>5. \/ Found(names, Row(r)) /\ req' = [req EXCEPT ![r] = hit]
      \/ req' = [req EXCEPT ![r] = next]
  BY DEF GetName, IInv, TypeOK, Request
<1> QED  BY <1>3, <1>4, <1>5

LEMMA GetAccountNameKeeps == ASSUME IInv, NEW r \in Requests, GetAccountName(r) PROVE IInv'
<1> DEFINE next == [req[r] EXCEPT !.step = "rank", !.pos = req[r].pos]
           hit == [next EXCEPT !.name[Row(r)] = Read(names[Row(r)])]
<1>1. /\ Row(r) \in Puuids /\ req[r].pos \in 1..Len(req[r].rows) /\ req[r].step = "account"
      /\ req[r] \in Request /\ Healthy(req[r], now) /\ req[r].toStore = {}
  BY RowIsPlayer DEF GetAccountName, At, IInv, TypeOK, Healthy
<1>2. next \in Request /\ Healthy(next, now) /\ next.toStore = {} /\ next.step = "rank"
  <2>1. req[r].pos \in Nat
    BY <1>1 DEF Request
  <2>2. next \in Request /\ Healthy(next, now)
    BY <1>1, <2>1, MovesOn
  <2> QED  BY <1>1, <2>2 DEF Request
<1>3. CASE Found(names, Row(r)) /\ req' = [req EXCEPT ![r] = hit]
  <2> HIDE DEF next
  <2>1. hit \in Request /\ Healthy(hit, now)
    BY <1>1, <1>2, <1>3, FoundIsOfPlayer, TakesName
  <2> QED  BY <1>3, <2>1, ServedOnly DEF GetAccountName
<1>4. CASE req' = [req EXCEPT ![r] = next]
  BY <1>2, <1>4, ServedOnly DEF GetAccountName
<1>5. \/ Found(names, Row(r)) /\ req' = [req EXCEPT ![r] = hit]
      \/ req' = [req EXCEPT ![r] = next]
  BY DEF GetAccountName, GoTo, IInv, TypeOK, Request
<1> QED  BY <1>3, <1>4, <1>5

LEMMA GetAccountRankKeeps == ASSUME IInv, NEW r \in Requests, GetAccountRank(r) PROVE IInv'
<1> DEFINE step == IF req[r].pos < Len(req[r].rows) THEN "account" ELSE "answer"
           next == [req[r] EXCEPT !.step = step, !.pos = @ + 1]
           hit == [next EXCEPT !.rank[Row(r)] = Read(ranks[Row(r)])]
<1>1. /\ Row(r) \in Puuids /\ req[r].pos \in 1..Len(req[r].rows) /\ req[r].step = "rank"
      /\ req[r] \in Request /\ Healthy(req[r], now) /\ req[r].toStore = {}
  BY RowIsPlayer DEF GetAccountRank, At, IInv, TypeOK, Healthy
<1>2. /\ next \in Request /\ Healthy(next, now) /\ next.toStore = {}
      /\ next.step \in {"account", "answer"}
  <2>1. /\ req[r].pos + 1 \in Nat /\ step \in {"account", "answer"}
        /\ step = "account" => req[r].pos + 1 \in 1..Len(req[r].rows)
    BY <1>1 DEF Request
  <2> HIDE DEF step
  <2>2. next \in Request /\ Healthy(next, now)
    BY <1>1, <2>1, MovesOn
  <2> QED  BY <1>1, <2>1, <2>2 DEF Request
<1>3. CASE Found(ranks, Row(r)) /\ req' = [req EXCEPT ![r] = hit]
  <2> HIDE DEF next
  <2>1. hit \in Request /\ Healthy(hit, now)
    BY <1>1, <1>2, <1>3, FoundIsOfPlayer, TakesRank
  <2> QED  BY <1>3, <2>1, ServedOnly DEF GetAccountRank
<1>4. CASE req' = [req EXCEPT ![r] = next]
  BY <1>2, <1>4, ServedOnly DEF GetAccountRank
<1>5. \/ /\ Found(ranks, Row(r))
         /\ req' = [req EXCEPT ![r].step = step, ![r].pos = @ + 1,
                               ![r].rank[Row(r)] = Read(ranks[Row(r)])]
      \/ req' = [req EXCEPT ![r].step = step, ![r].pos = @ + 1]
  BY DEF GetAccountRank
<1>6. \/ Found(ranks, Row(r)) /\ req' = [req EXCEPT ![r] = hit]
      \/ req' = [req EXCEPT ![r] = next]
  <2> HIDE DEF step
  <2> QED  BY <1>1, <1>5 DEF IInv, TypeOK, Request
<1> QED  BY <1>3, <1>4, <1>6

LEMMA FillPlayerNamesKeeps == ASSUME IInv, NEW r \in Requests, FillPlayerNames(r) PROVE IInv'
<1>1. /\ req[r].step = "fetch" /\ req[r] \in Request /\ Healthy(req[r], now)
      /\ req[r].toStore = {} /\ now \in Nat
  BY DEF FillPlayerNames, At, IInv, TypeOK, Healthy
<1>2. CASE Missing(r) = {} /\ GoTo(r, "page")
  <2> DEFINE q == [req[r] EXCEPT !.step = "page"]
  <2>1. q \in Request /\ Healthy(q, now)
    BY <1>1, <1>2 DEF Request, Healthy, Missing, RowsOf
  <2> QED  BY <1>2, <2>1, ServedOnly DEF GoTo, FillPlayerNames
<1>3. CASE \E said \in SUBSET Missing(r) :
              req' = [req EXCEPT ![r].step = "store", ![r].toStore = ToStore(r, said),
                                 ![r].name = NameService(r, said),
                                 ![r].failed = said # Missing(r)]
  <2>1. PICK said \in SUBSET Missing(r) :
              req' = [req EXCEPT ![r].step = "store", ![r].toStore = ToStore(r, said),
                                 ![r].name = NameService(r, said),
                                 ![r].failed = said # Missing(r)]
    BY <1>3
  <2> DEFINE q == [req[r] EXCEPT !.step = "store", !.toStore = said,
                                 !.name = NameService(r, said), !.failed = said # Missing(r)]
  <2>2. req' = [req EXCEPT ![r] = q]
    BY <2>1 DEF ToStore, IInv, TypeOK
  <2>3. /\ said \subseteq Puuids /\ said \subseteq RowsOf(r) /\ RowsOf(r) \subseteq Puuids
        /\ NameService(r, said) \in [Puuids -> Fact \cup {NoEntry}]
        /\ \A p \in said : /\ NameService(r, said)[p] = Said(p)
                           /\ Said(p).of = p /\ Said(p).at = now /\ Said(p) # NoEntry
        /\ \A p \in Puuids \ said : NameService(r, said)[p] = req[r].name[p]
    BY <1>1 DEF Missing, RowsOf, Request, NameService, Said, Fact
  <2>4. q \in Request
    BY <1>1, <2>3 DEF Request
  <2>5. /\ q.step = "store" /\ q.rows = req[r].rows /\ q.pos = req[r].pos /\ q.toStore = said
        /\ q.rank = req[r].rank /\ q.name = NameService(r, said) /\ q.failed = (said # Missing(r))
    BY <1>1 DEF Request
  <2> HIDE DEF q
  <2>6. \A p \in said : Young(q.name[p], now)
    BY <1>1, <2>3, <2>5 DEF Young
  <2>7. ~q.failed => \A i \in DOMAIN q.rows : q.name[q.rows[i]] # NoEntry
    <3> SUFFICES ASSUME said = Missing(r), NEW i \in DOMAIN req[r].rows
                 PROVE  q.name[req[r].rows[i]] # NoEntry
      BY <2>5
    <3>1. req[r].rows[i] \in Puuids /\ req[r].rows[i] \in RowsOf(r)
      BY <2>3 DEF RowsOf
    <3>2. CASE req[r].rows[i] \in said
      BY <3>2, <2>3, <2>5
    <3>3. CASE req[r].rows[i] \notin said
      <4>1. req[r].name[req[r].rows[i]] # NoEntry
        BY <3>1, <3>3 DEF Missing
      <4> QED  BY <3>1, <3>3, <4>1, <2>3, <2>5
    <3> QED  BY <3>2, <3>3
  <2>8. Healthy(q, now)
    BY <1>1, <2>3, <2>5, <2>6, <2>7 DEF Healthy
  <2> QED  BY <2>2, <2>4, <2>8, ServedOnly DEF FillPlayerNames
<1>4. CASE req' = [req EXCEPT ![r].step = "page", ![r].failed = TRUE]
  <2> DEFINE q == [req[r] EXCEPT !.step = "page", !.failed = TRUE]
  <2>1. q \in Request /\ Healthy(q, now)
    BY <1>1 DEF Request, Healthy
  <2>2. req' = [req EXCEPT ![r] = q]
    BY <1>4 DEF IInv, TypeOK
  <2> QED  BY <2>1, <2>2, ServedOnly DEF FillPlayerNames
<1> QED  BY <1>2, <1>3, <1>4 DEF FillPlayerNames

\* A name that is stored is young; one that replaces it has its own time to live.
LEMMA SetManyKeeps == ASSUME IInv, NEW r \in Requests, SetMany(r) PROVE IInv'
<1>1. /\ req[r].step = "store" /\ req[r] \in Request /\ Healthy(req[r], now) /\ now \in Nat
  BY DEF SetMany, At, IInv, TypeOK
<1>2. ASSUME NEW p \in req[r].toStore,
             names' = [names EXCEPT ![p] = Kept(req[r].name[p], NameTTL)],
             req' = [req EXCEPT ![r].toStore = @ \ {p}]
      PROVE  IInv'
  <2> DEFINE q == [req[r] EXCEPT !.toStore = @ \ {p}]
  <2>1. q \in Request /\ Healthy(q, now)
    BY <1>1 DEF Request, Healthy
  <2>2. req' = [req EXCEPT ![r] = q]
    BY <1>2 DEF IInv, TypeOK
  <2>3. /\ p \in Puuids /\ req[r].name[p] \in Fact /\ Young(req[r].name[p], now)
        /\ req[r].name[p].of = p
    BY <1>1 DEF Request, Healthy, Young
  <2>4. /\ Kept(req[r].name[p], NameTTL) \in Entry
        /\ Kept(req[r].name[p], NameTTL).of = p
        /\ Kept(req[r].name[p], NameTTL).at = req[r].name[p].at
        /\ Kept(req[r].name[p], NameTTL).until = now + NameTTL
    BY <1>1, <2>3 DEF Kept, Entry, Fact
  <2>5. names' \in [Puuids -> Entry \cup {NoEntry}] /\ InTime(names, NameTTL)'
    <3>1. names' \in [Puuids -> Entry \cup {NoEntry}]
      BY <1>2, <2>4 DEF IInv, TypeOK
    <3>2. ASSUME NEW o \in Puuids, names'[o] # NoEntry
          PROVE  /\ names'[o].of = o /\ names'[o].at <= now /\ now < names'[o].until
                 /\ names'[o].until <= names'[o].at + Lag + NameTTL
      <4>1. CASE o = p
        <5>1. names'[o] = Kept(req[r].name[p], NameTTL)
          BY <1>2, <4>1 DEF IInv, TypeOK
        <5> QED  BY <1>1, <2>3, <2>4, <4>1, <5>1 DEF Young, Fact
      <4>2. CASE o # p
        <5>1. names'[o] = names[o]
          BY <1>2, <4>2 DEF IInv, TypeOK
        <5> QED  BY <3>2, <5>1 DEF IInv, InTime
      <4> QED  BY <4>1, <4>2
    <3> QED  BY <3>1, <3>2 DEF InTime, SetMany
  <2>6. /\ ranks' \in [Puuids -> Entry \cup {NoEntry}] /\ InTime(ranks, RankTTL)'
        /\ now' = now
    BY DEF SetMany, IInv, TypeOK, InTime
  <2> HIDE DEF q
  <2> QED  BY <2>1, <2>2, <2>5, <2>6, Served
<1>3. CASE req' = [req EXCEPT ![r].toStore = {}, ![r].step = "page"] /\ UNCHANGED names
  <2> DEFINE q == [req[r] EXCEPT !.toStore = {}, !.step = "page"]
  <2>1. q \in Request /\ Healthy(q, now)
    BY <1>1 DEF Request, Healthy
  <2>2. req' = [req EXCEPT ![r] = q]
    BY <1>3 DEF IInv, TypeOK
  <2> QED  BY <1>3, <2>1, <2>2, ServedOnly DEF SetMany, caches
<1> QED  BY <1>2, <1>3 DEF SetMany

LEMMA FetchMMRKeeps == ASSUME IInv, NEW r \in Requests, FetchMMR(r) PROVE IInv'
<1>1. /\ Row(r) \in Puuids /\ req[r].pos \in 1..Len(req[r].rows) /\ req[r].step = "mmr"
      /\ req[r] \in Request /\ Healthy(req[r], now) /\ req[r].toStore = {} /\ now \in Nat
  BY RowIsPlayer DEF FetchMMR, At, IInv, TypeOK, Healthy
<1>2. CASE req' = [req EXCEPT ![r].step = "save", ![r].rank[Row(r)] = Said(Row(r))]
  <2> DEFINE q == [req[r] EXCEPT !.step = "save", !.rank[Row(r)] = Said(Row(r))]
  <2>1. Said(Row(r)) \in Fact /\ Said(Row(r)).of = Row(r) /\ Said(Row(r)).at = now
    BY <1>1 DEF Said, Fact
  <2>2. q \in Request
    BY <1>1, <2>1 DEF Request
  <2>3. /\ q.step = "save" /\ q.rows = req[r].rows /\ q.pos = req[r].pos /\ q.toStore = {}
        /\ q.name = req[r].name
        /\ \A o \in Puuids : q.rank[o] = IF o = Row(r) THEN Said(Row(r)) ELSE req[r].rank[o]
    BY <1>1 DEF Request
  <2>4. req' = [req EXCEPT ![r] = q]
    BY <1>2 DEF IInv, TypeOK
  <2> HIDE DEF q
  <2>5. Young(q.rank[q.rows[q.pos]], now)
    BY <1>1, <2>1, <2>3 DEF Young, Row, Fact
  <2>6. Healthy(q, now)
    BY <1>1, <2>1, <2>3, <2>5 DEF Healthy
  <2> QED  BY <2>2, <2>4, <2>6, ServedOnly DEF FetchMMR
<1>3. CASE Finish(r)
  BY <1>3, IdleHealthy, ServedOnly DEF FetchMMR, Finish
<1> QED  BY <1>2, <1>3 DEF FetchMMR

LEMMA SaveRankKeeps == ASSUME IInv, NEW r \in Requests, SaveRank(r) PROVE IInv'
<1>1. /\ Row(r) \in Puuids /\ req[r].pos \in 1..Len(req[r].rows) /\ req[r].step = "save"
      /\ req[r] \in Request /\ Healthy(req[r], now) /\ req[r].toStore = {} /\ now \in Nat
  BY RowIsPlayer DEF SaveRank, At, IInv, TypeOK, Healthy
<1> DEFINE q == [req[r] EXCEPT !.step = "answer"]
<1>2. q \in Request /\ Healthy(q, now) /\ req' = [req EXCEPT ![r] = q]
  BY <1>1 DEF SaveRank, GoTo, Request, Healthy
<1>3. CASE ranks' = [ranks EXCEPT ![Row(r)] = Kept(req[r].rank[Row(r)], RankTTL)]
  <2> DEFINE p == Row(r)
             kept == Kept(req[r].rank[p], RankTTL)
  <2>1. /\ p \in Puuids /\ req[r].rank[p] \in Fact /\ Young(req[r].rank[p], now)
        /\ req[r].rank[p].of = p
    BY <1>1 DEF Request, Healthy, Young, Row
  <2>2. /\ kept \in Entry /\ kept.of = p /\ kept.at = req[r].rank[p].at
        /\ kept.until = now + RankTTL
    BY <1>1, <2>1 DEF Kept, Entry, Fact
  <2>3. ranks' = [ranks EXCEPT ![p] = kept]
    BY <1>3
  <2> HIDE DEF p, kept
  <2>4. ranks' \in [Puuids -> Entry \cup {NoEntry}]
    BY <2>2, <2>3 DEF IInv, TypeOK
  <2>5. ASSUME NEW o \in Puuids, ranks'[o] # NoEntry
        PROVE  /\ ranks'[o].of = o /\ ranks'[o].at <= now /\ now < ranks'[o].until
               /\ ranks'[o].until <= ranks'[o].at + Lag + RankTTL
    <3>1. CASE o = p
      <4>1. ranks'[o] = kept
        BY <2>3, <3>1 DEF IInv, TypeOK
      <4> QED  BY <1>1, <2>1, <2>2, <3>1, <4>1 DEF Young, Fact
    <3>2. CASE o # p
      <4>1. ranks'[o] = ranks[o]
        BY <2>3, <3>2 DEF IInv, TypeOK
      <4> QED  BY <2>5, <4>1 DEF IInv, InTime
    <3> QED  BY <3>1, <3>2
  <2>6. /\ InTime(ranks, RankTTL)' /\ now' = now
        /\ names' \in [Puuids -> Entry \cup {NoEntry}] /\ InTime(names, NameTTL)'
    BY <2>5 DEF SaveRank, IInv, TypeOK, InTime
  <2> HIDE DEF q
  <2> QED  BY <1>2, <2>4, <2>6, Served
<1>4. CASE UNCHANGED ranks
  <2> HIDE DEF q
  <2> QED  BY <1>2, <1>4, ServedOnly DEF SaveRank, caches
<1> QED  BY <1>3, <1>4 DEF SaveRank

LEMMA ServeKeeps == ASSUME IInv, NEW r \in Requests, Serve(r) PROVE IInv'
<1>1. CASE Answer(r)
  BY <1>1, IdleHealthy, ServedOnly DEF Answer, Finish
<1> QED  BY <1>1, GetNameKeeps, FillPlayerNamesKeeps, SetManyKeeps, FetchMMRKeeps, SaveRankKeeps,
            GetAccountNameKeeps, GetAccountRankKeeps DEF Serve

\* What a cache holds after a tick it held before, and its time is not over.
LEMMA LeftInTime ==
    ASSUME NEW cache \in [Puuids -> Entry \cup {NoEntry}], NEW ttl, InTime(cache, ttl), now \in Nat
    PROVE  /\ Left(cache) \in [Puuids -> Entry \cup {NoEntry}]
           /\ \A p \in Puuids : Left(cache)[p] # NoEntry =>
                /\ Left(cache)[p] = cache[p]
                /\ now + 1 < cache[p].until
BY DEF Left, Entry, InTime

LEMMA TickKeeps == ASSUME IInv, Tick PROVE IInv'
<1>1. now \in Nat /\ now' = now + 1 /\ req' = req
  BY DEF Tick, IInv, TypeOK
<1>2. TypeOK'
  BY <1>1, LeftInTime DEF Tick, IInv, TypeOK
<1>3. InTime(names, NameTTL)' /\ InTime(ranks, RankTTL)'
  <2>1. ASSUME NEW p \in Puuids, names'[p] # NoEntry
        PROVE  /\ names'[p].of = p /\ names'[p].at <= now' /\ now' < names'[p].until
               /\ names'[p].until <= names'[p].at + Lag + NameTTL
    <3>1. names'[p] = names[p] /\ now + 1 < names[p].until
      BY <2>1, LeftInTime DEF Tick, IInv, TypeOK
    <3>2. names[p] # NoEntry /\ names[p] \in Entry
      BY <2>1, <3>1 DEF IInv, TypeOK
    <3> QED  BY <1>1, <3>1, <3>2 DEF IInv, InTime, Entry
  <2>2. ASSUME NEW p \in Puuids, ranks'[p] # NoEntry
        PROVE  /\ ranks'[p].of = p /\ ranks'[p].at <= now' /\ now' < ranks'[p].until
               /\ ranks'[p].until <= ranks'[p].at + Lag + RankTTL
    <3>1. ranks'[p] = ranks[p] /\ now + 1 < ranks[p].until
      BY <2>2, LeftInTime DEF Tick, IInv, TypeOK
    <3>2. ranks[p] # NoEntry /\ ranks[p] \in Entry
      BY <2>2, <3>1 DEF IInv, TypeOK
    <3> QED  BY <1>1, <3>1, <3>2 DEF IInv, InTime, Entry
  <2> QED  BY <2>1, <2>2 DEF InTime
<1>4. ASSUME NEW r \in Requests PROVE Healthy(req[r], now)'
  <2>1. Healthy(req[r], now) /\ req[r] \in Request
    BY DEF IInv, TypeOK
  <2>2. \A p \in req[r].toStore : Young(req[r].name[p], now + 1)
    <3> SUFFICES ASSUME NEW p \in req[r].toStore PROVE Young(req[r].name[p], now + 1)
      OBVIOUS
    <3>1. Young(req[r].name[p], now) /\ req[r].name[p] \in Fact
      BY <2>1 DEF Healthy, Young, Request
    <3>2. now < req[r].name[p].at + Lag
      BY DEF Tick
    <3> QED  BY <1>1, <3>1, <3>2 DEF Young, Fact
  <2>3. req[r].step = "save" => Young(req[r].rank[req[r].rows[req[r].pos]], now + 1)
    <3> SUFFICES ASSUME req[r].step = "save" PROVE Young(req[r].rank[Row(r)], now + 1)
      BY DEF Row
    <3>1. Row(r) \in Puuids
      BY RowIsPlayer
    <3>2. Young(req[r].rank[Row(r)], now)
      BY <2>1 DEF Healthy, Row
    <3>3. req[r].rank[Row(r)] \in Fact /\ now < req[r].rank[Row(r)].at + Lag
      BY <2>1, <3>1, <3>2 DEF Tick, At, Young, Request
    <3> QED  BY <1>1, <3>2, <3>3 DEF Young, Fact
  <2>4. Healthy(req[r], now + 1)
    BY <2>1, <2>2, <2>3 DEF Healthy
  <2> QED  BY <1>1, <2>4 DEF Healthy, Young
<1> QED  BY <1>2, <1>3, <1>4 DEF IInv

LEMMA RestartKeeps == ASSUME IInv, Restart PROVE IInv'
<1>1. \A r \in Requests : req'[r] = Idle
  BY DEF Restart
<1>2. TypeOK'
  BY IdleHealthy DEF Restart, caches, IInv, TypeOK
<1>3. InTime(names, NameTTL)' /\ InTime(ranks, RankTTL)'
  BY DEF Restart, caches, IInv, InTime
<1>4. \A r \in Requests : Healthy(req[r], now)'
  BY <1>1, IdleHealthy DEF Healthy, Young
<1> QED  BY <1>2, <1>3, <1>4 DEF IInv

LEMMA NextIInv == IInv /\ [Next]_vars => IInv'
<1> SUFFICES ASSUME IInv, [Next]_vars PROVE IInv'
  OBVIOUS
<1>1. CASE UNCHANGED vars
  BY <1>1 DEF vars, IInv, TypeOK, InTime, Healthy, Young
<1> QED  BY <1>1, ServeKeeps, ArriveKeeps, TickKeeps, RestartKeeps DEF Next

LEMMA Inductive == Spec => []IInv
BY InitIInv, NextIInv, PTL DEF Spec

(***************************************************************************)
(* The results.                                                            *)
(***************************************************************************)

\* The state has the shape that TypeOK says.
THEOREM TypeCorrect == Spec => []TypeOK
BY Inductive, PTL DEF IInv

\* No name or rank is shown beside another player, or stored under another's key.
THEOREM OwnNamesOnly == Spec => []ShownToOwner
<1>1. IInv => ShownToOwner
  BY DEF IInv, Healthy, ShownToOwner
<1> QED  BY <1>1, Inductive, PTL

\* A page that Riot answered in full names every player.
THEOREM NamesComplete == Spec => []PagesNamed
<1>1. IInv => PagesNamed
  BY DEF IInv, Healthy, PagesNamed, At, RowsOf
<1> QED  BY <1>1, Inductive, PTL

(***************************************************************************)
(* What is taken is young, from a cache or from Riot.                      *)
(***************************************************************************)
TakesYoung(r) ==
    \A p \in Puuids :
        /\ req[r].name[p] = NoEntry /\ req'[r].name[p] # NoEntry
           => now < req'[r].name[p].at + NameTTL + Lag
        /\ req[r].rank[p] = NoEntry /\ req'[r].rank[p] # NoEntry
           => now < req'[r].rank[p].at + RankTTL + Lag

\* What a cache holds is young enough to be shown.
LEMMA HeldIsYoung ==
    ASSUME IInv, NEW p \in Puuids
    PROVE  /\ Found(names, p) => now < Read(names[p]).at + NameTTL + Lag
           /\ Found(ranks, p) => now < Read(ranks[p]).at + RankTTL + Lag
<1>1. now \in Nat /\ names[p] \in Entry \cup {NoEntry} /\ ranks[p] \in Entry \cup {NoEntry}
  BY DEF IInv, TypeOK
<1> QED  BY <1>1 DEF IInv, InTime, Found, Read, Entry

LEMMA TakesNothing ==
    ASSUME NEW r, req'[r].name = req[r].name, req'[r].rank = req[r].rank
    PROVE  TakesYoung(r)
BY DEF TakesYoung

\* A step for one request leaves the others.
LEMMA ServesOne ==
    ASSUME IInv, NEW s \in Requests, Serve(s), NEW r \in Requests, r # s PROVE req'[r] = req[r]
BY DEF Serve, GetName, FillPlayerNames, SetMany, FetchMMR, SaveRank, GetAccountName,
       GetAccountRank, Answer, Finish, GoTo, IInv, TypeOK

LEMMA ServeTakesYoung ==
    ASSUME IInv, NEW r \in Requests, Serve(r) PROVE TakesYoung(r)
<1> DEFINE SameNames == req'[r].name = req[r].name
           SameRanks == req'[r].rank = req[r].rank
           CachedName(p) == Found(names, p) /\ req'[r].name[p] = Read(names[p])
           CachedRank(p) == Found(ranks, p) /\ req'[r].rank[p] = Read(ranks[p])
<1>0. /\ req[r] \in Request /\ req \in [Requests -> Request] /\ now \in Nat
      /\ now < now + NameTTL + Lag /\ now < now + RankTTL + Lag
      /\ req[r].name \in [Puuids -> Fact \cup {NoEntry}]
      /\ req[r].rank \in [Puuids -> Fact \cup {NoEntry}]
  BY DEF IInv, TypeOK, Request
<1>1. CASE GetName(r) \/ GetAccountName(r)
  <2>1. Row(r) \in Puuids
    BY <1>1, RowIsPlayer DEF GetName, GetAccountName, At
  <2>2. SameRanks
    BY <1>0, <1>1 DEF GetName, GetAccountName, GoTo, Request
  <2>3. \/ SameNames
        \/ Found(names, Row(r)) /\ req'[r].name = [req[r].name EXCEPT ![Row(r)] = Read(names[Row(r)])]
    BY <1>0, <1>1 DEF GetName, GetAccountName, GoTo, Request
  <2>4. \A p \in Puuids : req'[r].name[p] = req[r].name[p] \/ CachedName(p)
    BY <1>0, <2>1, <2>3
  <2> QED  BY <2>2, <2>4, HeldIsYoung DEF TakesYoung
<1>2. CASE FillPlayerNames(r)
  <2>1. ASSUME NEW said \in SUBSET Missing(r),
               req' = [req EXCEPT ![r].step = "store", ![r].toStore = ToStore(r, said),
                                  ![r].name = NameService(r, said),
                                  ![r].failed = said # Missing(r)]
        PROVE  TakesYoung(r)
    <3>1. SameRanks /\ req'[r].name = NameService(r, said)
      BY <1>0, <2>1 DEF Request
    <3>2. \A p \in Puuids : \/ req'[r].name[p] = req[r].name[p]
                           \/ req'[r].name[p].at = now
      BY <3>1 DEF NameService, Said
    <3> QED  BY <1>0, <3>1, <3>2 DEF TakesYoung
  <2>2. CASE req' = [req EXCEPT ![r].step = "page"]
    BY <1>0, <2>2, TakesNothing DEF Request
  <2>3. CASE req' = [req EXCEPT ![r].step = "page", ![r].failed = TRUE]
    BY <1>0, <2>3, TakesNothing DEF Request
  <2> QED  BY <1>2, <2>1, <2>2, <2>3 DEF FillPlayerNames, GoTo
<1>3. CASE SetMany(r)
  <2>1. CASE \E p \in req[r].toStore : req' = [req EXCEPT ![r].toStore = @ \ {p}]
    BY <1>0, <2>1, TakesNothing DEF Request
  <2>2. CASE req' = [req EXCEPT ![r].toStore = {}, ![r].step = "page"]
    BY <1>0, <2>2, TakesNothing DEF Request
  <2> QED  BY <1>3, <2>1, <2>2 DEF SetMany
<1>4. CASE FetchMMR(r)
  <2>1. Row(r) \in Puuids
    BY <1>4, RowIsPlayer DEF FetchMMR, At
  <2>2. CASE Finish(r)
    BY <1>0, <2>2 DEF Finish, Idle, Nothing, TakesYoung
  <2>3. CASE req' = [req EXCEPT ![r].step = "save", ![r].rank[Row(r)] = Said(Row(r))]
    <3>1. SameNames /\ req'[r].rank = [req[r].rank EXCEPT ![Row(r)] = Said(Row(r))]
      BY <1>0, <2>3 DEF Request
    <3>2. \A p \in Puuids : \/ req'[r].rank[p] = req[r].rank[p]
                           \/ req'[r].rank[p].at = now
      BY <1>0, <2>1, <3>1 DEF Said
    <3> QED  BY <1>0, <3>1, <3>2 DEF TakesYoung
  <2> QED  BY <1>4, <2>2, <2>3 DEF FetchMMR
<1>5. CASE SaveRank(r)
  BY <1>0, <1>5, TakesNothing DEF SaveRank, GoTo, Request
<1>6. CASE GetAccountRank(r)
  <2>1. Row(r) \in Puuids
    BY <1>6, RowIsPlayer DEF GetAccountRank, At
  <2>2. SameNames
    BY <1>0, <1>6 DEF GetAccountRank, Request
  <2>3. \/ SameRanks
        \/ Found(ranks, Row(r)) /\ req'[r].rank = [req[r].rank EXCEPT ![Row(r)] = Read(ranks[Row(r)])]
    BY <1>0, <1>6 DEF GetAccountRank, Request
  <2>4. \A p \in Puuids : req'[r].rank[p] = req[r].rank[p] \/ CachedRank(p)
    BY <1>0, <2>1, <2>3
  <2> QED  BY <2>2, <2>4, HeldIsYoung DEF TakesYoung
<1>7. CASE Answer(r)
  BY <1>0, <1>7 DEF Answer, Finish, Idle, Nothing, TakesYoung
<1> QED  BY <1>1, <1>2, <1>3, <1>4, <1>5, <1>6, <1>7 DEF Serve

LEMMA ArriveTakesNothing ==
    ASSUME IInv, NEW s \in Requests, Arrive(s), NEW r \in Requests PROVE TakesYoung(r)
<1>1. \E step, rows : Serving(s, step, rows)
  BY DEF Arrive, GetMatchHistory, ToMatchDTO, GetMMR, GetAccounts
<1>2. PICK step, rows : Serving(s, step, rows)
  BY <1>1
<1>3. req'[r] = req[r] \/ (req'[r].name = Nothing /\ req'[r].rank = Nothing)
  BY <1>2 DEF Serving, Idle, IInv, TypeOK
<1> QED  BY <1>3 DEF TakesYoung, Nothing

\* Nothing is shown that was heard longer ago than its time to live and Lag.
THEOREM ShownYoung == Spec => ShownInTime
<1> DEFINE A == \A r \in Requests : TakesYoung(r)
<1>1. IInv /\ [Next]_vars => [A]_vars
  <2> SUFFICES ASSUME IInv, Next PROVE A
    OBVIOUS
  <2>1. CASE Tick
    BY <2>1 DEF Tick, TakesYoung
  <2>2. CASE Restart
    BY <2>2 DEF Restart, TakesYoung, Idle, Nothing
  <2>3. ASSUME NEW s \in Requests, Serve(s), NEW r \in Requests PROVE TakesYoung(r)
    BY <2>3, ServeTakesYoung, ServesOne, TakesNothing
  <2> QED  BY <2>1, <2>2, <2>3, ArriveTakesNothing DEF Next
<1>2. [A]_vars => [\A r \in Requests, p \in Puuids :
          /\ req[r].name[p] = NoEntry /\ req'[r].name[p] # NoEntry
             => now < req'[r].name[p].at + NameTTL + Lag
          /\ req[r].rank[p] = NoEntry /\ req'[r].rank[p] # NoEntry
             => now < req'[r].rank[p].at + RankTTL + Lag]_vars
  BY DEF TakesYoung
<1> HIDE DEF A
<1>3. [][A]_vars => ShownInTime
  BY <1>2, PTL DEF ShownInTime
<1> QED  BY <1>1, <1>3, Inductive, PTL DEF Spec

(***************************************************************************)
(* Each cache implements FreshCache.                                       *)
(***************************************************************************)
LEMMA ArriveLeavesCaches ==
    ASSUME NEW r, Arrive(r) PROVE UNCHANGED <<now, names, ranks>>
BY DEF Arrive, GetMatchHistory, GetMMR, GetAccounts, caches

\* A fact that is young and its player's is what the abstract cache may store.
LEMMA StoresYoung ==
    ASSUME NEW p \in Puuids, NEW fact \in Fact, fact.of = p, Young(fact, now), now \in Nat,
           NEW ttl
    PROVE  \E ago \in 0..Lag : /\ ago <= now
                               /\ ttl \in Always(ttl)[now - ago]
                               /\ Kept(fact, ttl) = [of |-> p, at |-> now - ago, until |-> now + ttl]
<1>1. fact.at \in Nat /\ now - fact.at \in 0..Lag
  BY DEF Young, Fact
<1>2. Kept(fact, ttl) = [of |-> p, at |-> now - (now - fact.at), until |-> now + ttl]
  BY <1>1 DEF Kept
<1>3. now - (now - fact.at) \in Nat
  BY <1>1
<1>4. ttl \in Always(ttl)[now - (now - fact.at)]
  BY <1>3 DEF Always
<1> QED  BY <1>1, <1>2, <1>4

\* The names in Redis, which overlapping requests set key by key.
THEOREM NamesAreFresh == Spec => NamesFresh
<1>1. Init => Names!Init
  BY DEF Init, Names!Init, Nothing
<1>2. IInv /\ [Next]_vars => [Names!Next]_(Names!vars)
  <2> SUFFICES ASSUME IInv, [Next]_vars, ~UNCHANGED <<now, names>> PROVE Names!Next
    BY DEF Names!vars
  <2>1. CASE Tick
    BY <2>1 DEF Tick, Left, Names!Next, Names!Tick
  <2>2. ASSUME NEW r \in Requests, SetMany(r) PROVE Names!Next
    <3>1. PICK p \in req[r].toStore : names' = [names EXCEPT ![p] = Kept(req[r].name[p], NameTTL)]
      BY <2>2 DEF SetMany
    <3>2. /\ p \in Puuids /\ req[r].name[p] \in Fact /\ req[r].name[p].of = p
          /\ Young(req[r].name[p], now) /\ now \in Nat /\ now' = now
      BY <2>2 DEF SetMany, IInv, TypeOK, Request, Healthy, Young
    <3>3. Names!Store(p)
      <4>1. PICK ago \in 0..Lag :
               /\ ago <= now /\ NameTTL \in Always(NameTTL)[now - ago]
               /\ Kept(req[r].name[p], NameTTL) = [of |-> p, at |-> now - ago, until |-> now + NameTTL]
        BY <3>2, StoresYoung
      <4> QED  BY <3>1, <3>2, <4>1 DEF Names!Store
    <3> QED  BY <3>2, <3>3 DEF Names!Next
  <2>3. CASE Restart
    BY <2>3 DEF Restart, caches
  <2>4. ASSUME NEW r \in Requests, Serve(r), ~SetMany(r) PROVE UNCHANGED <<now, names>>
    BY <2>4 DEF Serve, GetName, FillPlayerNames, FetchMMR, SaveRank, GetAccountName,
                GetAccountRank, Answer, caches
  <2> QED  BY <2>1, <2>2, <2>3, <2>4, ArriveLeavesCaches DEF Next, vars
<1> QED  BY <1>1, <1>2, Inductive, PTL DEF Spec, NamesFresh, Names!Spec

\* The ranks in Redis.
THEOREM RanksAreFresh == Spec => RanksFresh
<1>1. Init => Ranks!Init
  BY DEF Init, Ranks!Init, Nothing
<1>2. IInv /\ [Next]_vars => [Ranks!Next]_(Ranks!vars)
  <2> SUFFICES ASSUME IInv, [Next]_vars, ~UNCHANGED <<now, ranks>> PROVE Ranks!Next
    BY DEF Ranks!vars
  <2>1. CASE Tick
    BY <2>1 DEF Tick, Left, Ranks!Next, Ranks!Tick
  <2>2. ASSUME NEW r \in Requests, SaveRank(r) PROVE Ranks!Next
    <3>1. /\ ranks' = [ranks EXCEPT ![Row(r)] = Kept(req[r].rank[Row(r)], RankTTL)]
          /\ req[r].step = "save" /\ now' = now
      BY <2>2 DEF SaveRank, At
    <3>2. Row(r) \in Puuids
      BY <3>1, RowIsPlayer
    <3>3. /\ req[r].rank[Row(r)] \in Fact /\ req[r].rank[Row(r)].of = Row(r)
          /\ Young(req[r].rank[Row(r)], now) /\ now \in Nat
      <4>1. req[r] \in Request /\ Healthy(req[r], now) /\ now \in Nat
        BY DEF IInv, TypeOK
      <4>2. req[r].rank \in [Puuids -> Fact \cup {NoEntry}] /\ Young(req[r].rank[Row(r)], now)
        BY <3>1, <4>1 DEF Request, Healthy, Row
      <4> QED  BY <3>2, <4>1, <4>2 DEF Young, Healthy
    <3>4. Ranks!Store(Row(r))
      <4>1. PICK ago \in 0..Lag :
               /\ ago <= now /\ RankTTL \in Always(RankTTL)[now - ago]
               /\ Kept(req[r].rank[Row(r)], RankTTL) = [of |-> Row(r), at |-> now - ago, until |-> now + RankTTL]
        BY <3>2, <3>3, StoresYoung
      <4> QED  BY <3>1, <4>1 DEF Ranks!Store
    <3> QED  BY <3>2, <3>4 DEF Ranks!Next
  <2>3. CASE Restart
    BY <2>3 DEF Restart, caches
  <2>4. ASSUME NEW r \in Requests, Serve(r), ~SaveRank(r) PROVE UNCHANGED <<now, ranks>>
    BY <2>4 DEF Serve, GetName, FillPlayerNames, SetMany, FetchMMR, GetAccountName,
                GetAccountRank, Answer, caches
  <2> QED  BY <2>1, <2>2, <2>3, <2>4, ArriveLeavesCaches DEF Next, vars
<1> QED  BY <1>1, <1>2, Inductive, PTL DEF Spec, RanksFresh, Ranks!Spec

\* Both caches keep what FreshCache promises, side by side.
THEOREM CachesAreFresh == Spec => CachesFresh
BY NamesAreFresh, RanksAreFresh DEF CachesFresh
=============================================================================
