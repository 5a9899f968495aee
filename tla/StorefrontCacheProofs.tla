------------------------ MODULE StorefrontCacheProofs ------------------------
(***************************************************************************)
(* Proofs about StorefrontCache, for any periods, lag and requests.        *)
(*                                                                         *)
(* StaleForLagOnly is not inductive: it speaks of the time that passes     *)
(* while an entry is in the cache.  What makes it so is how late an entry   *)
(* may end, and that a request which has yet to save is not late itself.   *)
(***************************************************************************)
EXTENDS StorefrontCache, TLAPS

Timely == \A r \in Requests : At(r, "enrich") => req[r].at <= now /\ now <= req[r].at + Lag

EndsInTime ==
    cached # NoEntry => /\ cached.sections # {}
                        /\ now < cached.until
                        /\ \A s \in cached.sections :
                               cached.until <= cached.at + Left(s, cached.at) + Lag

IInv == TypeOK /\ Timely /\ EndsInTime

USE PeriodAssumption, LagAssumption, MaxTimeAssumption, NoEntryAssumption

\* One more duration makes the result shorter or leaves it, and a zero does not count.
LEMMA ShorterIsShorter ==
    ASSUME NEW m \in Nat, NEW s \in Nat
    PROVE  /\ Shorter(m, s) \in Nat
           /\ Shorter(m, s) = 0 <=> m = 0 /\ s = 0
           /\ m > 0 => Shorter(m, s) <= m
           /\ s > 0 => Shorter(m, s) <= s
           /\ Shorter(m, s) \in {m, s}
BY DEF Shorter

\* storefrontTTL returns the least of the durations that are not zero, and zero when
\* all of them are.
THEOREM TTLIsShortest ==
    ASSUME NEW a \in Nat, NEW b \in Nat, NEW c \in Nat
    PROVE  /\ Shortest(a, b, c) \in Nat
           /\ Shortest(a, b, c) = 0 <=> a = 0 /\ b = 0 /\ c = 0
           /\ \A d \in {a, b, c} : d > 0 => Shortest(a, b, c) <= d
           /\ Shortest(a, b, c) > 0 => Shortest(a, b, c) \in {a, b, c}
<1> DEFINE x == Shorter(0, a)
           y == Shorter(x, b)
           z == Shorter(y, c)
<1>1. x \in Nat /\ (x = 0 <=> a = 0) /\ (a > 0 => x <= a) /\ x \in {0, a}
  BY ShorterIsShorter
<1>2. y \in Nat /\ (y = 0 <=> x = 0 /\ b = 0) /\ (x > 0 => y <= x) /\ (b > 0 => y <= b) /\ y \in {x, b}
  BY <1>1, ShorterIsShorter
<1>3. z \in Nat /\ (z = 0 <=> y = 0 /\ c = 0) /\ (y > 0 => z <= y) /\ (c > 0 => z <= c) /\ z \in {y, c}
  BY <1>2, ShorterIsShorter
<1>4. Shortest(a, b, c) = z
  BY DEF Shortest
<1> HIDE DEF x, y, z
<1> QED  BY <1>1, <1>2, <1>3, <1>4

\* A section that is there has some time left.
LEMMA LeftIsPositive ==
    ASSUME NEW s \in Sections, NEW t \in Nat
    PROVE  Left(s, t) \in Nat \ {0}
<1>1. Period[s] \in Nat \ {0}
  OBVIOUS
<1>2. t % Period[s] \in 0 .. (Period[s] - 1)
  BY <1>1
<1> QED  BY <1>1, <1>2 DEF Left

\* The TTL is zero for an empty storefront only, and no section ends before it.
LEMMA TTLOfStorefront ==
    ASSUME NEW t \in Nat, NEW sections \in SUBSET Sections
    PROVE  /\ StorefrontTTL(t, sections) \in Nat
           /\ StorefrontTTL(t, sections) > 0 => sections # {}
           /\ \A s \in sections : StorefrontTTL(t, sections) <= Left(s, t)
<1> DEFINE a == Remaining("skins", t, sections)
           b == Remaining("bundles", t, sections)
           c == Remaining("accessories", t, sections)
<1>1. \A s \in Sections : /\ Remaining(s, t, sections) \in Nat
                          /\ s \in sections => /\ Remaining(s, t, sections) = Left(s, t)
                                               /\ Left(s, t) > 0
                          /\ s \notin sections => Remaining(s, t, sections) = 0
  BY LeftIsPositive DEF Remaining
<1>2. a \in Nat /\ b \in Nat /\ c \in Nat
  BY <1>1 DEF Sections
<1>3. StorefrontTTL(t, sections) = Shortest(a, b, c)
  BY DEF StorefrontTTL
<1>4. sections = {} => a = 0 /\ b = 0 /\ c = 0
  BY DEF Remaining
<1>5. \A s \in sections : Left(s, t) > 0 /\ Left(s, t) \in {a, b, c}
  BY <1>1 DEF Sections
<1> HIDE DEF a, b, c
<1>6. /\ Shortest(a, b, c) \in Nat
      /\ Shortest(a, b, c) = 0 <=> a = 0 /\ b = 0 /\ c = 0
      /\ \A d \in {a, b, c} : d > 0 => Shortest(a, b, c) <= d
  BY <1>2, TTLIsShortest
<1>7. StorefrontTTL(t, sections) > 0 => sections # {}
  BY <1>3, <1>4, <1>6
<1>8. \A s \in sections : StorefrontTTL(t, sections) <= Left(s, t)
  BY <1>3, <1>5, <1>6
<1> QED  BY <1>3, <1>6, <1>7, <1>8

\* Nothing is cached at first.
LEMMA InitIInv == Init => IInv
BY DEF Init, IInv, TypeOK, Timely, EndsInTime, Idle, Request, At

(***************************************************************************)
(* A step of a request that leaves clock and cache alone, and gives it no   *)
(* storefront to save.                                                     *)
(***************************************************************************)
LEMMA QuietStep ==
    ASSUME IInv, NEW r \in Requests, NEW q \in Request,
           req' = [req EXCEPT ![r] = q],
           q.step # "enrich",
           UNCHANGED now,
           cached' \in {cached, NoEntry}
    PROVE  IInv'
<1>1. TypeOK'
  BY DEF IInv, TypeOK
<1>2. Timely'
  BY DEF IInv, TypeOK, Timely, At
<1>3. EndsInTime'
  BY DEF IInv, EndsInTime
<1> QED  BY <1>1, <1>2, <1>3 DEF IInv

\* Every handler step but the fetch is a quiet one, or a save.
LEMMA SaveIInv ==
    ASSUME IInv, NEW r \in Requests, Save(r)
    PROVE  IInv'
<1> DEFINE t == req[r].at
           sections == req[r].sections
           ttl == StorefrontTTL(t, sections)
           q == [req[r] EXCEPT !.step = "answer"]
<1>1. /\ t \in Nat /\ sections \in SUBSET Sections
      /\ At(r, "enrich") /\ t <= now /\ now <= t + Lag /\ now \in Nat
  BY DEF IInv, TypeOK, Timely, Save, Request
<1>2. q \in Request /\ q.step # "enrich" /\ req' = [req EXCEPT ![r] = q]
  BY DEF IInv, TypeOK, Save, GoTo, Request
<1>3. CASE cached' = cached
  <2>1. UNCHANGED now
    BY DEF Save
  <2> QED  BY <1>2, <1>3, <2>1, QuietStep
<1>4. CASE ttl > 0 /\ cached' = [at |-> t, sections |-> sections, until |-> now + ttl]
  <2>1. /\ ttl \in Nat
        /\ sections # {}
        /\ \A s \in sections : ttl <= Left(s, t)
    BY <1>1, <1>4, TTLOfStorefront
  <2> DEFINE e == [at |-> t, sections |-> sections, until |-> now + ttl]
  <2> HIDE DEF ttl
  <2>2. /\ e \in Entry /\ e.sections = sections /\ e.at = t /\ e.until = now + ttl
    BY <1>1, <2>1 DEF Entry
  <2>3. cached' = e /\ now' = now
    BY <1>4 DEF Save
  <2>4. TypeOK'
    BY <1>2, <2>2, <2>3 DEF IInv, TypeOK
  <2>5. Timely'
    BY <1>2, <2>3 DEF IInv, TypeOK, Timely, At
  <2>6. ASSUME NEW s \in sections
        PROVE  now + ttl <= t + Left(s, t) + Lag
    <3>1. Left(s, t) \in Nat /\ ttl <= Left(s, t)
      BY <1>1, <2>1, LeftIsPositive
    <3> QED  BY <1>1, <2>1, <3>1
  <2>7. now < now + ttl
    BY <1>1, <1>4, <2>1
  <2> HIDE DEF e, t, sections
  <2>8. EndsInTime'
    BY <2>1, <2>2, <2>3, <2>6, <2>7 DEF EndsInTime, Left
  <2> QED  BY <2>4, <2>5, <2>8 DEF IInv
<1> QED  BY <1>3, <1>4 DEF Save

\* The storefront a request fetches is of this very moment.
LEMMA GetStorefrontIInv ==
    ASSUME IInv, NEW r \in Requests, GetStorefront(r)
    PROVE  IInv'
<1>1. CASE Finish(r)
  <2>1. Idle \in Request /\ Idle.step # "enrich"
    BY DEF Idle, Request
  <2> QED  BY <1>1, <2>1, QuietStep DEF Finish, GetStorefront
<1>2. ASSUME NEW sections \in SUBSET Sections,
             req' = [req EXCEPT ![r] = [step |-> "enrich", at |-> now, sections |-> sections]]
      PROVE  IInv'
  <2>1. TypeOK'
    BY <1>2 DEF IInv, TypeOK, GetStorefront, Request
  <2>2. now \in Nat /\ now <= now + Lag /\ UNCHANGED <<now, cached>>
    BY DEF IInv, TypeOK, GetStorefront
  <2>3. Timely'
    BY <1>2, <2>2 DEF IInv, TypeOK, Timely, At
  <2>4. EndsInTime'
    BY <2>2 DEF IInv, EndsInTime
  <2> QED  BY <2>1, <2>3, <2>4 DEF IInv
<1> QED  BY <1>1, <1>2 DEF GetStorefront

\* The other steps of a handler.
LEMMA ServeIInv ==
    ASSUME IInv, NEW r \in Requests, NEW force \in BOOLEAN,
           \/ GetUserStore(r, force) \/ Invalidate(r) \/ Lookup(r) \/ Answer(r)
    PROVE  IInv'
<1>1. ASSUME NEW step \in {"invalidate", "lookup", "fetch", "answer"}, GoTo(r, step),
             UNCHANGED now, cached' \in {cached, NoEntry}
      PROVE  IInv'
  <2> DEFINE q == [req[r] EXCEPT !.step = step]
  <2>1. q \in Request /\ q.step # "enrich" /\ req' = [req EXCEPT ![r] = q]
    BY <1>1 DEF IInv, TypeOK, GoTo, Request
  <2> HIDE DEF q
  <2> QED  BY <1>1, <2>1, QuietStep
<1>2. CASE GetUserStore(r, force)
  BY <1>1, <1>2 DEF GetUserStore
<1>3. CASE Invalidate(r)
  BY <1>1, <1>3 DEF Invalidate
<1>4. CASE Lookup(r)
  BY <1>1, <1>4 DEF Lookup
<1>5. CASE Answer(r)
  <2>1. Idle \in Request /\ Idle.step # "enrich"
    BY DEF Idle, Request
  <2> QED  BY <1>5, <2>1, QuietStep DEF Finish, Answer
<1> QED  BY <1>2, <1>3, <1>4, <1>5

\* Time passes, and an entry whose time is over is gone.
LEMMA TickIInv ==
    ASSUME IInv, Tick
    PROVE  IInv'
<1>1. TypeOK'
  BY DEF IInv, TypeOK, Tick
<1>2. Timely'
  <2>1. ASSUME NEW r \in Requests, At(r, "enrich")
        PROVE  req[r].at <= now + 1 /\ now + 1 <= req[r].at + Lag
    <3>1. req[r].at \in Nat /\ now \in Nat
      BY DEF IInv, TypeOK, Request
    <3> QED  BY <2>1, <3>1 DEF IInv, Timely, Tick
  <2> QED  BY <2>1 DEF Timely, At, Tick
<1>3. EndsInTime'
  <2>1. CASE cached' = NoEntry
    BY <2>1 DEF EndsInTime
  <2>2. CASE cached # NoEntry /\ cached' = cached /\ ~ cached.until <= now + 1
    <3>1. cached.until \in Nat /\ now \in Nat
      BY <2>2 DEF IInv, TypeOK, Entry
    <3> QED  BY <2>2, <3>1 DEF IInv, EndsInTime, Tick
  <2> QED  BY <2>1, <2>2 DEF Tick
<1> QED  BY <1>1, <1>2, <1>3 DEF IInv

\* Requests are lost, the cache is not.
LEMMA RestartIInv ==
    ASSUME IInv, Restart
    PROVE  IInv'
BY DEF IInv, TypeOK, Timely, EndsInTime, Restart, Idle, Request, At

\* The strengthening is an invariant of every behaviour.
THEOREM Inductive == Spec => []IInv
<1>1. ASSUME IInv, [Next]_vars
      PROVE  IInv'
  <2>1. ASSUME NEW r \in Requests, Serve(r)
        PROVE  IInv'
    BY <1>1, <2>1, SaveIInv, GetStorefrontIInv, ServeIInv DEF Serve
  <2>2. ASSUME NEW r \in Requests, NEW force \in BOOLEAN, GetUserStore(r, force)
        PROVE  IInv'
    BY <1>1, <2>2, ServeIInv
  <2>3. CASE UNCHANGED vars
    BY <1>1, <2>3 DEF IInv, TypeOK, Timely, EndsInTime, vars, At
  <2> QED  BY <1>1, <2>1, <2>2, <2>3, TickIInv, RestartIInv DEF Next
<1> QED  BY <1>1, InitIInv, PTL DEF Spec

\* The variables keep their types.
THEOREM TypeCorrect == Spec => []TypeOK
BY Inductive, PTL DEF IInv

\* No section of a cached storefront is out of date by Lag or more.
THEOREM CacheIsStaleForLagOnly == Spec => []StaleForLagOnly
<1>1. IInv => StaleForLagOnly
  <2> SUFFICES ASSUME IInv, cached # NoEntry, NEW s \in cached.sections
               PROVE  now < cached.at + Left(s, cached.at) + Lag
    BY DEF StaleForLagOnly
  <2>1. /\ now \in Nat /\ cached.until \in Nat /\ cached.at \in Nat
        /\ s \in Sections
    BY DEF IInv, TypeOK, Entry
  <2>2. Left(s, cached.at) \in Nat
    BY <2>1, LeftIsPositive
  <2>3. now < cached.until /\ cached.until <= cached.at + Left(s, cached.at) + Lag
    BY DEF IInv, EndsInTime
  <2> QED  BY <2>1, <2>2, <2>3
<1> QED  BY <1>1, Inductive, PTL

\* An answer of Riot without a single section is never cached, since nothing
\* would say when it ends.
EmptyNeverCached == cached # NoEntry => cached.sections # {}

\* A storefront without sections is never cached.
THEOREM EmptyIsNeverCached == Spec => []EmptyNeverCached
<1>1. IInv => EmptyNeverCached
  BY DEF IInv, EndsInTime, EmptyNeverCached
<1> QED  BY <1>1, Inductive, PTL

(***************************************************************************)
(* The cache implements FreshCache.                                        *)
(***************************************************************************)

\* What FreshCache sees of an entry.
Held(entry) == [k \in {"storefront"} |-> IF entry = NoEntry THEN NoEntry
                                         ELSE [of |-> k, at |-> entry.at, until |-> entry.until]]

\* A TTL that is not zero is what one of the sections has left.
LEMMA TTLIsOfASection ==
    ASSUME NEW t \in Nat, NEW sections \in SUBSET Sections, StorefrontTTL(t, sections) > 0
    PROVE  \E s \in Sections : StorefrontTTL(t, sections) = Left(s, t)
<1> DEFINE a == Remaining("skins", t, sections)
           b == Remaining("bundles", t, sections)
           c == Remaining("accessories", t, sections)
<1>1. \A s \in Sections : Remaining(s, t, sections) \in {0, Left(s, t)}
  BY DEF Remaining
<1>2. a \in Nat /\ b \in Nat /\ c \in Nat
  BY LeftIsPositive DEF Remaining, Sections
<1>3. StorefrontTTL(t, sections) \in {a, b, c}
  BY <1>2, TTLIsShortest DEF StorefrontTTL
<1> HIDE DEF a, b, c
<1>4. \E s \in Sections : StorefrontTTL(t, sections) = Remaining(s, t, sections)
  BY <1>3 DEF a, b, c, Sections
<1> QED  BY <1>1, <1>4

\* A save stores what was said within the last Lag, for as long as a section lasted then.
LEMMA SaveStores == ASSUME IInv, NEW r \in Requests, Save(r), cached' # cached PROVE Promise!Next
<1> DEFINE t == req[r].at
           ttl == StorefrontTTL(t, req[r].sections)
           k == "storefront"
           e == [at |-> t, sections |-> req[r].sections, until |-> now + ttl]
<1>1. /\ t \in Nat /\ req[r].sections \in SUBSET Sections
      /\ t <= now /\ now <= t + Lag /\ now \in Nat
  BY DEF IInv, TypeOK, Timely, Save, Request
<1>2. ttl > 0 /\ cached' = e /\ now' = now
  BY DEF Save
<1>3. PICK s \in Sections : ttl = Left(s, t)
  BY <1>1, <1>2, TTLIsOfASection
<1>4. now - t \in 0..Lag /\ now - t <= now /\ now - (now - t) = t
  BY <1>1
<1>5. ttl \in Nat
  BY <1>1, TTLOfStorefront
<1> HIDE DEF ttl
<1>6. e \in Entry /\ e # NoEntry
  BY <1>1, <1>5 DEF Entry
<1>7. Held(cached') = [Held(cached) EXCEPT ![k] = [of |-> k, at |-> t, until |-> now + ttl]]
  BY <1>2, <1>6 DEF Held
<1>8. Promise!Store(k)
  BY <1>1, <1>2, <1>3, <1>4, <1>7 DEF Promise!Store, Held
<1> QED  BY <1>8 DEF Promise!Next

\* A storefront is in the cache as FreshCache promises.
THEOREM StorefrontIsFresh == Spec => StorefrontFresh
<1>1. Init => Promise!Init
  BY DEF Init, Promise!Init
<1>2. IInv /\ [Next]_vars => [Promise!Next]_(Promise!vars)
  <2> SUFFICES ASSUME IInv, [Next]_vars, ~UNCHANGED <<now, cached>> PROVE Promise!Next
    BY DEF Promise!vars
  <2>1. CASE Tick
    BY <2>1 DEF Tick, Promise!Next, Promise!Tick
  <2>2. ASSUME NEW r \in Requests, Invalidate(r) PROVE Promise!Next
    <3>1. cached' = NoEntry /\ now' = now
      BY <2>2 DEF Invalidate
    <3>2. Promise!Invalidate("storefront")
      BY <3>1 DEF Promise!Invalidate
    <3> QED  BY <3>2 DEF Promise!Next
  <2>3. ASSUME NEW r \in Requests, Save(r) PROVE Promise!Next
    BY <2>3, SaveStores DEF Save
  <2> QED  BY <2>1, <2>2, <2>3 DEF Next, Serve, GetUserStore, Lookup, GetStorefront, Answer, Restart, vars
<1> QED  BY <1>1, <1>2, Inductive, PTL DEF Spec, StorefrontFresh, Promise!Spec
===========================================================================
