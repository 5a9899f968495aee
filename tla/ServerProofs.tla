---------------------------- MODULE ServerProofs ----------------------------
(***************************************************************************)
(* Proofs about Server, for any clients, goroutines, pool, history and     *)
(* times.  They need no fairness.                                          *)
(*                                                                         *)
(* The connections are counted over two kinds of holders; what a process   *)
(* that drains may cut off rests on the age of each request being the time *)
(* since Shutdown at least, which holds since no request is accepted then; *)
(* and how old a request may be on how many calls lead to its step.        *)
(***************************************************************************)
EXTENDS Server, FiniteSetTheorems, TLAPS

\* Where a handler may be at each step.
Placed(q) == /\ q.step \in {"idle", "version", "entitlement", "history"} => q.match = 1
             /\ q.step \in LoopSteps => q.match \in 1..Recent
             /\ q.step \in {"read"} \cup EnrichSteps => q.match \in 1..q.listed

\* The age of a request is that of the calls before its step and of the one under way.
Paced(q) == /\ q.step \notin OutsideSteps => q.call = 0
            /\ q.call <= CallTime
            /\ q.age <= CallTime * CallsBefore(q) + q.call

\* And where it may hold a connection.
Sound(q) == /\ q.conn => q.step \in DbSteps
            /\ q.step = "commit" => q.conn
            /\ Placed(q)
            /\ Paced(q)

Equipped == /\ phase \in {"redis", "postgres"} \cup Open => Settings \cap missing = {}
            /\ phase \in {"postgres"} \cup Open => "redis" \notin missing
            /\ phase \in Open => "postgres" \notin missing

Aged == /\ phase # "draining" => drain = 0
        /\ drain <= DrainTime
        /\ \A c \in Clients : phase = "draining" /\ Busy(c) => req[c].age >= drain

Closed == phase \notin Open => /\ \A c \in Clients : ~Busy(c)
                               /\ \A s \in Savers : save[s] = "none"

IInv == /\ TypeOK
        /\ \A c \in Clients : Sound(req[c])
        /\ PoolAccounted
        /\ Equipped
        /\ Closed
        /\ Aged

USE WorkersAssumption, TimesAssumption, BoundsAssumption

(***************************************************************************)
(* How many calls lead to a step.                                          *)
(***************************************************************************)
LEMMA LongestIsNat == Longest \in Nat /\ PerMatch \in Nat /\ PerMatch = 1 + Players
BY DEF Longest, PerMatch

LEMMA Products ==
    /\ \A a, b \in Nat : a * b \in Nat
    /\ \A m \in Nat \ {0}, n \in Nat : m * n = (m - 1) * n + n
    /\ \A m, n \in Nat : m * (n + 1) = m * n + m
    /\ \A k, m, n \in Nat : m <= n => k * m <= k * n
<1>1. ASSUME NEW m \in Nat \ {0}, NEW n \in Nat PROVE m * n = (m - 1) * n + n
  OBVIOUS
<1>2. ASSUME NEW k \in Nat, NEW m \in Nat, NEW n \in Nat, m <= n PROVE k * m <= k * n
  <2>1. n - m \in Nat /\ k * n = k * m + k * (n - m)
    BY <1>2
  <2>2. \A a, b \in Nat : a * b \in Nat
    OBVIOUS
  <2>3. k * (n - m) \in Nat /\ k * m \in Nat
    BY <2>1, <2>2
  <2> QED  BY <2>1, <2>3
<1>3. \A a, b \in Nat : a * b \in Nat
  OBVIOUS
<1>4. ASSUME NEW m \in Nat, NEW n \in Nat PROVE m * (n + 1) = m * n + m
  OBVIOUS
<1> QED  BY <1>1, <1>2, <1>3, <1>4

LEMMA CallsAt ==
    ASSUME NEW q
    PROVE  /\ q.step \in {"idle", "version"} => CallsBefore(q) = 0
           /\ q.step = "entitlement" => CallsBefore(q) = 1
           /\ q.step = "history" => CallsBefore(q) = 2
           /\ q.step \in {"exists", "details"} => CallsBefore(q) = 2 + q.match
           /\ q.step \in {"insert", "commit"} => CallsBefore(q) = 3 + q.match
           /\ q.step \in {"list", "read"} => CallsBefore(q) = 3 + Recent
           /\ q.step = "names" => CallsBefore(q) = 3 + Recent + (q.match - 1) * PerMatch
           /\ q.step \in {"agent", "asset"}
                => CallsBefore(q) = 3 + Recent + (q.match - 1) * PerMatch + q.player
           /\ q.step = "answer" => CallsBefore(q) = 3 + Recent + q.listed * PerMatch
BY DEF CallsBefore

LEMMA CallsCounted == ASSUME NEW q \in Request PROVE CallsBefore(q) \in Nat
<1>1. q.match \in Nat \ {0} /\ q.match - 1 \in Nat /\ q.listed \in Nat /\ q.player \in Nat
  BY LongestIsNat DEF Request
<1>2. (q.match - 1) * PerMatch \in Nat /\ q.listed * PerMatch \in Nat
  BY <1>1, LongestIsNat, Products
<1>3. q.step \in {"idle", "answer"} \cup OutsideSteps \cup DbSteps
  BY DEF Request
<1> DEFINE before == (q.match - 1) * PerMatch
           all == q.listed * PerMatch
<1> HIDE DEF before, all
<1>4. /\ before \in Nat /\ all \in Nat
      /\ q.step = "names" => CallsBefore(q) = 3 + Recent + before
      /\ q.step \in {"agent", "asset"} => CallsBefore(q) = 3 + Recent + before + q.player
      /\ q.step = "answer" => CallsBefore(q) = 3 + Recent + all
  BY <1>2, CallsAt DEF before, all
<1> QED  BY <1>1, <1>3, <1>4, CallsAt DEF OutsideSteps, DbSteps

\* The calls that a request has made when its step is over.
CallsMade(q) == IF q.step \in OutsideSteps THEN CallsBefore(q) + 1 ELSE CallsBefore(q)

\* A step that a request may go on to with that age, and n calls behind it.
Ready(p, age, n) == /\ p \in Request /\ Placed(p)
                    /\ p.age = age /\ p.call = 0
                    /\ p.step \notin {"idle", "commit"}
                    /\ CallsBefore(p) >= n

LEMMA ReadyPaced ==
    ASSUME NEW q \in Request, Paced(q), NEW p \in Request, p.age = q.age, p.call = 0,
           CallsBefore(p) >= CallsMade(q)
    PROVE  Paced(p)
<1>1. CallsBefore(q) \in Nat /\ CallsBefore(p) \in Nat /\ q.age \in Nat /\ q.call \in Nat
  BY CallsCounted DEF Request
<1> DEFINE n == CallsBefore(q)
           k == CallsBefore(p)
<1>2. n \in Nat /\ k \in Nat
  BY <1>1
<1>3. q.age <= CallTime * n + q.call /\ q.call <= CallTime
  BY DEF Paced
<1>4. CASE q.step \in OutsideSteps
  <2>1. n + 1 <= k
    BY <1>1, <1>4 DEF CallsMade
  <2> HIDE DEF n, k
  <2>2. CallTime * (n + 1) <= CallTime * k /\ CallTime * (n + 1) = CallTime * n + CallTime
    BY <1>2, <2>1, Products
  <2>3. CallTime * n \in Nat /\ CallTime * k \in Nat
    BY <1>2, Products
  <2>4. q.age <= CallTime * k
    BY <1>1, <1>3, <2>2, <2>3
  <2>5. p.age <= CallTime * CallsBefore(p) + p.call
    BY <1>1, <2>3, <2>4 DEF k
  <2> QED  BY <2>5 DEF Paced
<1>5. CASE q.step \notin OutsideSteps
  <2>1. n <= k /\ q.call = 0
    BY <1>1, <1>5 DEF CallsMade, Paced
  <2> HIDE DEF n, k
  <2>2. CallTime * n <= CallTime * k /\ CallTime * n \in Nat /\ CallTime * k \in Nat
    BY <1>2, <2>1, Products
  <2>3. p.age <= CallTime * CallsBefore(p) + p.call
    BY <1>1, <1>3, <2>1, <2>2 DEF k
  <2> QED  BY <2>3 DEF Paced
<1> QED  BY <1>4, <1>5

LEMMA IdleSound == Idle \in Request /\ Sound(Idle)
<1>1. Idle \in Request /\ Placed(Idle)
  BY LongestIsNat DEF Idle, Request, Placed, LoopSteps, EnrichSteps
<1>2. CallTime * CallsBefore(Idle) \in Nat
  BY <1>1, CallsCounted, Products
<1>3. Paced(Idle)
  BY <1>2 DEF Idle, Paced
<1> QED  BY <1>1, <1>3 DEF Sound, Idle

\* The loop over Riot's list goes on to the next match, or to the page.
LEMMA NextMatchReady ==
    ASSUME NEW q \in Request, Placed(q), q.step \in LoopSteps
    PROVE  Ready(NextMatch(q), q.age, CallsMade(q))
<1> DEFINE m == q.match
           p == NextMatch(q)
<1>1. m \in 1..Recent /\ q.match \in Nat
  BY DEF Placed
<1>2. /\ p \in Request /\ p.step = LoopStep(m + 1) /\ p.match = m + 1
      /\ p.age = q.age /\ p.call = 0
  <2>1. LoopStep(m + 1) \in DbSteps /\ m + 1 \in 1..Longest + 1 /\ 0 \in Nat
    BY <1>1 DEF LoopStep, DbSteps, Longest
  <2>2. p = [q EXCEPT !.step = LoopStep(m + 1), !.match = m + 1, !.call = 0]
    BY DEF NextMatch
  <2> HIDE DEF p, m
  <2> QED  BY <2>1, <2>2 DEF Request
<1>3. CallsMade(q) <= 3 + m /\ CallsMade(q) \in Nat
  BY <1>1, CallsAt DEF CallsMade, LoopSteps, OutsideSteps
<1> HIDE DEF p, m
<1>4. CASE LoopStep(m + 1) = "exists"
  <2>1. m + 1 \in 1..Recent
    BY <1>1, <1>4 DEF LoopStep
  <2>2. CallsBefore(p) = 3 + m
    BY <1>1, <1>2, <1>4, CallsAt
  <2>3. Ready(p, q.age, CallsMade(q))
    BY <1>1, <1>2, <1>3, <1>4, <2>1, <2>2 DEF Ready, Placed, LoopSteps, EnrichSteps
  <2> QED  BY <2>3 DEF p
<1>5. CASE LoopStep(m + 1) = "list"
  <2>1. CallsBefore(p) = 3 + Recent
    BY <1>2, <1>5, CallsAt
  <2>2. Ready(p, q.age, CallsMade(q))
    BY <1>1, <1>2, <1>3, <1>5, <2>1 DEF Ready, Placed, LoopSteps, EnrichSteps
  <2> QED  BY <2>2 DEF p
<1> QED  BY <1>4, <1>5 DEF LoopStep

\* A page goes on to its match m, or is complete.
LEMMA EnrichReady ==
    ASSUME NEW q \in Request, q.call = 0, NEW m \in 1..q.listed + 1, NEW p \in EnrichFrom(q, m)
    PROVE  Ready(p, q.age, 3 + Recent + (m - 1) * PerMatch)
<1>1. q.listed \in Nat /\ q.listed <= Longest /\ Longest \in Nat /\ m \in Nat \ {0} /\ m - 1 \in Nat
  BY LongestIsNat DEF Request
<1> DEFINE before == (m - 1) * PerMatch
<1>2. before \in Nat
  BY <1>1, LongestIsNat, Products
<1>3. CASE m > q.listed
  <2>1. p = [q EXCEPT !.step = "answer", !.match = 1, !.player = 1]
    BY <1>3 DEF EnrichFrom
  <2>2. p \in Request /\ p.step = "answer" /\ p.listed = q.listed /\ p.age = q.age /\ p.call = 0
    <3>1. 1 \in 1..Longest + 1 /\ 1 \in 1..Players
      BY <1>1
    <3> QED  BY <2>1, <3>1 DEF Request
  <2>3. m - 1 = q.listed
    BY <1>1, <1>3
  <2>4. CallsBefore(p) = 3 + Recent + before
    BY <2>2, <2>3, CallsAt
  <2> HIDE DEF before
  <2>5. CallsBefore(p) >= 3 + Recent + before
    BY <1>2, <2>4
  <2> QED  BY <2>2, <2>5 DEF Ready, Placed, LoopSteps, EnrichSteps, before
<1>4. CASE ~(m > q.listed)
  <2>1. PICK step \in {"names", "agent"} : p = [q EXCEPT !.step = step, !.match = m, !.player = 1]
    BY <1>4 DEF EnrichFrom
  <2>2. m \in 1..q.listed
    BY <1>1, <1>4
  <2>3. /\ p \in Request /\ p.step = step /\ p.match = m /\ p.player = 1 /\ p.listed = q.listed
        /\ p.age = q.age /\ p.call = 0
    <3>1. m \in 1..Longest + 1 /\ 1 \in 1..Players /\ step \in OutsideSteps \cup DbSteps
      BY <1>1, <2>2 DEF OutsideSteps, DbSteps
    <3> QED  BY <2>1, <3>1 DEF Request
  <2>4. \/ CallsBefore(p) = 3 + Recent + before
        \/ CallsBefore(p) = 3 + Recent + before + 1
    BY <2>3, CallsAt
  <2> HIDE DEF before
  <2>5. CallsBefore(p) >= 3 + Recent + before
    BY <1>2, <2>4
  <2> QED  BY <2>2, <2>3, <2>5 DEF Ready, Placed, LoopSteps, EnrichSteps, before
<1> QED  BY <1>3, <1>4

\* The lookup of an agent is over, in the catalogue (n = 0) or with a call (n = 1).
LEMMA NextPlayerReady ==
    ASSUME NEW q \in Request, q.step \in {"agent", "asset"}, q.match \in 1..q.listed, q.call = 0,
           NEW n \in {0, 1}, NEW p \in NextPlayer(q)
    PROVE  Ready(p, q.age, CallsBefore(q) + n)
<1>1. /\ q.listed \in Nat /\ q.match \in Nat \ {0} /\ q.match - 1 \in Nat /\ q.player \in Nat
      /\ q.match + 1 \in 1..q.listed + 1 /\ q.player <= Players
  BY LongestIsNat DEF Request
<1> DEFINE before == (q.match - 1) * PerMatch
           after == q.match * PerMatch
<1>2. before \in Nat /\ after \in Nat /\ after = before + PerMatch
  BY <1>1, LongestIsNat, Products
<1>3. CallsBefore(q) = 3 + Recent + before + q.player
  BY CallsAt
<1>4. CASE q.player < Players
  <2>1. p = [q EXCEPT !.step = "agent", !.player = q.player + 1]
    BY <1>4 DEF NextPlayer
  <2>2. /\ p \in Request /\ p.step = "agent" /\ p.match = q.match /\ p.player = q.player + 1
        /\ p.listed = q.listed /\ p.age = q.age /\ p.call = 0
    <3>1. q.player + 1 \in 1..Players /\ "agent" \in DbSteps
      BY <1>1, <1>4 DEF DbSteps
    <3> QED  BY <2>1, <3>1 DEF Request
  <2>3. CallsBefore(p) = 3 + Recent + before + (q.player + 1)
    BY <2>2, CallsAt
  <2> HIDE DEF before, after
  <2>4. CallsBefore(p) >= CallsBefore(q) + n
    BY <1>1, <1>2, <1>3, <2>3
  <2> QED  BY <2>2, <2>4 DEF Ready, Placed, LoopSteps, EnrichSteps
<1>5. CASE ~(q.player < Players)
  <2>1. p \in EnrichFrom(q, q.match + 1)
    BY <1>5 DEF NextPlayer
  <2>2. Ready(p, q.age, 3 + Recent + after)
    <3>1. Ready(p, q.age, 3 + Recent + ((q.match + 1) - 1) * PerMatch)
      BY <1>1, <2>1, EnrichReady
    <3>2. (q.match + 1) - 1 = q.match
      BY <1>1
    <3> QED  BY <3>1, <3>2
  <2> HIDE DEF before, after
  <2>3. CallsBefore(p) \in Nat /\ CallsBefore(p) >= 3 + Recent + after
    BY <2>2, CallsCounted DEF Ready
  <2>4. CallsBefore(p) >= CallsBefore(q) + n
    BY <1>1, <1>2, <1>3, <2>3, LongestIsNat
  <2> QED  BY <2>2, <2>4 DEF Ready
<1> QED  BY <1>4, <1>5

LEMMA InitIInv == Init => IInv
<1> SUFFICES ASSUME Init PROVE IInv
  OBVIOUS
<1>1. Holding = {} /\ Saving = {}
  BY DEF Init, Holding, Saving, Idle
<1>2. PoolAccounted
  BY <1>1, FS_EmptySet DEF PoolAccounted, Init
<1>3. TypeOK /\ \A c \in Clients : Sound(req[c])
  BY IdleSound DEF Init, TypeOK, Phases, Needs
<1>4. Equipped /\ Closed /\ Aged
  BY DEF Init, Equipped, Closed, Aged, Busy, Open, Idle
<1> QED  BY <1>2, <1>3, <1>4 DEF IInv

(***************************************************************************)
(* Counting connections.                                                   *)
(***************************************************************************)
LEMMA HoldersFinite ==
    /\ IsFiniteSet(Holding) /\ Cardinality(Holding) \in Nat
    /\ IsFiniteSet(Saving) /\ Cardinality(Saving) \in Nat
<1>1. Holding \subseteq Clients /\ Saving \subseteq Savers
  BY DEF Holding, Saving
<1> QED  BY <1>1, FS_Subset, FS_CardinalityType

\* A handler takes a connection, gives it back, or goes on as it is.
LEMMA HandlerTakes ==
    ASSUME PoolAccounted, free \in Nat, req \in [Clients -> Request], NEW c \in Clients,
           NEW q \in Request, req' = [req EXCEPT ![c] = q], save' = save,
           \/ ~req[c].conn /\ q.conn /\ free > 0 /\ free' = free - 1
           \/ req[c].conn /\ ~q.conn /\ free' = free + 1
           \/ req[c].conn = q.conn /\ free' = free
    PROVE  PoolAccounted' /\ free' \in Nat
<1>0. Saving' = Saving
  BY DEF Saving
<1>1. Cardinality(Holding) \in Nat /\ Cardinality(Saving) \in Nat /\ IsFiniteSet(Holding)
  BY HoldersFinite
<1>2. CASE ~req[c].conn /\ q.conn /\ free > 0 /\ free' = free - 1
  <2>1. c \notin Holding /\ Holding' = Holding \cup {c}
    BY <1>2 DEF Holding
  <2>2. Cardinality(Holding') = Cardinality(Holding) + 1
    BY <1>1, <2>1, FS_AddElement
  <2> QED  BY <1>0, <1>1, <1>2, <2>2 DEF PoolAccounted
<1>3. CASE req[c].conn /\ ~q.conn /\ free' = free + 1
  <2>1. c \in Holding /\ Holding' = Holding \ {c}
    BY <1>3 DEF Holding
  <2>2. Cardinality(Holding') = Cardinality(Holding) - 1
    BY <1>1, <2>1, FS_RemoveElement
  <2> QED  BY <1>0, <1>1, <1>3, <2>2 DEF PoolAccounted
<1>4. CASE req[c].conn = q.conn /\ free' = free
  <2>1. Holding' = Holding
    BY <1>4 DEF Holding
  <2> QED  BY <1>0, <1>4, <2>1 DEF PoolAccounted
<1> QED  BY <1>2, <1>3, <1>4

\* The same for a goroutine in the background.
LEMMA SaverTakes ==
    ASSUME PoolAccounted, free \in Nat, NEW s \in Savers, NEW then \in {"none", "saving"},
           save \in [Savers -> {"none", "saving"}],
           save' = [save EXCEPT ![s] = then], req' = req,
           \/ save[s] # "saving" /\ then = "saving" /\ free > 0 /\ free' = free - 1
           \/ save[s] = "saving" /\ then # "saving" /\ free' = free + 1
    PROVE  PoolAccounted' /\ free' \in Nat
<1>0. Holding' = Holding
  BY DEF Holding
<1>1. Cardinality(Holding) \in Nat /\ Cardinality(Saving) \in Nat /\ IsFiniteSet(Saving)
  BY HoldersFinite
<1>2. CASE save[s] # "saving" /\ then = "saving" /\ free > 0 /\ free' = free - 1
  <2>1. s \notin Saving /\ Saving' = Saving \cup {s}
    BY <1>2 DEF Saving
  <2>2. Cardinality(Saving') = Cardinality(Saving) + 1
    BY <1>1, <2>1, FS_AddElement
  <2> QED  BY <1>0, <1>1, <1>2, <2>2 DEF PoolAccounted
<1>3. CASE save[s] = "saving" /\ then # "saving" /\ free' = free + 1
  <2>1. s \in Saving /\ Saving' = Saving \ {s}
    BY <1>3 DEF Saving
  <2>2. Cardinality(Saving') = Cardinality(Saving) - 1
    BY <1>1, <2>1, FS_RemoveElement
  <2> QED  BY <1>0, <1>1, <1>3, <2>2 DEF PoolAccounted
<1> QED  BY <1>2, <1>3

(***************************************************************************)
(* The steps of a handler.                                                 *)
(***************************************************************************)

\* What a handler's step leaves in order, when the request does not get younger.
LEMMA HandlerKeeps ==
    ASSUME IInv, NEW c \in Clients, Busy(c), NEW q \in Request, Sound(q),
           req' = [req EXCEPT ![c] = q], q.step # "idle" => q.age = req[c].age,
           UNCHANGED <<phase, missing, drain, save>>,
           mishaps' \in Nat, stored' \subseteq 1..Recent, wants' \subseteq Clients,
           \/ ~req[c].conn /\ q.conn /\ free > 0 /\ free' = free - 1
           \/ req[c].conn /\ ~q.conn /\ free' = free + 1
           \/ req[c].conn = q.conn /\ free' = free
    PROVE  IInv'
<1>1. PoolAccounted' /\ free' \in Nat
  BY HandlerTakes DEF IInv, TypeOK
<1>2. \A d \in Clients : req'[d] = IF d = c THEN q ELSE req[d]
  BY DEF IInv, TypeOK
<1>3. TypeOK'
  BY <1>1 DEF IInv, TypeOK
<1>4. \A d \in Clients : Sound(req[d])'
  BY <1>2 DEF IInv, Sound
<1>5. Equipped'
  BY DEF IInv, Equipped
<1>6. Closed'
  BY <1>2 DEF IInv, Closed, Busy
<1>7. Aged'
  <2> SUFFICES ASSUME NEW d \in Clients, phase = "draining", req'[d].step # "idle"
               PROVE  req'[d].age >= drain
    BY DEF IInv, Aged, Busy
  <2> QED  BY <1>2 DEF IInv, Aged, Busy
<1> QED  BY <1>1, <1>3, <1>4, <1>5, <1>6, <1>7 DEF IInv

\* A request is answered, or ended by its client or by an error.
LEMMA EndKeeps ==
    ASSUME IInv, NEW c \in Clients, Busy(c), req' = [req EXCEPT ![c] = Idle],
           UNCHANGED <<phase, missing, drain, save>>,
           mishaps' \in Nat, stored' \subseteq 1..Recent, wants' \subseteq Clients,
           free' = IF req[c].conn THEN free + 1 ELSE free
    PROVE  IInv'
<1>1. Idle \in Request /\ Sound(Idle) /\ Idle.conn = FALSE /\ Idle.step = "idle"
  BY IdleSound DEF Idle
<1>2. CASE req[c].conn
  BY <1>1, <1>2, HandlerKeeps
<1>3. CASE req[c].conn = FALSE
  BY <1>1, <1>3, HandlerKeeps
<1>4. req[c].conn \in BOOLEAN
  BY DEF IInv, TypeOK, Request
<1> QED  BY <1>2, <1>3, <1>4

\* A step that a request is ready to go on to, with no connection held.
LEMMA ReadySound ==
    ASSUME NEW q \in Request, Paced(q), NEW p, Ready(p, q.age, CallsMade(q))
    PROVE  /\ [p EXCEPT !.conn = FALSE] \in Request /\ Sound([p EXCEPT !.conn = FALSE])
           /\ [p EXCEPT !.conn = FALSE].conn = FALSE /\ [p EXCEPT !.conn = FALSE].age = q.age
<1> DEFINE n == [p EXCEPT !.conn = FALSE]
<1>0. /\ p \in Request /\ Placed(p) /\ p.age = q.age /\ p.call = 0 /\ p.step # "commit"
      /\ CallsBefore(p) >= CallsMade(q)
  BY DEF Ready
<1>1. /\ n \in Request /\ n.conn = FALSE /\ n.step = p.step /\ n.match = p.match
      /\ n.listed = p.listed /\ n.player = p.player /\ n.age = p.age /\ n.call = p.call
  BY <1>0 DEF Request
<1> HIDE DEF n
<1>2. CallsBefore(n) = CallsBefore(p)
  BY <1>1 DEF CallsBefore
<1>3. Paced(n)
  BY <1>0, <1>1, <1>2, ReadyPaced
<1>4. Placed(n)
  BY <1>0, <1>1 DEF Placed
<1> QED  BY <1>0, <1>1, <1>3, <1>4 DEF Sound, n

LEMMA StepKeeps ==
    ASSUME IInv, NEW c \in Clients, Busy(c), NEW p, Ready(p, req[c].age, CallsMade(req[c])),
           req' = [req EXCEPT ![c] = [p EXCEPT !.conn = FALSE]],
           UNCHANGED <<phase, missing, drain, save>>,
           mishaps' \in Nat, stored' \subseteq 1..Recent, wants' \subseteq Clients,
           free' = IF req[c].conn THEN free + 1 ELSE free
    PROVE  IInv'
<1>1. req[c] \in Request /\ Paced(req[c]) /\ req[c].conn \in BOOLEAN
  BY DEF IInv, TypeOK, Sound, Request
<1> DEFINE n == [p EXCEPT !.conn = FALSE]
<1>2. n \in Request /\ Sound(n) /\ n.conn = FALSE /\ n.age = req[c].age /\ req' = [req EXCEPT ![c] = n]
  BY <1>1, ReadySound
<1> HIDE DEF n
<1>3. CASE req[c].conn
  BY <1>2, <1>3, HandlerKeeps
<1>4. CASE req[c].conn = FALSE
  BY <1>2, <1>4, HandlerKeeps
<1> QED  BY <1>1, <1>3, <1>4

\* The steps that give a connection back, and those that hold none.
LEMMA ReleasedKeeps ==
    ASSUME IInv, NEW c \in Clients, req[c].conn,
           NEW p, Ready(p, req[c].age, CallsMade(req[c])), Released(c, p),
           stored' \subseteq 1..Recent, UNCHANGED <<process, wants, save>>
    PROVE  IInv'
<1>1. Busy(c)
  BY DEF IInv, Sound, DbSteps, Busy
<1>2. mishaps \in Nat /\ wants \subseteq Clients
  BY DEF IInv, TypeOK
<1> QED  BY <1>1, <1>2, StepKeeps DEF Released, process

LEMMA UnheldKeeps ==
    ASSUME IInv, NEW c \in Clients, req[c].step \in OutsideSteps,
           NEW p, Ready(p, req[c].age, CallsMade(req[c])), p.conn = req[c].conn,
           req' = [req EXCEPT ![c] = p], UNCHANGED <<process, stored, free, wants, save>>
    PROVE  IInv'
<1>1. req[c] \in Request /\ Sound(req[c]) /\ Paced(req[c])
  BY DEF IInv, TypeOK, Sound
<1>2. req[c].conn = FALSE /\ Busy(c)
  BY <1>1 DEF Sound, OutsideSteps, DbSteps, Busy, Request
<1>3. p \in Request /\ Sound(p) /\ p.age = req[c].age
  <2>1. /\ p \in Request /\ Placed(p) /\ p.age = req[c].age /\ p.call = 0 /\ p.step # "commit"
        /\ CallsBefore(p) >= CallsMade(req[c])
    BY DEF Ready
  <2>2. Paced(p)
    BY <1>1, <2>1, ReadyPaced
  <2> QED  BY <1>2, <2>1, <2>2 DEF Sound
<1>4. mishaps \in Nat /\ wants \subseteq Clients /\ stored \subseteq 1..Recent
  BY DEF IInv, TypeOK
<1> QED  BY <1>2, <1>3, <1>4, HandlerKeeps DEF process

\* A detached call is over whose client is gone.
LEMMA LeftKeeps ==
    ASSUME IInv, NEW c \in Clients, req[c].step \in OutsideSteps,
           req' = [req EXCEPT ![c] = Idle], UNCHANGED <<process, stored, free, wants, save>>
    PROVE  IInv'
<1>1. req[c].conn = FALSE /\ Busy(c)
  BY DEF IInv, TypeOK, Sound, OutsideSteps, DbSteps, Busy, Request
<1>2. mishaps \in Nat /\ wants \subseteq Clients /\ stored \subseteq 1..Recent
  BY DEF IInv, TypeOK
<1> QED  BY <1>1, <1>2, EndKeeps DEF process

\* The calls that come before the loop.
LEMMA ClientMadeKeeps ==
    ASSUME IInv, NEW c \in Clients, FetchClientVersion(c) \/ GetEntitlement(c) \/ GetHistory(c)
    PROVE  IInv'
<1>0. req[c] \in Request /\ Placed(req[c])
  BY DEF IInv, TypeOK, Sound
<1>1. CASE FetchClientVersion(c)
  <2> DEFINE p == [req[c] EXCEPT !.step = "entitlement", !.call = 0]
  <2>1. req[c].step = "version" /\ req' = [req EXCEPT ![c] = p]
    BY <1>1 DEF FetchClientVersion, At, IInv, TypeOK
  <2>2. /\ p \in Request /\ p.step = "entitlement" /\ p.match = 1 /\ p.conn = req[c].conn
        /\ p.age = req[c].age /\ p.call = 0
    BY <1>0, <2>1 DEF Request, OutsideSteps, Placed
  <2> HIDE DEF p
  <2>3. CallsBefore(p) = 1 /\ CallsMade(req[c]) = 1
    BY <2>1, <2>2, CallsAt DEF CallsMade, OutsideSteps
  <2>4. Ready(p, req[c].age, CallsMade(req[c]))
    BY <2>2, <2>3 DEF Ready, Placed, LoopSteps, EnrichSteps
  <2>5. req[c].step \in OutsideSteps /\ UNCHANGED <<process, stored, free, wants, save>>
    BY <1>1, <2>1 DEF OutsideSteps, FetchClientVersion
  <2> QED  BY <2>1, <2>2, <2>4, <2>5, UnheldKeeps
<1>2. CASE GetEntitlement(c)
  <2>0. /\ req[c].step = "entitlement" /\ req[c].step \in OutsideSteps
        /\ UNCHANGED <<process, stored, free, wants, save>>
    BY <1>2 DEF OutsideSteps, GetEntitlement, At
  <2>1. CASE req[c].gone
    <3>1. req' = [req EXCEPT ![c] = Idle]
      BY <1>2, <2>1 DEF GetEntitlement
    <3> QED  BY <2>0, <3>1, LeftKeeps
  <2>2. CASE ~req[c].gone
    <3>1. PICK step \in {"history", "list"} : req' = [req EXCEPT ![c].step = step, ![c].call = 0]
      BY <1>2, <2>2 DEF GetEntitlement
    <3> DEFINE p == [req[c] EXCEPT !.step = step, !.call = 0]
    <3>2. req' = [req EXCEPT ![c] = p]
      BY <3>1 DEF IInv, TypeOK
    <3>3. /\ p \in Request /\ p.step = step /\ p.match = 1 /\ p.conn = req[c].conn
          /\ p.age = req[c].age /\ p.call = 0
      BY <1>0, <2>0 DEF Request, OutsideSteps, DbSteps, Placed
    <3> HIDE DEF p
    <3>4. CallsMade(req[c]) = 2 /\ CallsBefore(p) >= 2
      BY <2>0, <3>3, CallsAt DEF CallsMade, OutsideSteps
    <3>5. Ready(p, req[c].age, CallsMade(req[c]))
      BY <3>3, <3>4 DEF Ready, Placed, LoopSteps, EnrichSteps
    <3> QED  BY <2>0, <3>2, <3>3, <3>5, UnheldKeeps
  <2> QED  BY <2>1, <2>2
<1>3. CASE GetHistory(c)
  <2> DEFINE p == [req[c] EXCEPT !.step = LoopStep(1), !.call = 0]
  <2>0. LoopStep(1) \in {"exists", "list"} /\ (LoopStep(1) = "exists" => Recent >= 1)
    BY DEF LoopStep
  <2>1. req[c].step = "history" /\ req' = [req EXCEPT ![c] = p]
    BY <1>3 DEF GetHistory, At, IInv, TypeOK
  <2>2. /\ p \in Request /\ p.step = LoopStep(1) /\ p.match = 1 /\ p.conn = req[c].conn
        /\ p.age = req[c].age /\ p.call = 0
    BY <1>0, <2>0, <2>1 DEF Request, DbSteps, Placed
  <2> HIDE DEF p
  <2>3. CallsMade(req[c]) = 3 /\ CallsBefore(p) >= 3
    BY <2>0, <2>1, <2>2, CallsAt DEF CallsMade, OutsideSteps
  <2>4. Ready(p, req[c].age, CallsMade(req[c]))
    BY <2>0, <2>2, <2>3 DEF Ready, Placed, LoopSteps, EnrichSteps
  <2>5. req[c].step \in OutsideSteps /\ UNCHANGED <<process, stored, free, wants, save>>
    BY <1>3, <2>1 DEF OutsideSteps, GetHistory
  <2> QED  BY <2>1, <2>2, <2>4, <2>5, UnheldKeeps
<1> QED  BY <1>1, <1>2, <1>3

\* The loop over the matches that Riot lists.
LEMMA LoopKeeps ==
    ASSUME IInv, NEW c \in Clients, ExistsMatch(c) \/ GetDetails(c) \/ Commit(c) PROVE IInv'
<1>0. /\ req[c] \in Request /\ Sound(req[c]) /\ Placed(req[c]) /\ stored \subseteq 1..Recent
  BY DEF IInv, TypeOK, Sound
<1>1. req[c].step \in LoopSteps /\ req[c].match \in 1..Recent
  BY <1>0 DEF ExistsMatch, GetDetails, Commit, At, LoopSteps, Placed
<1>2. Ready(NextMatch(req[c]), req[c].age, CallsMade(req[c]))
  BY <1>0, <1>1, NextMatchReady
<1>3. CASE ExistsMatch(c)
  <2> DEFINE p == [req[c] EXCEPT !.step = "details"]
  <2>1. req[c].step = "exists" /\ req[c].conn /\ UNCHANGED <<process, stored, wants, save>>
    BY <1>3 DEF ExistsMatch, At
  <2>2. req[c].call = 0
    BY <1>0, <2>1 DEF Sound, Paced, OutsideSteps
  <2>3. /\ p \in Request /\ p.step = "details" /\ p.match = req[c].match
        /\ p.age = req[c].age /\ p.call = 0
    BY <1>0, <2>2 DEF Request, OutsideSteps
  <2>4. Released(c, NextMatch(req[c])) \/ Released(c, p)
    BY <1>3 DEF ExistsMatch
  <2> HIDE DEF p
  <2>5. CallsBefore(p) = 2 + req[c].match /\ CallsMade(req[c]) = 2 + req[c].match
    BY <2>1, <2>3, CallsAt DEF CallsMade, OutsideSteps
  <2>6. Ready(p, req[c].age, CallsMade(req[c]))
    BY <1>1, <2>3, <2>5 DEF Ready, Placed, LoopSteps, EnrichSteps
  <2>7. stored' \subseteq 1..Recent /\ UNCHANGED <<process, wants, save>>
    BY <1>0, <2>1
  <2> QED  BY <1>2, <2>1, <2>4, <2>6, <2>7, ReleasedKeeps
<1>4. CASE GetDetails(c)
  <2> DEFINE p == [req[c] EXCEPT !.step = "insert", !.call = 0]
  <2>1. req[c].step = "details" /\ req' = [req EXCEPT ![c] = p]
    BY <1>4 DEF GetDetails, At, IInv, TypeOK
  <2>2. /\ p \in Request /\ p.step = "insert" /\ p.match = req[c].match /\ p.conn = req[c].conn
        /\ p.age = req[c].age /\ p.call = 0
    BY <1>0 DEF Request, DbSteps
  <2> HIDE DEF p
  <2>3. CallsBefore(p) = 3 + req[c].match /\ CallsMade(req[c]) = 2 + req[c].match + 1
    BY <2>1, <2>2, CallsAt DEF CallsMade, OutsideSteps
  <2>4. Ready(p, req[c].age, CallsMade(req[c]))
    BY <1>1, <2>2, <2>3 DEF Ready, Placed, LoopSteps, EnrichSteps
  <2>5. req[c].step \in OutsideSteps /\ UNCHANGED <<process, stored, free, wants, save>>
    BY <1>4, <2>1 DEF OutsideSteps, GetDetails
  <2> QED  BY <2>1, <2>2, <2>4, <2>5, UnheldKeeps
<1>5. CASE Commit(c)
  <2>1. req[c].conn /\ stored' \subseteq 1..Recent
    BY <1>0, <1>1, <1>5 DEF Commit, At, Sound
  <2>2. Released(c, NextMatch(req[c])) /\ UNCHANGED <<process, wants, save>>
    BY <1>5 DEF Commit
  <2> QED  BY <1>2, <2>1, <2>2, ReleasedKeeps
<1> QED  BY <1>3, <1>4, <1>5

LEMMA FoundBounded == ASSUME stored \subseteq 1..Recent PROVE Found \in 0..Longest
<1>1. 1 \in Int /\ Recent \in Int
  OBVIOUS
<1>2. IsFiniteSet(1..Recent) /\ Cardinality(1..Recent) = IF 1 > Recent THEN 0 ELSE Recent - 1 + 1
  BY <1>1, FS_Interval
<1>3. Cardinality(1..Recent) = Recent
  BY <1>2
<1>4. IsFiniteSet(stored) /\ Cardinality(stored) <= Cardinality(1..Recent)
  BY <1>2, FS_Subset
<1>5. Cardinality(stored) \in Nat
  BY <1>4, FS_CardinalityType
<1> QED  BY <1>3, <1>4, <1>5 DEF Found, Longest

\* The page.
LEMMA PageKeeps ==
    ASSUME IInv, NEW c \in Clients, ListMatches(c) \/ ReadMatch(c) PROVE IInv'
<1>0. req[c] \in Request /\ Sound(req[c]) /\ Placed(req[c]) /\ stored \subseteq 1..Recent
  BY DEF IInv, TypeOK, Sound
<1>1. /\ req[c].step \in {"list", "read"} /\ req[c].conn
      /\ stored' \subseteq 1..Recent /\ UNCHANGED <<process, wants, save>>
  BY <1>0 DEF ListMatches, ReadMatch, At
<1>2. req[c].call = 0 /\ CallsMade(req[c]) = 3 + Recent
  BY <1>0, <1>1, CallsAt DEF Sound, Paced, CallsMade, OutsideSteps
<1>3. CASE ListMatches(c)
  <2>1. Found \in 0..Longest
    BY <1>0, FoundBounded
  <2> DEFINE p == Listed(req[c])
  <2>2. /\ p \in Request /\ p.step = (IF Found > 0 THEN "read" ELSE "answer")
        /\ p.match = 1 /\ p.listed = Found /\ p.age = req[c].age /\ p.call = 0
    <3> DEFINE step == IF Found > 0 THEN "read" ELSE "answer"
    <3>1. p = [req[c] EXCEPT !.step = step, !.match = 1, !.listed = Found]
      BY DEF Listed
    <3>2. step \in {"answer"} \cup DbSteps /\ 1 \in 1..Longest + 1
      BY LongestIsNat DEF DbSteps
    <3> HIDE DEF Found, step
    <3>3. /\ p \in Request /\ p.step = step
          /\ p.match = 1 /\ p.listed = Found /\ p.age = req[c].age /\ p.call = req[c].call
      BY <1>0, <2>1, <3>1, <3>2 DEF Request
    <3> QED  BY <1>2, <3>3 DEF step
  <2>3. Released(c, p)
    BY <1>3 DEF ListMatches
  <2> HIDE DEF p, Found
  <2>4. CallsBefore(p) >= 3 + Recent
    <3>1. Found \in Nat /\ Found * PerMatch \in Nat
      BY <2>1, LongestIsNat, Products
    <3> QED  BY <2>2, <3>1, CallsAt
  <2>5. Placed(p)
    BY <2>1, <2>2 DEF Placed, LoopSteps, EnrichSteps
  <2>6. Ready(p, req[c].age, CallsMade(req[c]))
    BY <1>2, <2>2, <2>4, <2>5 DEF Ready
  <2> QED  BY <1>1, <2>3, <2>6, ReleasedKeeps
<1>4. CASE ReadMatch(c)
  <2>0. req[c].step = "read" /\ req[c].match \in 1..req[c].listed /\ req[c].listed \in 0..Longest
    BY <1>0, <1>4 DEF ReadMatch, At, Placed, Request
  <2>1. CASE req[c].match < req[c].listed
    <3> DEFINE p == [req[c] EXCEPT !.match = req[c].match + 1]
    <3>1. /\ p \in Request /\ p.step = "read" /\ p.match = req[c].match + 1
          /\ p.listed = req[c].listed /\ p.age = req[c].age /\ p.call = 0
      BY <1>0, <1>2, <2>0, <2>1, LongestIsNat DEF Request
    <3>2. Released(c, p)
      BY <1>4, <2>1 DEF ReadMatch
    <3> HIDE DEF p
    <3>3. CallsBefore(p) = 3 + Recent
      BY <3>1, CallsAt
    <3>4. Placed(p)
      BY <2>0, <2>1, <3>1, LongestIsNat DEF Placed, LoopSteps, EnrichSteps
    <3>5. Ready(p, req[c].age, CallsMade(req[c]))
      BY <1>2, <3>1, <3>3, <3>4 DEF Ready
    <3> QED  BY <1>1, <3>2, <3>5, ReleasedKeeps
  <2>2. CASE ~(req[c].match < req[c].listed)
    <3>1. PICK p \in EnrichFrom(req[c], 1) : Released(c, p)
      BY <1>4, <2>2 DEF ReadMatch
    <3>2. 1 \in 1..req[c].listed + 1
      BY <2>0, LongestIsNat
    <3>3. Ready(p, req[c].age, 3 + Recent + (1 - 1) * PerMatch)
      BY <1>0, <1>2, <3>2, EnrichReady
    <3>4. 3 + Recent + (1 - 1) * PerMatch = 3 + Recent
      BY LongestIsNat
    <3>5. Ready(p, req[c].age, CallsMade(req[c]))
      BY <1>2, <3>3, <3>4
    <3> QED  BY <1>1, <3>1, <3>5, ReleasedKeeps
  <2> QED  BY <2>1, <2>2
<1> QED  BY <1>3, <1>4

\* The names and agents of its players, and the answer.
LEMMA EnrichHolds ==
    ASSUME NEW q \in Request, NEW p \in NextPlayer(q), Ready(p, q.age, 0) PROVE p.conn = q.conn
BY DEF NextPlayer, EnrichFrom, Request

LEMMA EnrichKeeps ==
    ASSUME IInv, NEW c \in Clients, FillPlayerNames(c) \/ GetAsset(c) \/ FetchAsset(c) PROVE IInv'
<1>0. /\ req[c] \in Request /\ Sound(req[c]) /\ Placed(req[c]) /\ stored \subseteq 1..Recent
  BY DEF IInv, TypeOK, Sound
<1>1. req[c].step \in EnrichSteps /\ req[c].match \in 1..req[c].listed
  BY <1>0 DEF FillPlayerNames, GetAsset, FetchAsset, At, EnrichSteps, Placed
<1>2. req[c].match - 1 \in Nat /\ (req[c].match - 1) * PerMatch \in Nat /\ req[c].player \in 1..Players
  <2>1. req[c].match - 1 \in Nat
    BY <1>0, <1>1, LongestIsNat DEF Request
  <2> QED  BY <1>0, <2>1, LongestIsNat, Products DEF Request
<1>3. CASE FillPlayerNames(c)
  <2> DEFINE p == [req[c] EXCEPT !.step = "agent", !.call = 0]
             before == (req[c].match - 1) * PerMatch
  <2>1. req[c].step = "names" /\ req' = [req EXCEPT ![c] = p]
    BY <1>3 DEF FillPlayerNames, At, IInv, TypeOK
  <2>2. /\ p \in Request /\ p.step = "agent" /\ p.match = req[c].match /\ p.conn = req[c].conn
        /\ p.listed = req[c].listed /\ p.player = req[c].player /\ p.age = req[c].age /\ p.call = 0
    BY <1>0 DEF Request, DbSteps
  <2> HIDE DEF p
  <2>3. /\ CallsBefore(p) = 3 + Recent + before + req[c].player
        /\ CallsMade(req[c]) = 3 + Recent + before + 1
    BY <2>1, <2>2, CallsAt DEF CallsMade, OutsideSteps
  <2>4. before \in Nat
    BY <1>2
  <2> HIDE DEF before
  <2>5. CallsBefore(p) >= CallsMade(req[c])
    BY <1>2, <2>3, <2>4
  <2>6. Ready(p, req[c].age, CallsMade(req[c]))
    BY <1>1, <2>2, <2>5 DEF Ready, Placed, LoopSteps, EnrichSteps
  <2>7. req[c].step \in OutsideSteps /\ UNCHANGED <<process, stored, free, wants, save>>
    BY <1>3, <2>1 DEF OutsideSteps, FillPlayerNames
  <2> QED  BY <2>1, <2>2, <2>6, <2>7, UnheldKeeps
<1>4. CASE GetAsset(c)
  <2> DEFINE a == [req[c] EXCEPT !.step = "asset"]
  <2>1. /\ req[c].step = "agent" /\ req[c].conn
        /\ stored' \subseteq 1..Recent /\ UNCHANGED <<process, wants, save>>
    BY <1>0, <1>4 DEF GetAsset, At
  <2>2. PICK p \in {a} \cup NextPlayer(req[c]) : Released(c, p)
    BY <1>4 DEF GetAsset
  <2>3. req[c].call = 0 /\ CallsMade(req[c]) = CallsBefore(req[c]) /\ CallsBefore(req[c]) \in Nat
    BY <1>0, <2>1, CallsCounted DEF Sound, Paced, CallsMade, OutsideSteps
  <2>4. /\ a \in Request /\ a.step = "asset" /\ a.match = req[c].match /\ a.listed = req[c].listed
        /\ a.player = req[c].player /\ a.age = req[c].age /\ a.call = 0
    BY <1>0, <2>3 DEF Request, OutsideSteps
  <2> HIDE DEF a
  <2>5. CASE p = a
    <3>1. CallsBefore(p) = CallsBefore(req[c])
      BY <2>1, <2>4, <2>5, CallsAt
    <3>2. CallsBefore(p) >= CallsMade(req[c])
      BY <2>3, <3>1
    <3>3. Ready(p, req[c].age, CallsMade(req[c]))
      BY <1>1, <2>4, <2>5, <3>2 DEF Ready, Placed, LoopSteps, EnrichSteps
    <3> QED  BY <2>1, <2>2, <3>3, ReleasedKeeps
  <2>6. CASE p \in NextPlayer(req[c])
    <3>1. Ready(p, req[c].age, CallsBefore(req[c]) + 0)
      BY <1>0, <1>1, <2>1, <2>3, <2>6, NextPlayerReady
    <3>2. CallsBefore(req[c]) + 0 = CallsMade(req[c])
      BY <2>3
    <3>3. Ready(p, req[c].age, CallsMade(req[c]))
      BY <3>1, <3>2
    <3> QED  BY <2>1, <2>2, <3>3, ReleasedKeeps
  <2> QED  BY <2>2, <2>5, <2>6
<1>5. CASE FetchAsset(c)
  <2>0. /\ req[c].step = "asset" /\ req[c].step \in OutsideSteps
        /\ UNCHANGED <<process, stored, free, wants, save>>
    BY <1>5 DEF OutsideSteps, FetchAsset, At
  <2>1. CASE req[c].gone
    <3>1. req' = [req EXCEPT ![c] = Idle]
      BY <1>5, <2>1 DEF FetchAsset
    <3> QED  BY <2>0, <3>1, LeftKeeps
  <2>2. CASE ~req[c].gone
    <3> DEFINE q == [req[c] EXCEPT !.call = 0]
    <3>1. PICK p \in NextPlayer(q) : req' = [req EXCEPT ![c] = p]
      BY <1>5, <2>2 DEF FetchAsset
    <3>2. /\ q \in Request /\ q.step = "asset" /\ q.match = req[c].match /\ q.listed = req[c].listed
          /\ q.player = req[c].player /\ q.age = req[c].age /\ q.call = 0 /\ q.conn = req[c].conn
      BY <1>0, <2>0 DEF Request
    <3> HIDE DEF q
    <3>3. /\ CallsBefore(q) = CallsBefore(req[c]) /\ CallsBefore(q) \in Nat
          /\ CallsMade(req[c]) = CallsBefore(q) + 1
      BY <2>0, <3>2, CallsAt, CallsCounted DEF CallsMade
    <3>4. Ready(p, q.age, CallsBefore(q) + 1)
      BY <1>1, <3>2, NextPlayerReady
    <3>5. Ready(p, req[c].age, CallsMade(req[c]))
      BY <3>2, <3>3, <3>4
    <3>6. Ready(p, q.age, 0)
      BY <3>3, <3>4, CallsCounted DEF Ready
    <3>7. p.conn = req[c].conn
      BY <3>2, <3>6, EnrichHolds
    <3> QED  BY <2>0, <3>1, <3>5, <3>7, UnheldKeeps
  <2> QED  BY <2>1, <2>2
<1> QED  BY <1>3, <1>4, <1>5

LEMMA HandleKeeps == ASSUME IInv, NEW c \in Clients, Handle(c) PROVE IInv'
<1>1. CASE Answer(c)
  <2>0. /\ req[c] \in Request /\ Sound(req[c]) /\ stored \subseteq 1..Recent /\ wants \subseteq Clients
        /\ mishaps \in Nat
    BY DEF IInv, TypeOK
  <2>1. Busy(c) /\ ~req[c].conn
    BY <1>1, <2>0 DEF Answer, At, Busy, Sound, DbSteps
  <2> QED  BY <1>1, <2>0, <2>1, EndKeeps DEF Answer, process
<1> QED  BY <1>1, ClientMadeKeeps, LoopKeeps, PageKeeps, EnrichKeeps DEF Handle

LEMMA WaitersKeep ==
    ASSUME IInv, NEW c \in Clients, Acquire(c) \/ InsertMatch(c) PROVE IInv'
<1>0. req[c] \in Request /\ Sound(req[c]) /\ stored \subseteq 1..Recent /\ wants \subseteq Clients
      /\ mishaps \in Nat
  BY DEF IInv, TypeOK
<1>1. CASE Acquire(c)
  <2> DEFINE q == [req[c] EXCEPT !.conn = TRUE]
  <2>1. req' = [req EXCEPT ![c] = q] /\ Busy(c) /\ ~req[c].conn /\ free > 0 /\ free' = free - 1
    BY <1>1 DEF Acquire, IInv, TypeOK, Busy, DbSteps
  <2>2. /\ q \in Request /\ q.step = req[c].step /\ q.match = req[c].match /\ q.listed = req[c].listed
        /\ q.player = req[c].player /\ q.conn /\ q.age = req[c].age /\ q.call = req[c].call
    BY <1>0 DEF Request
  <2> HIDE DEF q
  <2>3. CallsBefore(q) = CallsBefore(req[c])
    BY <2>2 DEF CallsBefore
  <2>4. Placed(q) /\ Paced(q)
    BY <1>0, <2>2, <2>3 DEF Sound, Placed, Paced
  <2>5. Sound(q)
    BY <1>1, <2>2, <2>4 DEF Acquire, Sound
  <2> QED  BY <1>0, <1>1, <2>1, <2>2, <2>5, HandlerKeeps DEF Acquire, process
<1>2. CASE InsertMatch(c)
  <2> DEFINE q == [req[c] EXCEPT !.step = "commit"]
  <2>1. req' = [req EXCEPT ![c] = q] /\ req[c].step = "insert" /\ req[c].conn /\ Busy(c) /\ free' = free
    BY <1>2 DEF InsertMatch, Kept, IInv, TypeOK, Busy, At
  <2>2. /\ q \in Request /\ q.step = "commit" /\ q.match = req[c].match /\ q.listed = req[c].listed
        /\ q.player = req[c].player /\ q.conn = req[c].conn /\ q.age = req[c].age /\ q.call = req[c].call
    BY <1>0 DEF Request, DbSteps
  <2> HIDE DEF q
  <2>3. CallsBefore(q) = CallsBefore(req[c])
    BY <2>1, <2>2, CallsAt
  <2>4. Placed(q)
    BY <1>0, <2>1, <2>2 DEF Sound, Placed, LoopSteps, EnrichSteps
  <2>5. Paced(q)
    BY <1>0, <2>1, <2>2, <2>3 DEF Sound, Paced, OutsideSteps
  <2>6. Sound(q)
    BY <2>1, <2>2, <2>4, <2>5 DEF Sound, DbSteps
  <2> QED  BY <1>0, <1>2, <2>1, <2>2, <2>6, HandlerKeeps DEF InsertMatch, process
<1> QED  BY <1>1, <1>2

(***************************************************************************)
(* The other steps.                                                        *)
(***************************************************************************)
LEMMA AcceptedKeeps == ASSUME IInv, NEW c \in Clients, GetMatchHistory(c) PROVE IInv'
<1>0. req[c] \in Request /\ Sound(req[c]) /\ Placed(req[c]) /\ Paced(req[c])
  BY DEF IInv, TypeOK, Sound
<1>1. req[c].step = "idle" /\ Accepts /\ UNCHANGED <<process, stored, free, wants, save>>
  BY DEF GetMatchHistory, Busy
<1> DEFINE q == [req[c] EXCEPT !.step = "version"]
<1>2. req' = [req EXCEPT ![c] = q]
  BY DEF GetMatchHistory, IInv, TypeOK
<1>3. req[c].conn = FALSE /\ req[c].match = 1 /\ req[c].call = 0
  BY <1>0, <1>1 DEF Sound, Placed, Paced, OutsideSteps, DbSteps, Request
<1>4. /\ q \in Request /\ q.step = "version" /\ q.match = 1 /\ q.conn = FALSE
      /\ q.age = req[c].age /\ q.call = 0
  BY <1>0, <1>3 DEF Request, OutsideSteps
<1> HIDE DEF q
<1>5. CallsBefore(q) = CallsBefore(req[c])
  BY <1>1, <1>4, CallsAt
<1>6. Paced(q)
  BY <1>0, <1>3, <1>4, <1>5 DEF Paced
<1>7. Sound(q)
  BY <1>4, <1>6 DEF Sound, Placed, LoopSteps, EnrichSteps
<1>8. PoolAccounted' /\ free' \in Nat
  BY <1>1, <1>2, <1>3, <1>4, HandlerTakes DEF IInv, TypeOK
<1>9. \A d \in Clients : req'[d] = IF d = c THEN q ELSE req[d]
  BY <1>2 DEF IInv, TypeOK
<1>10. TypeOK'
  BY <1>1, <1>2, <1>4, <1>8 DEF process, IInv, TypeOK
<1>11. \A d \in Clients : Sound(req[d])'
  BY <1>7, <1>9 DEF IInv
<1>12. Equipped' /\ Closed' /\ Aged'
  BY <1>1 DEF Accepts, process, IInv, Equipped, Closed, Aged, Open
<1> QED  BY <1>8, <1>10, <1>11, <1>12 DEF IInv

LEMMA GiveUpKeeps == ASSUME IInv, NEW c \in Clients, GiveUp(c) PROVE IInv'
<1>0. /\ req[c] \in Request /\ Sound(req[c]) /\ stored \subseteq 1..Recent /\ mishaps \in Nat
      /\ wants' \subseteq Clients
  BY DEF IInv, TypeOK, GiveUp, HangsUp
<1>1. /\ Busy(c) /\ UNCHANGED <<process, stored, save>>
      /\ free' = IF req[c].conn THEN free + 1 ELSE free
  BY DEF GiveUp
<1>2. CASE req[c].step \in DetachedSteps
  <2> DEFINE q == [req[c] EXCEPT !.gone = TRUE]
  <2>1. req' = [req EXCEPT ![c] = q]
    BY <1>2 DEF GiveUp, IInv, TypeOK
  <2>2. /\ q \in Request /\ q.step = req[c].step /\ q.match = req[c].match /\ q.listed = req[c].listed
        /\ q.player = req[c].player /\ q.conn = req[c].conn /\ q.age = req[c].age
        /\ q.call = req[c].call
    BY <1>0 DEF Request
  <2> HIDE DEF q
  <2>3. CallsBefore(q) = CallsBefore(req[c])
    BY <2>2 DEF CallsBefore
  <2>4. Sound(q)
    BY <1>0, <2>2, <2>3 DEF Sound, Placed, Paced
  <2>5. req[c].conn = FALSE
    BY <1>0, <1>2 DEF Sound, DetachedSteps, DbSteps, Request
  <2> QED  BY <1>0, <1>1, <2>1, <2>2, <2>4, <2>5, HandlerKeeps DEF process
<1>3. CASE req[c].step \notin DetachedSteps
  <2>1. req' = [req EXCEPT ![c] = Idle]
    BY <1>3 DEF GiveUp, IInv, TypeOK
  <2> QED  BY <1>0, <1>1, <2>1, EndKeeps DEF process
<1> QED  BY <1>2, <1>3

LEMMA FailureKeeps == ASSUME IInv, NEW c \in Clients, CallFails(c) PROVE IInv'
<1>0. /\ req[c] \in Request /\ Sound(req[c]) /\ Placed(req[c]) /\ stored \subseteq 1..Recent
      /\ wants \subseteq Clients /\ mishaps \in Nat
  BY DEF IInv, TypeOK, Sound
<1>1. /\ Busy(c) /\ mishaps' \in Nat /\ UNCHANGED <<phase, missing, drain, stored, wants, save>>
      /\ free' = IF req[c].conn THEN free + 1 ELSE free
  BY <1>0 DEF CallFails, Busy, OutsideSteps, DbSteps, EnrichSteps
<1>2. CASE req[c].step \in LoopSteps
  <2>1. req' = [req EXCEPT ![c] = [NextMatch(req[c]) EXCEPT !.conn = FALSE]]
    BY <1>2 DEF CallFails, IInv, TypeOK
  <2>2. Ready(NextMatch(req[c]), req[c].age, CallsMade(req[c]))
    BY <1>0, <1>2, NextMatchReady
  <2> QED  BY <1>0, <1>1, <2>1, <2>2, StepKeeps
<1>3. CASE req[c].step \notin LoopSteps
  <2>1. req' = [req EXCEPT ![c] = Idle]
    BY <1>3 DEF CallFails, IInv, TypeOK
  <2> QED  BY <1>0, <1>1, <2>1, EndKeeps
<1> QED  BY <1>2, <1>3

LEMMA ClientKeeps ==
    ASSUME IInv, NEW c \in Clients, Want(c) \/ GetMatchHistory(c) \/ GiveUp(c) \/ CallFails(c)
    PROVE  IInv'
<1>1. CASE Want(c)
  <2>1. PoolAccounted'
    BY <1>1 DEF Want, IInv, PoolAccounted, Holding, Saving
  <2>2. TypeOK' /\ Equipped' /\ Closed' /\ Aged' /\ \A d \in Clients : Sound(req[d])'
    BY <1>1 DEF Want, process, IInv, TypeOK, Equipped, Closed, Aged, Busy
  <2> QED  BY <2>1, <2>2 DEF IInv
<1> QED  BY <1>1, AcceptedKeeps, GiveUpKeeps, FailureKeeps

LEMMA SaversKeep ==
    ASSUME IInv, NEW s \in Savers, SaveAssets(s) \/ AddAsset(s) PROVE IInv'
<1>1. PICK then \in {"none", "saving"} : save' = [save EXCEPT ![s] = then] /\
          (\/ save[s] # "saving" /\ then = "saving" /\ free > 0 /\ free' = free - 1
           \/ save[s] = "saving" /\ then # "saving" /\ free' = free + 1)
  BY DEF SaveAssets, AddAsset
<1>2. UNCHANGED <<process, stored, wants, req>>
  BY DEF SaveAssets, AddAsset
<1>3. PoolAccounted' /\ free' \in Nat
  BY <1>1, <1>2, SaverTakes DEF IInv, TypeOK
<1>4. phase \in Open
  BY DEF SaveAssets, AddAsset, IInv, Closed
<1>5. TypeOK'
  BY <1>1, <1>2, <1>3 DEF process, IInv, TypeOK
<1>6. Equipped' /\ Closed' /\ Aged' /\ \A c \in Clients : Sound(req[c])'
  BY <1>2, <1>4 DEF process, IInv, Equipped, Closed, Aged, Busy
<1> QED  BY <1>3, <1>5, <1>6 DEF IInv

LEMMA GoneKeeps == ASSUME IInv, Gone, mishaps' \in Nat PROVE IInv'
<1>1. /\ \A c \in Clients : req'[c] = Idle
      /\ \A s \in Savers : save'[s] = "none"
  BY DEF Gone
<1>2. Holding' = {} /\ Saving' = {}
  BY <1>1 DEF Holding, Saving, Idle
<1>3. PoolAccounted'
  BY <1>2, FS_EmptySet DEF PoolAccounted, Gone
<1>4. TypeOK'
  BY IdleSound DEF Gone, IInv, TypeOK, Phases
<1>5. \A c \in Clients : Sound(req[c])'
  BY <1>1, IdleSound DEF Sound
<1>6. Equipped' /\ Closed' /\ Aged'
  BY <1>1 DEF Gone, IInv, Equipped, Closed, Aged, Open, Busy, Idle
<1> QED  BY <1>3, <1>4, <1>5, <1>6 DEF IInv

\* Steps of main before it serves, and of its surroundings: nobody is being served, or the
\* process goes on.
LEMMA MainKeeps ==
    ASSUME IInv, UNCHANGED <<stored, free, wants, save, req>>, drain' = drain, mishaps' \in Nat,
           phase' \in Phases, missing' \subseteq missing, Equipped', Closed',
           phase' = "draining" => phase = "serving" \/ phase = "draining",
           phase = "draining" => phase' = "draining"
    PROVE  IInv'
<1>1. PoolAccounted'
  BY DEF IInv, PoolAccounted, Holding, Saving
<1>2. TypeOK' /\ \A c \in Clients : Sound(req[c])'
  BY DEF IInv, TypeOK, Sound
<1>3. Aged'
  <2>1. \A c \in Clients : Busy(c) => req[c].age \in Nat
    BY DEF IInv, TypeOK, Request
  <2> QED  BY <2>1 DEF IInv, Aged, Busy
<1> QED  BY <1>1, <1>2, <1>3 DEF IInv

LEMMA ProcessKeeps ==
    ASSUME IInv, Boot \/ Provide \/ Signal \/ Die \/ Exit PROVE IInv'
<1>0. phase \in Phases /\ mishaps \in Nat
  BY DEF IInv, TypeOK
<1>1. CASE Boot
  BY <1>0, <1>1, MainKeeps DEF Boot, Start, ReadConfig, ConnectRedis, ConnectPostgres, Needed, Notify,
     IInv, Equipped, Closed, Busy, Open, Phases
<1>2. CASE Provide
  BY <1>0, <1>2, MainKeeps DEF Provide, IInv, Equipped, Closed, Busy
<1>3. CASE Signal
  <2>1. CASE phase = "serving" /\ phase' = "draining"
             /\ UNCHANGED <<missing, drain, stored, free, wants, save, req>>
    BY <1>0, <1>3, <2>1, MainKeeps DEF Signal, IInv, Equipped, Closed, Busy, Open, Phases
  <2>2. CASE Gone
    BY <1>0, <1>3, <2>2, GoneKeeps DEF Signal
  <2> QED  BY <1>3, <2>1, <2>2 DEF Signal
<1>4. CASE Die
  BY <1>0, <1>4, GoneKeeps DEF Die
<1>5. CASE Exit
  BY <1>0, <1>5, GoneKeeps DEF Exit
<1> QED  BY <1>1, <1>2, <1>3, <1>4, <1>5

\* Time passes for a request only during a call, and for less than the limit of the call.
LEMMA OlderSound ==
    ASSUME NEW q \in Request, Sound(q),
           q.step # "idle" => q.step \in OutsideSteps /\ q.call < CallTime
    PROVE  /\ Older(q) \in Request /\ Sound(Older(q))
           /\ Older(q).step = q.step /\ Older(q).conn = q.conn
           /\ q.step # "idle" => Older(q).age = q.age + 1
<1>1. CASE q.step = "idle"
  BY <1>1 DEF Older
<1>2. CASE q.step # "idle"
  <2> DEFINE o == [q EXCEPT !.age = @ + 1, !.call = @ + 1]
             age == q.age + 1
             call == q.call + 1
             before == CallTime * CallsBefore(q)
  <2>1. age \in Nat /\ call \in Nat /\ call <= CallTime
        /\ q.age \in Nat /\ q.call \in Nat
    BY <1>2 DEF Request
  <2>2. Older(q) = o /\ o = [q EXCEPT !.age = age, !.call = call]
    BY <1>2 DEF Older
  <2> HIDE DEF age, call, o
  <2>3. /\ o \in Request /\ o.step = q.step /\ o.conn = q.conn /\ o.match = q.match
        /\ o.listed = q.listed /\ o.player = q.player /\ o.age = age /\ o.call = call
    BY <2>1, <2>2 DEF Request
  <2>4. before \in Nat /\ q.age <= before + q.call /\ CallTime * CallsBefore(o) = before
    <3>1. CallsBefore(o) = CallsBefore(q) /\ CallsBefore(q) \in Nat
      BY <2>3, CallsCounted DEF CallsBefore
    <3> QED  BY <3>1, Products DEF Sound, Paced
  <2> HIDE DEF before
  <2>5. age <= before + call
    BY <2>1, <2>4 DEF age, call
  <2>6. Paced(o)
    BY <1>2, <2>1, <2>3, <2>4, <2>5 DEF Paced
  <2>7. Sound(o)
    BY <2>3, <2>6 DEF Sound, Placed
  <2> QED  BY <2>2, <2>3, <2>7 DEF age
<1> QED  BY <1>1, <1>2

LEMMA TickKeeps == ASSUME IInv, Tick PROVE IInv'
<1>1. \A c \in Clients : /\ req[c] \in Request /\ Sound(req[c])
                         /\ req[c].step # "idle"
                              => req[c].step \in OutsideSteps /\ req[c].call < CallTime
  BY DEF Tick, OnlyOutside, Busy, IInv, TypeOK
<1>2. /\ \A c \in Clients : req'[c] = Older(req[c])
      /\ UNCHANGED <<phase, missing, mishaps, stored, free, wants, save>>
      /\ req' = [c \in Clients |-> Older(req[c])]
  BY DEF Tick
<1>3. \A c \in Clients :
        /\ req'[c] \in Request /\ Sound(req'[c])
        /\ req'[c].step = req[c].step /\ req'[c].conn = req[c].conn
        /\ Busy(c) => req'[c].age = req[c].age + 1
  BY <1>1, <1>2, OlderSound DEF Busy
<1>4. Holding' = Holding /\ Saving' = Saving
  BY <1>2, <1>3 DEF Holding, Saving
<1>5. PoolAccounted'
  BY <1>2, <1>4 DEF IInv, PoolAccounted
<1>6. TypeOK'
  <2>1. req' \in [Clients -> Request]
    BY <1>2, <1>3
  <2> QED  BY <1>2, <2>1 DEF Tick, IInv, TypeOK
<1>7. \A c \in Clients : Sound(req[c])'
  BY <1>3
<1>8. Equipped' /\ Closed'
  BY <1>2, <1>3 DEF IInv, Equipped, Closed, Busy
<1>9. Aged'
  <2>1. CASE phase = "draining"
    <3>1. drain \in Nat /\ drain < DrainTime /\ drain' = drain + 1
      BY <2>1 DEF Tick, ShutdownReturns, TimeIsUp, IInv, TypeOK
    <3>2. ASSUME NEW c \in Clients, Busy(c)' PROVE req'[c].age >= drain + 1
      <4>1. Busy(c) /\ req[c].age >= drain /\ req[c].age \in Nat
        BY <1>1, <1>3, <2>1, <3>2 DEF Busy, IInv, Aged, Request
      <4>2. req'[c].age = req[c].age + 1
        BY <1>3, <4>1
      <4> QED  BY <3>1, <4>1, <4>2
    <3> QED  BY <1>2, <2>1, <3>1, <3>2 DEF Aged
  <2>2. CASE phase # "draining"
    BY <1>2, <2>2 DEF Tick, IInv, Aged
  <2> QED  BY <2>1, <2>2
<1> QED  BY <1>5, <1>6, <1>7, <1>8, <1>9 DEF IInv

LEMMA NextIInv == IInv /\ [Next]_vars => IInv'
<1> SUFFICES ASSUME IInv, [Next]_vars PROVE IInv'
  OBVIOUS
<1>1. CASE UNCHANGED vars
  <2>1. PoolAccounted'
    BY <1>1 DEF vars, IInv, PoolAccounted, Holding, Saving
  <2> QED  BY <1>1, <2>1 DEF vars, IInv, TypeOK, Sound, Equipped, Closed, Aged, Busy
<1> QED  BY <1>1, ProcessKeeps, TickKeeps, ClientKeeps, WaitersKeep, HandleKeeps, SaversKeep DEF Next

LEMMA Inductive == Spec => []IInv
BY InitIInv, NextIInv, PTL DEF Spec

(***************************************************************************)
(* The results.                                                            *)
(***************************************************************************)

\* The state has the shape that TypeOK says.
THEOREM TypeCorrect == Spec => []TypeOK
BY Inductive, PTL DEF IInv

\* Every connection of the pool is free or held by one that will give it back.
THEOREM ConnectionsAccounted == Spec => []PoolAccounted
BY Inductive, PTL DEF IInv

\* Whoever is served is served by a process that found all it needs.
THEOREM ServedWhenReady == Spec => []ReadyWhenServing
<1>1. IInv => ReadyWhenServing
  <2> SUFFICES ASSUME IInv, NEW c \in Clients, Busy(c) PROVE missing = {}
    BY DEF ReadyWhenServing
  <2>1. phase \in Open
    BY DEF IInv, Closed
  <2> QED  BY <2>1 DEF IInv, Equipped, TypeOK, Needs
<1> QED  BY <1>1, Inductive, PTL

\* The process has exited when the time of Shutdown is over.
THEOREM ShutdownEnds == Spec => []ExitsInTime
<1>1. IInv => ExitsInTime
  BY DEF IInv, Aged, ExitsInTime
<1> QED  BY <1>1, Inductive, PTL

\* What it cuts off then is as old as Shutdown.
THEOREM OnlyOldCut == Spec => NothingCutYoung
<1> DEFINE A == phase = "draining" /\ phase' = "down" /\ mishaps' = mishaps
                => \A c \in Clients : Busy(c) => req[c].age >= DrainTime
<1>1. IInv /\ [Next]_vars => [A]_vars
  <2> SUFFICES ASSUME IInv, Next, phase = "draining", phase' = "down", mishaps' = mishaps,
                      NEW c \in Clients, Busy(c)
               PROVE  req[c].age >= DrainTime
    OBVIOUS
  <2>1. CASE Exit
    <3>1. drain >= DrainTime
      BY <2>1 DEF Exit, ShutdownReturns, TimeIsUp
    <3>2. req[c].age >= drain /\ drain \in Nat /\ req[c].age \in Nat
      BY DEF IInv, Aged, TypeOK, Request
    <3> QED  BY <3>1, <3>2
  <2>2. Exit
    <3>1. ~Boot /\ ~Provide /\ ~Tick
      BY DEF Boot, Start, ReadConfig, ConnectRedis, ConnectPostgres, Needed, Notify, Provide, Tick
    <3>2. ~Signal /\ ~Die
      BY DEF Signal, Die, IInv, TypeOK
    <3>3. \A d \in Clients : /\ ~Want(d) /\ ~GetMatchHistory(d) /\ ~GiveUp(d) /\ ~CallFails(d)
                            /\ ~Acquire(d) /\ ~InsertMatch(d) /\ ~Handle(d)
      BY DEF Want, GetMatchHistory, GiveUp, CallFails, Acquire, InsertMatch, Handle, GetHistory,
             FetchClientVersion, GetEntitlement, ExistsMatch, GetDetails, Commit, ListMatches,
             ReadMatch, FillPlayerNames, GetAsset, FetchAsset, Answer, process
    <3>4. \A s \in Savers : ~SaveAssets(s) /\ ~AddAsset(s)
      BY DEF SaveAssets, AddAsset, process
    <3> QED  BY <3>1, <3>2, <3>3, <3>4 DEF Next
  <2> QED  BY <2>1, <2>2
<1> QED  BY <1>1, Inductive, PTL DEF Spec, NothingCutYoung

\* A shutdown takes no longer than its limit and cuts off nothing that is younger.
THEOREM ShutdownIsTimed == Spec => ShutdownTimed
BY ShutdownEnds, OnlyOldCut DEF ShutdownTimed

\* Whoever holds up the others can go on: a connection that is taken is held by somebody,
\* and the transaction whose row another waits for holds one and waits for nothing.
THEOREM SomebodyGoesOn == Spec => []NobodyStuck
<1>1. IInv => NobodyStuck
  <2> SUFFICES ASSUME IInv, free = 0 \/ (\E c \in Clients : WaitsForRow(c)), Saving = {}
               PROVE  \E c \in Holding : ~WaitsForRow(c)
    BY DEF NobodyStuck
  <2>1. ASSUME NEW c \in Clients, WaitsForRow(c) PROVE \E d \in Holding : ~WaitsForRow(d)
    <3>1. PICK d \in Clients : At(d, "commit")
      BY <2>1 DEF WaitsForRow, Writing
    <3>2. d \in Holding /\ ~WaitsForRow(d)
      BY <3>1 DEF IInv, Sound, At, Holding, WaitsForRow
    <3> QED  BY <3>2
  <2>2. ASSUME free = 0 PROVE Holding # {}
    <3>1. Cardinality(Saving) = 0 /\ Cardinality({}) = 0
      BY FS_EmptySet
    <3>2. Cardinality(Holding) = MaxConns /\ MaxConns # 0
      BY <2>2, <3>1, HoldersFinite DEF IInv, PoolAccounted
    <3> QED  BY <3>1, <3>2
  <2> QED  BY <2>1, <2>2 DEF Holding
<1> QED  BY <1>1, Inductive, PTL

\* A request is no older than the calls that lead to its step may take.
THEOREM PaceIsKept == Spec => []PaceKept
<1>1. IInv => PaceKept
  BY DEF IInv, Sound, Paced, PaceKept
<1> QED  BY <1>1, Inductive, PTL

\* With a write timeout that covers all of them, each answer reaches its client: the two calls
\* for the client of Riot, the list, every match of it, and for each match of the page the
\* names and the agents.
THEOREM AnswersInTime ==
    ASSUME CallTime * (3 + Recent + Longest * PerMatch) <= WriteTimeout
    PROVE  Spec => [](\A c \in Clients : At(c, "answer") => InTime(c))
<1>1. IInv => \A c \in Clients : At(c, "answer") => InTime(c)
  <2> SUFFICES ASSUME IInv, NEW c \in Clients, At(c, "answer") PROVE InTime(c)
    OBVIOUS
  <2> DEFINE q == req[c]
             shown == q.listed * PerMatch
             most == Longest * PerMatch
             calls == CallTime * (3 + Recent + shown)
             limit == CallTime * (3 + Recent + most)
  <2>1. q \in Request /\ Paced(q) /\ q.step = "answer"
    BY DEF IInv, TypeOK, Sound, At
  <2>2. q.age \in Nat /\ q.listed \in Nat /\ q.listed <= Longest /\ q.call = 0
    BY <2>1, LongestIsNat DEF Request, Paced, OutsideSteps
  <2>3. shown \in Nat /\ most \in Nat /\ shown <= most
    <3>1. q.listed * PerMatch = PerMatch * q.listed /\ Longest * PerMatch = PerMatch * Longest
      BY <2>2, LongestIsNat
    <3> QED  BY <2>2, <3>1, LongestIsNat, Products
  <2>4. CallsBefore(q) = 3 + Recent + shown
    BY <2>1, CallsAt
  <2>5. q.age <= calls + q.call
    BY <2>1, <2>4 DEF Paced
  <2> HIDE DEF shown, most
  <2>6. calls \in Nat /\ limit \in Nat /\ calls <= limit
    <3>1. 3 + Recent + shown \in Nat /\ 3 + Recent + most \in Nat
          /\ 3 + Recent + shown <= 3 + Recent + most
      BY <2>3
    <3> QED  BY <3>1, Products
  <2>7. limit <= WriteTimeout
    BY DEF most
  <2> HIDE DEF calls, limit
  <2> QED  BY <2>2, <2>5, <2>6, <2>7 DEF InTime
<1> QED  BY <1>1, Inductive, PTL
=============================================================================
