------------------------- MODULE PendingAuthProofs -------------------------
(***************************************************************************)
(* Proofs about PendingAuth, for any ids, attempts and requests.           *)
(*                                                                         *)
(* An id belongs to the attempt it was generated for, for good: the        *)
(* strengthening says that no request knows an id before it has an owner.  *)
(***************************************************************************)
EXTENDS PendingAuth, TLAPS

Leads(i) == pending[i] = NoAttempt => fate[i] # "open"

Knows(q) ==
    /\ q.id # NoId => q.id \in handed /\ q.attempt \in {owner[q.id], NoAttempt}
    /\ q.step \in Steps \ {"get"} => q.attempt \in Attempts
    /\ q.step \in {"get", "resave", "delete"} => q.id # NoId
    /\ q.step = "idle" => q.id = NoId
    /\ q.step = "respond" => q.new \in Ids /\ owner[q.new] # NoAttempt /\ Leads(q.new)

Owned == /\ \A i \in Ids : pending[i] \in {owner[i], NoAttempt}
         /\ \A i \in handed : owner[i] # NoAttempt

IInv == TypeOK /\ Owned /\ HandedIdsLeadOn /\ \A r \in Requests : Knows(req[r])

USE NoIdAssumption, NoAttemptAssumption

\* An idle request relies on nothing.
LEMMA IdleKnows == Idle \in Request /\ Knows(Idle) /\ Knows(Idle)'
BY DEF Idle, Request, Knows, Steps

\* Nothing is stored at first.
LEMMA InitIInv == Init => IInv
<1> SUFFICES ASSUME Init PROVE IInv
  OBVIOUS
<1>1. TypeOK
  BY IdleKnows DEF Init, TypeOK, Fates
<1>2. Owned /\ HandedIdsLeadOn
  BY DEF Init, Owned, HandedIdsLeadOn
<1> QED  BY <1>1, <1>2, IdleKnows DEF IInv, Init

(***************************************************************************)
(* What a step may do to the stores: an id that has an owner keeps it, and *)
(* one that leads on, or whose end is on record, does so ever after.       *)
(***************************************************************************)
Orderly == /\ handed \subseteq handed'
           /\ \A i \in Ids : owner[i] # NoAttempt => owner'[i] = owner[i]
           /\ \A i \in Ids : owner[i] # NoAttempt /\ Leads(i) => Leads(i)'

\* An orderly step takes nothing away from what a request knows.
LEMMA KnowledgeKept ==
    ASSUME IInv, Orderly, NEW s \in Requests
    PROVE  Knows(req[s])'  \/ req'[s] # req[s]
<1> SUFFICES ASSUME req'[s] = req[s]
             PROVE  Knows(req[s])'
  OBVIOUS
<1>1. Knows(req[s]) /\ req[s] \in Request
  BY DEF IInv, TypeOK
<1>2. req[s].id # NoId => req[s].id \in Ids /\ owner[req[s].id] # NoAttempt
  BY <1>1 DEF Knows, IInv, Owned, TypeOK
<1> QED  BY <1>1, <1>2 DEF Knows, Orderly

\* An orderly step of one request, which knows what it should afterwards.
LEMMA OneRequest ==
    ASSUME IInv, NEW r \in Requests, NEW q \in Request,
           req' = [req EXCEPT ![r] = q],
           Knows(q)',
           Orderly,
           Owned', HandedIdsLeadOn',
           pending' \in [Ids -> Attempts \cup {NoAttempt}],
           owner' \in [Ids -> Attempts \cup {NoAttempt}],
           fate' \in [Ids -> Fates],
           handed' \subseteq Ids, started' \subseteq Attempts
    PROVE  IInv'
<1>1. TypeOK'
  BY DEF IInv, TypeOK
<1>2. ASSUME NEW s \in Requests
      PROVE  Knows(req[s])'
  <2>1. req'[s] = IF s = r THEN q ELSE req[s]
    BY DEF IInv, TypeOK
  <2>2. CASE s = r
    BY <2>1, <2>2 DEF Knows, Leads
  <2>3. CASE s # r
    BY <2>1, <2>3, KnowledgeKept
  <2> QED  BY <2>2, <2>3
<1> QED  BY <1>1, <1>2 DEF IInv

\* A step that leaves ids and cookies alone.
LEMMA QuietStep ==
    ASSUME IInv, NEW r \in Requests, NEW q \in Request, Knows(q),
           req' = [req EXCEPT ![r] = q],
           UNCHANGED <<pending, owner, fate, handed>>,
           started' \subseteq Attempts
    PROVE  IInv'
<1>1. Knows(q)' /\ Orderly
  BY DEF Knows, Leads, Orderly
<1>2. Owned' /\ HandedIdsLeadOn'
  BY DEF IInv, Owned, HandedIdsLeadOn
<1>3. /\ pending' \in [Ids -> Attempts \cup {NoAttempt}]
      /\ owner' \in [Ids -> Attempts \cup {NoAttempt}]
      /\ fate' \in [Ids -> Fates]
      /\ handed' \subseteq Ids
  BY DEF IInv, TypeOK
<1> QED  BY <1>1, <1>2, <1>3, OneRequest

\* A request that ends changes nothing else.
LEMMA FinishIInv ==
    ASSUME IInv, NEW r \in Requests, Finish(r),
           UNCHANGED <<pending, owner, fate, handed, started>>
    PROVE  IInv'
BY IdleKnows, QuietStep DEF Finish, IInv, TypeOK

\* A first request has a jar of its own, a later one an id that was handed out.
LEMMA ArriveIInv ==
    ASSUME IInv, NEW r \in Requests, RiotLogin(r) \/ \E i \in handed : RiotLoginStep(r, i)
    PROVE  IInv'
<1>1. ASSUME NEW a \in Attempts, started' = started \cup {a},
             req' = [req EXCEPT ![r] = [Idle EXCEPT !.step = "riot", !.attempt = a]],
             UNCHANGED <<pending, owner, fate, handed>>
      PROVE  IInv'
  <2> DEFINE q == [Idle EXCEPT !.step = "riot", !.attempt = a]
  <2>1. q \in Request /\ Knows(q)
    BY DEF Idle, Request, Knows, Steps
  <2>2. req' = [req EXCEPT ![r] = q] /\ started' \subseteq Attempts
    BY <1>1 DEF IInv, TypeOK
  <2> HIDE DEF q
  <2> QED  BY <1>1, <2>1, <2>2, QuietStep
<1>2. ASSUME NEW i \in handed, RiotLoginStep(r, i)
      PROVE  IInv'
  <2> DEFINE q == [Idle EXCEPT !.step = "get", !.id = i]
  <2>1. i \in Ids
    BY DEF IInv, TypeOK
  <2>2. q \in Request /\ Knows(q)
    BY <2>1 DEF Idle, Request, Knows, Steps
  <2>3. /\ req' = [req EXCEPT ![r] = q] /\ started' \subseteq Attempts
        /\ UNCHANGED <<pending, owner, fate, handed>>
    BY <1>2 DEF RiotLoginStep, IInv, TypeOK
  <2> HIDE DEF q
  <2> QED  BY <2>2, <2>3, QuietStep
<1> QED  BY <1>1, <1>2 DEF RiotLogin

\* The cookies found under an id are those of its owner.
LEMMA GetPendingIInv ==
    ASSUME IInv, NEW r \in Requests, GetPending(r)
    PROVE  IInv'
<1> DEFINE i == req[r].id
           a == pending[i]
<1>1. /\ req[r] \in Request /\ Knows(req[r]) /\ req[r].step = "get"
      /\ UNCHANGED <<pending, owner, fate, handed, started>>
  BY DEF IInv, TypeOK, GetPending, At
<1>2. i \in Ids /\ i \in handed /\ i # NoId
  BY <1>1 DEF Knows, IInv, TypeOK
<1>3. a \in {owner[i], NoAttempt} /\ a \in Attempts \cup {NoAttempt}
  BY <1>2 DEF IInv, TypeOK, Owned
<1>4. CASE a # NoAttempt /\ req' = [req EXCEPT ![r].step = "riot", ![r].attempt = a]
  <2> DEFINE q == [req[r] EXCEPT !.step = "riot", !.attempt = a]
  <2>1. req' = [req EXCEPT ![r] = q]
    BY <1>4
  <2> HIDE DEF a
  <2>2. q \in Request /\ q.step = "riot" /\ q.attempt = a /\ q.id = i
    BY <1>1, <1>3 DEF Request, Steps
  <2> HIDE DEF q, i
  <2>3. Knows(q)
    BY <1>2, <1>3, <1>4, <2>2 DEF Knows
  <2>4. started' \subseteq Attempts
    BY <1>1 DEF IInv, TypeOK
  <2> QED  BY <1>1, <2>1, <2>2, <2>3, <2>4, QuietStep
<1>5. CASE Finish(r)
  BY <1>1, <1>5, FinishIInv DEF IInv, TypeOK
<1> QED  BY <1>4, <1>5 DEF GetPending

\* Riot's answer decides where the request goes; only one with an id goes back to it.
LEMMA RiotAnswersIInv ==
    ASSUME IInv, NEW r \in Requests, RiotAnswers(r)
    PROVE  IInv'
<1>1. /\ req[r] \in Request /\ Knows(req[r]) /\ req[r].step = "riot"
      /\ UNCHANGED <<pending, owner, fate, handed, started>>
  BY DEF IInv, TypeOK, RiotAnswers, At
<1>2. started' \subseteq Attempts
  BY <1>1 DEF IInv, TypeOK
<1>3. ASSUME NEW step \in {"complete", "challenge", "delete", "resave"},
             NEW c \in BOOLEAN,
             step \in {"delete", "resave"} => req[r].id # NoId,
             req' = [req EXCEPT ![r] = [req[r] EXCEPT !.step = step, !.challenged = c]]
      PROVE  IInv'
  <2> DEFINE q == [req[r] EXCEPT !.step = step, !.challenged = c]
  <2>1. q \in Request
    BY <1>1 DEF Request, Steps
  <2>2. q.step = step /\ q.attempt = req[r].attempt /\ q.id = req[r].id
    BY <1>1 DEF Request
  <2>3. req' = [req EXCEPT ![r] = q]
    BY <1>3
  <2> HIDE DEF q
  <2>4. Knows(q)
    BY <1>1, <1>3, <2>2 DEF Knows, Steps
  <2> QED  BY <1>1, <1>2, <2>1, <2>3, <2>4, QuietStep
<1>4. ASSUME NEW step \in {"complete", "delete", "resave"},
             step \in {"delete", "resave"} => req[r].id # NoId,
             GoTo(r, step)
      PROVE  IInv'
  <2>1. [req[r] EXCEPT !.step = step, !.challenged = req[r].challenged] = [req[r] EXCEPT !.step = step]
    BY <1>1 DEF Request
  <2>2. req[r].challenged \in BOOLEAN
    BY <1>1 DEF Request
  <2> QED  BY <1>3, <1>4, <2>1, <2>2 DEF GoTo
<1>5. CASE Finish(r)
  BY <1>1, <1>2, <1>5, FinishIInv
<1>6. CASE req' = [req EXCEPT ![r].step = IF req[r].id = NoId THEN "challenge" ELSE "resave",
                              ![r].challenged = TRUE]
  BY <1>3, <1>6
<1> QED  BY <1>4, <1>5, <1>6 DEF RiotAnswers

\* What is written to pending, and which of the stores may change with it.
LEMMA StoreStep ==
    ASSUME IInv, NEW r \in Requests, NEW q \in Request,
           req' = [req EXCEPT ![r] = q],
           Knows(q)',
           NEW i \in Ids, NEW a \in Attempts \cup {NoAttempt},
           a \in {owner[i], NoAttempt},
           pending' = Stored(i, a),
           fate' \in [Ids -> Fates],
           a = NoAttempt => fate'[i] # "open",
           \A j \in Ids : j # i => fate'[j] = fate[j],
           a # NoAttempt => fate'[i] = fate[i],
           UNCHANGED <<owner, handed, started>>
    PROVE  IInv'
<1>1. /\ pending' \in [Ids -> Attempts \cup {NoAttempt}]
      /\ \A j \in Ids : pending'[j] = IF j = i THEN a ELSE pending[j]
  BY DEF IInv, TypeOK, Stored
<1>2. Orderly
  BY <1>1 DEF Orderly, Leads
<1>3. Owned'
  BY <1>1 DEF IInv, Owned
<1>4. HandedIdsLeadOn'
  BY <1>1 DEF IInv, HandedIdsLeadOn, TypeOK
<1>5. /\ owner' \in [Ids -> Attempts \cup {NoAttempt}]
      /\ handed' \subseteq Ids /\ started' \subseteq Attempts
  BY DEF IInv, TypeOK
<1> QED  BY <1>1, <1>2, <1>3, <1>4, <1>5, OneRequest

\* The cookies go back under their own id.
LEMMA ReSaveIInv ==
    ASSUME IInv, NEW r \in Requests, ReSave(r)
    PROVE  IInv'
<1> DEFINE i == req[r].id
           a == req[r].attempt
<1>1. /\ req[r] \in Request /\ Knows(req[r]) /\ req[r].step = "resave"
      /\ UNCHANGED <<owner, fate, handed, started>>
      /\ started' \subseteq Attempts
  BY DEF IInv, TypeOK, ReSave, At
<1>2. i # NoId /\ i \in handed /\ i \in Ids /\ a \in Attempts /\ a # NoAttempt /\ a = owner[i]
  BY <1>1 DEF Knows, Steps, IInv, TypeOK
<1>3. PICK q \in {[req[r] EXCEPT !.step = "challenge"], Idle} : req' = [req EXCEPT ![r] = q]
  BY DEF ReSave, GoTo, Finish
<1>4. q \in Request /\ Knows(q) /\ Knows(q)'
  <2>1. CASE q = Idle
    BY <2>1, IdleKnows
  <2>2. CASE q = [req[r] EXCEPT !.step = "challenge"]
    <3>1. q \in Request /\ q.step = "challenge" /\ q.id = i /\ q.attempt = a
      BY <1>1, <2>2 DEF Request, Steps
    <3> QED  BY <1>1, <1>2, <3>1 DEF Knows
  <2> QED  BY <2>1, <2>2
<1> HIDE DEF i, a
<1>5. CASE UNCHANGED pending
  BY <1>1, <1>3, <1>4, <1>5, QuietStep
<1>6. CASE pending' = Stored(i, a)
  <2>1. fate' \in [Ids -> Fates]
    BY <1>1 DEF IInv, TypeOK
  <2> QED  BY <1>1, <1>2, <1>3, <1>4, <1>6, <2>1, StoreStep
<1> QED  BY <1>5, <1>6 DEF ReSave, i, a

\* An id that is deleted was deleted on record.
LEMMA DeletePendingIInv ==
    ASSUME IInv, NEW r \in Requests, DeletePending(r)
    PROVE  IInv'
<1> DEFINE i == req[r].id
<1> PICK q \in {[req[r] EXCEPT !.step = "complete"]} : TRUE
  OBVIOUS
<1>1. /\ req[r] \in Request /\ Knows(req[r]) /\ req[r].step = "delete"
      /\ UNCHANGED <<owner, handed, started>>
      /\ started' \subseteq Attempts
      /\ req' = [req EXCEPT ![r] = q]
  BY DEF IInv, TypeOK, DeletePending, At, GoTo
<1>2. i # NoId /\ i \in Ids /\ req[r].attempt \in Attempts
  BY <1>1 DEF Knows, Steps, IInv, TypeOK
<1>3. q \in Request /\ q.step = "complete" /\ q.id = i /\ q.attempt = req[r].attempt
  BY <1>1 DEF Request, Steps
<1>4. Knows(q) /\ Knows(q)'
  BY <1>1, <1>2, <1>3 DEF Knows
<1>5. CASE UNCHANGED <<pending, fate>>
  BY <1>1, <1>3, <1>4, <1>5, QuietStep
<1>6. CASE pending' = Stored(i, NoAttempt) /\ fate' = [fate EXCEPT ![i] = "deleted"]
  <2>1. /\ fate' \in [Ids -> Fates] /\ fate'[i] = "deleted"
        /\ \A j \in Ids : j # i => fate'[j] = fate[j]
    BY <1>2, <1>6 DEF IInv, TypeOK, Fates
  <2> HIDE DEF i
  <2> QED  BY <1>1, <1>2, <1>3, <1>4, <1>6, <2>1, StoreStep
<1> QED  BY <1>5, <1>6 DEF DeletePending

\* A challenge is stored under an id that nobody knows yet.
LEMMA SaveChallengeIInv ==
    ASSUME IInv, NEW r \in Requests, SaveChallenge(r)
    PROVE  IInv'
<1> DEFINE a == req[r].attempt
<1>1. /\ req[r] \in Request /\ Knows(req[r]) /\ req[r].step = "challenge"
      /\ UNCHANGED <<fate, handed, started>>
      /\ started' \subseteq Attempts
  BY DEF IInv, TypeOK, SaveChallenge, At
<1>2. a \in Attempts /\ a # NoAttempt
  BY <1>1 DEF Knows, Steps
<1>3. CASE Finish(r) /\ UNCHANGED <<pending, owner>>
  BY <1>1, <1>3, FinishIInv
<1>4. ASSUME NEW i \in FreshIds,
             pending' = Stored(i, a), owner' = [owner EXCEPT ![i] = a],
             NEW q \in {[req[r] EXCEPT !.step = "respond", !.new = i], Idle},
             req' = [req EXCEPT ![r] = q]
      PROVE  IInv'
  <2>1. i \in Ids /\ owner[i] = NoAttempt /\ i \notin handed
    BY DEF FreshIds, IInv, Owned
  <2>2. /\ pending' \in [Ids -> Attempts \cup {NoAttempt}]
        /\ owner' \in [Ids -> Attempts \cup {NoAttempt}]
        /\ pending'[i] = a /\ owner'[i] = a
        /\ \A j \in Ids : j # i => pending'[j] = pending[j] /\ owner'[j] = owner[j]
    BY <1>2, <1>4, <2>1 DEF IInv, TypeOK, Stored
  <2>3. q \in Request /\ Knows(q)'
    <3>1. CASE q = Idle
      BY <3>1, IdleKnows
    <3>2. CASE q = [req[r] EXCEPT !.step = "respond", !.new = i]
      <4>1. q \in Request /\ q.step = "respond" /\ q.new = i /\ q.id = req[r].id /\ q.attempt = a
        BY <1>1, <2>1, <3>2 DEF Request, Steps
      <4>2. q.id # NoId => q.id \in handed /\ q.id \in Ids /\ q.id # i /\ a = owner[q.id]
        BY <1>1, <1>2, <2>1, <4>1 DEF Knows, IInv, TypeOK
      <4> QED  BY <1>1, <1>2, <2>1, <2>2, <4>1, <4>2 DEF Knows, Leads
    <3> QED  BY <1>4, <3>1, <3>2
  <2>4. Orderly
    BY <1>1, <2>1, <2>2 DEF Orderly, Leads
  <2>5. Owned'
    BY <1>1, <1>2, <2>1, <2>2 DEF IInv, Owned, TypeOK
  <2>6. HandedIdsLeadOn'
    BY <1>1, <2>1, <2>2 DEF IInv, HandedIdsLeadOn, TypeOK
  <2>7. fate' \in [Ids -> Fates] /\ handed' \subseteq Ids
    BY <1>1 DEF IInv, TypeOK
  <2> QED  BY <1>1, <1>4, <2>2, <2>3, <2>4, <2>5, <2>6, <2>7, OneRequest
<1>5. ASSUME NEW i \in FreshIds,
             pending' = Stored(i, a), owner' = [owner EXCEPT ![i] = a],
             \/ req' = [req EXCEPT ![r].step = "respond", ![r].new = i]
             \/ Finish(r)
      PROVE  IInv'
  BY <1>4, <1>5 DEF Finish
<1> QED  BY <1>3, <1>5 DEF SaveChallenge

\* The id that is handed out leads on.
LEMMA RespondChallengeIInv ==
    ASSUME IInv, NEW r \in Requests, RespondChallenge(r)
    PROVE  IInv'
<1>1. /\ req[r] \in Request /\ Knows(req[r]) /\ req[r].step = "respond"
      /\ UNCHANGED <<pending, owner, fate, started>>
      /\ req' = [req EXCEPT ![r] = Idle]
  BY DEF IInv, TypeOK, RespondChallenge, At, Finish
<1>2. req[r].new \in Ids /\ owner[req[r].new] # NoAttempt /\ Leads(req[r].new)
  BY <1>1 DEF Knows
<1>3. CASE UNCHANGED handed
  BY <1>1, <1>3, FinishIInv DEF Finish, IInv, TypeOK
<1>4. CASE handed' = handed \cup {req[r].new}
  <2>1. Orderly
    BY <1>1, <1>4 DEF Orderly, Leads
  <2>2. Owned' /\ HandedIdsLeadOn'
    BY <1>1, <1>2, <1>4 DEF IInv, Owned, HandedIdsLeadOn, Leads
  <2>3. /\ pending' \in [Ids -> Attempts \cup {NoAttempt}]
        /\ owner' \in [Ids -> Attempts \cup {NoAttempt}]
        /\ fate' \in [Ids -> Fates]
        /\ handed' \subseteq Ids /\ started' \subseteq Attempts
    BY <1>1, <1>2, <1>4 DEF IInv, TypeOK
  <2> QED  BY <1>1, <2>1, <2>2, <2>3, IdleKnows, OneRequest
<1> QED  BY <1>3, <1>4 DEF RespondChallenge

\* A link leaves ids and cookies alone.
LEMMA CompleteAuthIInv ==
    ASSUME IInv, NEW r \in Requests, CompleteAuth(r)
    PROVE  IInv'
BY FinishIInv DEF CompleteAuth

\* Steps of no request: what the requests know is kept by orderly steps.
LEMMA ElsewhereIInv ==
    ASSUME IInv, (\E i \in Ids : Expire(i)) \/ Restart \/ UNCHANGED vars
    PROVE  IInv'
<1>1. CASE \E i \in Ids : Expire(i)
  <2>1. PICK i \in Ids : Expire(i)
    BY <1>1
  <2>2. /\ UNCHANGED <<owner, handed, started, req>>
        /\ pending' \in [Ids -> Attempts \cup {NoAttempt}]
        /\ fate' \in [Ids -> Fates]
        /\ \A j \in Ids : pending'[j] = IF j = i THEN NoAttempt ELSE pending[j]
        /\ \A j \in Ids : fate'[j] = IF j = i THEN "expired" ELSE fate[j]
    BY <2>1 DEF Expire, Stored, IInv, TypeOK, Fates
  <2>3. Orderly
    BY <2>2 DEF Orderly, Leads
  <2>4. \A s \in Requests : Knows(req[s])'
    BY <2>2, <2>3, KnowledgeKept
  <2>5. Owned' /\ HandedIdsLeadOn'
    BY <2>2 DEF IInv, Owned, HandedIdsLeadOn, TypeOK
  <2>6. TypeOK'
    BY <2>2 DEF IInv, TypeOK
  <2> QED  BY <2>4, <2>5, <2>6 DEF IInv
<1>2. CASE Restart
  <2>1. /\ UNCHANGED <<pending, owner, fate, handed, started>>
        /\ req' = [s \in Requests |-> Idle]
    BY <1>2 DEF Restart
  <2>2. Owned' /\ HandedIdsLeadOn'
    BY <2>1 DEF IInv, Owned, HandedIdsLeadOn
  <2>3. TypeOK'
    BY <2>1, IdleKnows DEF IInv, TypeOK
  <2>4. ASSUME NEW s \in Requests PROVE Knows(req[s])'
    BY <2>1, IdleKnows DEF Knows, Leads
  <2> QED  BY <2>2, <2>3, <2>4 DEF IInv
<1>3. CASE UNCHANGED vars
  <2>1. UNCHANGED <<pending, owner, fate, handed, started, req>>
    BY <1>3 DEF vars
  <2>2. Orderly /\ TypeOK' /\ Owned' /\ HandedIdsLeadOn'
    BY <2>1 DEF Orderly, Leads, IInv, TypeOK, Owned, HandedIdsLeadOn
  <2>3. \A s \in Requests : Knows(req[s])'
    BY <2>1, <2>2, KnowledgeKept
  <2> QED  BY <2>2, <2>3 DEF IInv
<1> QED  BY <1>1, <1>2, <1>3

\* The strengthening is an invariant of every behaviour.
THEOREM Inductive == Spec => []IInv
<1>1. ASSUME IInv, [Next]_vars
      PROVE  IInv'
  BY <1>1, ArriveIInv, GetPendingIInv, RiotAnswersIInv, ReSaveIInv, SaveChallengeIInv,
     RespondChallengeIInv, DeletePendingIInv, CompleteAuthIInv, ElsewhereIInv DEF Next, Serve
<1> QED  BY <1>1, InitIInv, PTL DEF Spec

\* The variables keep their types.
THEOREM TypeCorrect == Spec => []TypeOK
BY Inductive, PTL DEF IInv

\* The cookies of one attempt are never used for another.
THEOREM AttemptsAreKeptApart == Spec => []AttemptsNeverMix
<1>1. IInv => AttemptsNeverMix
  <2> SUFFICES ASSUME IInv, NEW r \in Requests, req[r].id # NoId, ~ At(r, "get")
               PROVE  req[r].attempt = owner[req[r].id]
    BY DEF AttemptsNeverMix, IInv, Owned
  <2>1. req[r] \in Request /\ Knows(req[r])
    BY DEF IInv, TypeOK
  <2>2. req[r].attempt \in Attempts
    BY <2>1 DEF Request, Knows, At
  <2> QED  BY <2>1, <2>2 DEF Knows
<1> QED  BY <1>1, Inductive, PTL

\* An id that a client holds leads on until success or expiry.
THEOREM IdsLeadOn == Spec => []HandedIdsLeadOn
BY Inductive, PTL DEF IInv
===========================================================================
