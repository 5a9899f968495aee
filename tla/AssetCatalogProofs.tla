------------------------- MODULE AssetCatalogProofs -------------------------
(***************************************************************************)
(* Proofs about AssetCatalog, and about SkinsCache on top of it, for any    *)
(* items, data and requests.                                               *)
(*                                                                         *)
(* Whatever is on its way to the table was told by the API, so nothing is  *)
(* invented there; what a bulk lookup has taken from the table when it     *)
(* asks the API is never blank, so that only what it lacks is asked for.   *)
(* Pages of skins only make steps of the catalogue, so that all of this    *)
(* holds for what they show.                                               *)
(***************************************************************************)
EXTENDS SkinsCache, TLAPS

\* What a request may have found.
Truthful(q, said) == \A k \in Keys : q.found[k] # NoRow => <<k, q.found[k]>> \in said

Sound(q, said) == /\ Truthful(q, said)
                  /\ q.step = "fetchall" => \A k \in q.ids : q.found[k] # Blank

IInv == /\ TypeOK
        /\ unsaved \subseteq told
        /\ \A k \in Keys : assets[k] # NoRow => <<k, assets[k]>> \in told
        /\ \A r \in Requests : Sound(req[r], told)

USE BlankAssumption, NoRowAssumption

LEMMA IdleSound == ASSUME NEW said PROVE Idle \in Request /\ Sound(Idle, said)
BY DEF Idle, Request, Sound, Truthful, Nothing

LEMMA InitIInv == Init => IInv
BY IdleSound DEF Init, IInv, TypeOK, Nothing

\* The data that the API lists of some keys.
LEMMA ApiAnswerType ==
    ASSUME TypeOK, NEW ks \in SUBSET Keys
    PROVE  /\ ApiAnswer(ks) \subseteq Keys \X Data
           /\ \A k \in Keys, d \in Data :
                 <<k, d>> \in ApiAnswer(ks) <=> k \in ks /\ api[k] = d
<1>1. \A k \in Keys : api[k] \in Data \/ api[k] = NoRow
  BY DEF TypeOK
<1> QED  BY <1>1 DEF ApiAnswer

\* What was found before, with what the API lists put over it.
LEMMA MergedAnswer ==
    ASSUME TypeOK, NEW ks \in SUBSET Keys, NEW found \in [Keys -> Data \cup {NoRow}]
    PROVE  LET all == Merged(found, ApiAnswer(ks)) IN
           /\ all \in [Keys -> Data \cup {NoRow}]
           /\ \A k \in Keys : all[k] = IF k \in ks /\ api[k] # NoRow THEN api[k] ELSE found[k]
<1> DEFINE all == Merged(found, ApiAnswer(ks))
<1>0. \A k \in Keys : api[k] \in Data \/ api[k] = NoRow
  BY DEF TypeOK
<1>1. ASSUME NEW k \in Keys
      PROVE  all[k] = IF k \in ks /\ api[k] # NoRow THEN api[k] ELSE found[k]
  <2>1. CASE k \in ks /\ api[k] # NoRow
    <3>1. api[k] \in Data /\ <<k, api[k]>> \in ApiAnswer(ks)
      BY <1>0, <2>1, ApiAnswerType
    <3>2. \A d \in Data : <<k, d>> \in ApiAnswer(ks) => d = api[k]
      BY ApiAnswerType
    <3>3. (CHOOSE d \in Data : <<k, d>> \in ApiAnswer(ks)) = api[k]
      BY <3>1, <3>2
    <3> QED  BY <2>1, <3>1, <3>3 DEF Merged
  <2>2. CASE ~(k \in ks /\ api[k] # NoRow)
    <3>1. ~ \E d \in Data : <<k, d>> \in ApiAnswer(ks)
      BY <2>2, ApiAnswerType
    <3> QED  BY <2>2, <3>1 DEF Merged
  <2> QED  BY <2>1, <2>2
<1>2. all = [k \in Keys |-> all[k]]
  BY DEF Merged
<1>3. \A k \in Keys : all[k] \in Data \cup {NoRow}
  BY <1>0, <1>1
<1> HIDE DEF all
<1>4. all \in [Keys -> Data \cup {NoRow}]
  BY <1>2, <1>3
<1> QED  BY <1>1, <1>4 DEF all

(***************************************************************************)
(* The steps.                                                              *)
(***************************************************************************)

\* One request goes on, and more may have been told by the API.
LEMMA ServedKeeps ==
    ASSUME IInv, NEW r \in Requests, NEW q \in Request, req' = [req EXCEPT ![r] = q],
           UNCHANGED <<assets, api>>, told \subseteq told', told' \subseteq Keys \X Data,
           unsaved' \subseteq told', Sound(q, told')
    PROVE  IInv'
<1>1. TypeOK'
  BY DEF IInv, TypeOK
<1>2. \A k \in Keys : assets'[k] # NoRow => <<k, assets'[k]>> \in told'
  BY DEF IInv
<1>3. ASSUME NEW s \in Requests PROVE Sound(req'[s], told')
  <2>1. CASE s = r
    BY <2>1 DEF IInv, TypeOK
  <2>2. CASE s # r
    <3>1. req'[s] = req[s] /\ Sound(req[s], told)
      BY <2>2 DEF IInv, TypeOK
    <3> QED  BY <3>1 DEF Sound, Truthful
  <2> QED  BY <2>1, <2>2
<1> QED  BY <1>1, <1>2, <1>3 DEF IInv

LEMMA EndKeeps ==
    ASSUME IInv, NEW r \in Requests, Finish(r), UNCHANGED <<assets, api, unsaved, told>>
    PROVE  IInv'
BY IdleSound, ServedKeeps DEF Finish, IInv, TypeOK

LEMMA ArriveKeeps == ASSUME IInv, NEW r \in Requests, Arrive(r) PROVE IInv'
<1>1. PICK step \in {"lookup", "bulk"} : \E ids \in SUBSET Keys : Start(r, step, ids)
  BY DEF Arrive, GetAsset, BulkGetByType, Keys
<1>2. PICK ids \in SUBSET Keys : Start(r, step, ids)
  BY <1>1
<1> DEFINE q == [Idle EXCEPT !.step = step, !.ids = ids]
<1>3. q \in Request /\ Sound(q, told)
  BY DEF Idle, Request, Sound, Truthful, Nothing
<1> HIDE DEF q
<1> QED  BY <1>2, <1>3, ServedKeeps DEF Start, q, IInv, TypeOK

LEMMA LookupAssetKeeps == ASSUME IInv, NEW r \in Requests, LookupAsset(r) PROVE IInv'
<1>0. /\ req[r] \in Request /\ Sound(req[r], told) /\ UNCHANGED <<assets, api, unsaved, told>>
      /\ unsaved \subseteq told /\ told \subseteq Keys \X Data
  BY DEF LookupAsset, IInv, TypeOK
<1>1. PICK k \in req[r].ids :
           \/ assets[k] # NoRow /\ req' = [req EXCEPT ![r].step = "answer",
                                                      ![r].found = [@ EXCEPT ![k] = assets[k]]]
           \/ GoTo(r, "fetch")
           \/ Finish(r)
  BY DEF LookupAsset
<1>2. CASE assets[k] # NoRow /\ req' = [req EXCEPT ![r].step = "answer",
                                                   ![r].found = [@ EXCEPT ![k] = assets[k]]]
  <2> DEFINE found == [req[r].found EXCEPT ![k] = assets[k]]
             q == [req[r] EXCEPT !.step = "answer", !.found = found]
  <2>1. k \in Keys /\ req' = [req EXCEPT ![r] = q]
    BY <1>0, <1>2 DEF IInv, TypeOK, Request
  <2>2. /\ found \in [Keys -> Data \cup {NoRow}]
        /\ \A j \in Keys : found[j] = IF j = k THEN assets[k] ELSE req[r].found[j]
    BY <1>0, <2>1 DEF IInv, TypeOK, Request
  <2>3. <<k, assets[k]>> \in told
    BY <1>2, <2>1 DEF IInv
  <2> HIDE DEF found
  <2>4. q \in Request /\ q.step = "answer" /\ q.found = found
    BY <1>0, <2>2 DEF Request
  <2> HIDE DEF q
  <2>5. Sound(q, told)
    BY <1>0, <2>2, <2>3, <2>4 DEF Sound, Truthful
  <2> QED  BY <1>0, <2>1, <2>4, <2>5, ServedKeeps
<1>3. CASE GoTo(r, "fetch")
  <2> DEFINE q == [req[r] EXCEPT !.step = "fetch"]
  <2>1. q \in Request /\ Sound(q, told) /\ req' = [req EXCEPT ![r] = q]
    BY <1>0, <1>3 DEF GoTo, Request, Sound, Truthful
  <2> HIDE DEF q
  <2> QED  BY <1>0, <2>1, ServedKeeps
<1>4. CASE Finish(r)
  BY <1>0, <1>4, EndKeeps
<1> QED  BY <1>1, <1>2, <1>3, <1>4

\* An answer made of what was found and what the API lists of some keys.
LEMMA AnsweredKeeps ==
    ASSUME IInv, NEW r \in Requests, NEW ks \in SUBSET Keys, UNCHANGED <<assets, api>>,
           req' = [req EXCEPT ![r].step = "answer", ![r].found = Merged(@, ApiAnswer(ks))],
           unsaved' = unsaved \cup ApiAnswer(ks), told' = told \cup ApiAnswer(ks)
    PROVE  IInv'
<1> DEFINE found == Merged(req[r].found, ApiAnswer(ks))
           q == [req[r] EXCEPT !.step = "answer", !.found = found]
<1>0. /\ TypeOK /\ req[r] \in Request /\ Sound(req[r], told) /\ unsaved \subseteq told
      /\ told \subseteq Keys \X Data /\ req[r].found \in [Keys -> Data \cup {NoRow}]
      /\ \A k \in Keys : api[k] \in Data \cup {NoRow}
  BY DEF IInv, TypeOK, Request
<1>1. /\ found \in [Keys -> Data \cup {NoRow}]
      /\ \A k \in Keys : found[k] = IF k \in ks /\ api[k] # NoRow THEN api[k] ELSE req[r].found[k]
  BY <1>0, MergedAnswer
<1>2. req' = [req EXCEPT ![r] = q]
  BY DEF IInv, TypeOK
<1> HIDE DEF found
<1>3. q \in Request /\ q.step = "answer" /\ q.found = found
  BY <1>0, <1>1 DEF Request
<1> HIDE DEF q
<1>4. \A k \in ks : api[k] # NoRow => <<k, api[k]>> \in told'
  BY <1>0, ApiAnswerType
<1>5. Sound(q, told')
  BY <1>0, <1>1, <1>3, <1>4 DEF Sound, Truthful
<1>6. told' \subseteq Keys \X Data /\ unsaved' \subseteq told' /\ told \subseteq told'
  BY <1>0, ApiAnswerType
<1> QED  BY <1>2, <1>3, <1>5, <1>6, ServedKeeps

LEMMA FetchAssetKeeps == ASSUME IInv, NEW r \in Requests, FetchAsset(r) PROVE IInv'
<1>1. CASE Finish(r) /\ UNCHANGED <<unsaved, told>>
  BY <1>1, EndKeeps DEF FetchAsset
<1>2. CASE ~(Finish(r) /\ UNCHANGED <<unsaved, told>>)
  <2>1. req[r].ids \in SUBSET Keys
    BY DEF IInv, TypeOK, Request
  <2> QED  BY <1>2, <2>1, AnsweredKeeps DEF FetchAsset
<1> QED  BY <1>1, <1>2

LEMMA LookupAllKeeps == ASSUME IInv, NEW r \in Requests, LookupAll(r) PROVE IInv'
<1> DEFINE ks == req[r].ids
           q(rows) == [req[r] EXCEPT !.step = IF rows = ks THEN "answer" ELSE "fetchall",
                                     !.found = DataOf(rows)]
<1>0. req[r] \in Request /\ ks \subseteq Keys /\ UNCHANGED <<assets, api, unsaved, told>>
      /\ told \subseteq Keys \X Data /\ unsaved \subseteq told
  BY DEF LookupAll, IInv, TypeOK, Request
<1>1. PICK rows \in {FoundRows(ks), {}} : req' = [req EXCEPT ![r] = q(rows)]
  BY DEF LookupAll, IInv, TypeOK
<1>2. rows \subseteq ks /\ \A k \in rows : assets[k] \in Names
  BY DEF FoundRows
<1>3. /\ DataOf(rows) \in [Keys -> Data \cup {NoRow}]
      /\ \A k \in Keys : DataOf(rows)[k] = IF k \in rows THEN assets[k] ELSE NoRow
  BY <1>0, <1>2 DEF Data, DataOf
<1>4. q(rows) \in Request /\ q(rows).found = DataOf(rows) /\ q(rows).ids = ks
  BY <1>0, <1>3 DEF Request
<1> HIDE DEF q
<1>5. Truthful(q(rows), told)
  BY <1>2, <1>3, <1>4 DEF Truthful, IInv
<1>6. \A k \in ks : q(rows).found[k] # Blank
  BY <1>0, <1>2, <1>3, <1>4 DEF Data
<1> QED  BY <1>0, <1>1, <1>4, <1>5, <1>6, ServedKeeps DEF Sound

LEMMA FetchAllKeeps == ASSUME IInv, NEW r \in Requests, FetchAll(r) PROVE IInv'
<1>0. /\ req[r] \in Request /\ Sound(req[r], told) /\ UNCHANGED <<assets, api>>
      /\ told \subseteq Keys \X Data /\ unsaved \subseteq told
  BY DEF FetchAll, IInv, TypeOK
<1>1. CASE /\ req' = [req EXCEPT ![r].step = "answer", ![r].failed = TRUE]
           /\ UNCHANGED <<unsaved, told>>
  <2> DEFINE q == [req[r] EXCEPT !.step = "answer", !.failed = TRUE]
  <2>1. req' = [req EXCEPT ![r] = q]
    BY <1>1 DEF IInv, TypeOK
  <2>2. q \in Request /\ Sound(q, told)
    BY <1>0 DEF Request, Sound, Truthful
  <2> HIDE DEF q
  <2> QED  BY <1>0, <1>1, <2>1, <2>2, ServedKeeps
<1>2. CASE ~(/\ req' = [req EXCEPT ![r].step = "answer", ![r].failed = TRUE]
             /\ UNCHANGED <<unsaved, told>>)
  <2>1. Missing(r) \in SUBSET Keys
    BY <1>0 DEF Missing, Request
  <2> QED  BY <1>0, <1>2, <2>1, AnsweredKeeps DEF FetchAll
<1> QED  BY <1>1, <1>2

LEMMA ServeKeeps == ASSUME IInv, NEW r \in Requests, Serve(r) PROVE IInv'
<1>1. CASE Answer(r)
  BY <1>1, EndKeeps DEF Answer
<1> QED  BY <1>1, LookupAssetKeeps, FetchAssetKeeps, LookupAllKeeps, FetchAllKeeps DEF Serve

LEMMA AddAssetKeeps ==
    ASSUME IInv, NEW k \in Keys, NEW d \in Data, AddAsset(k, d) PROVE IInv'
<1>1. <<k, d>> \in told /\ assets \in [Keys -> Data \cup {NoRow}]
  BY DEF AddAsset, IInv, TypeOK
<1>2. /\ assets' \in [Keys -> Data \cup {NoRow}]
      /\ \A j \in Keys : assets'[j] = assets[j] \/ (j = k /\ assets'[j] = d)
  BY <1>1 DEF AddAsset, Upsert
<1> QED  BY <1>1, <1>2 DEF AddAsset, IInv, TypeOK

LEMMA PublishKeeps == ASSUME IInv, NEW k \in Keys, NEW d \in Data, Publish(k, d) PROVE IInv'
BY DEF Publish, IInv, TypeOK

LEMMA RestartKeeps == ASSUME IInv, Restart PROVE IInv'
BY IdleSound DEF Restart, IInv, TypeOK

LEMMA NextIInv == IInv /\ [Next]_vars => IInv'
<1> SUFFICES ASSUME IInv, [Next]_vars PROVE IInv'
  OBVIOUS
<1>1. CASE UNCHANGED vars
  BY <1>1 DEF vars, IInv, TypeOK
<1> QED  BY <1>1, ServeKeeps, ArriveKeeps, AddAssetKeeps, PublishKeeps, RestartKeeps DEF Next

LEMMA Inductive == Spec => []IInv
BY InitIInv, NextIInv, PTL DEF Spec

(***************************************************************************)
(* The results.                                                            *)
(***************************************************************************)

\* The state has the shape that TypeOK says.
THEOREM TypeCorrect == Spec => []TypeOK
BY Inductive, PTL DEF IInv

\* The table and the answers hold only what the API has said of the very item.
THEOREM NoInvention == Spec => []NothingInvented
<1>1. IInv => NothingInvented
  BY DEF IInv, Sound, Truthful, NothingInvented
<1> QED  BY <1>1, Inductive, PTL

\* A late goroutine never overwrites a row that has data.
THEOREM KnownForGood == Spec => KnownStaysKnown
<1> DEFINE A == \A k \in Keys : assets[k] \in Names => assets'[k] = assets[k]
<1>1. IInv /\ [Next]_vars => [A]_vars
  <2> SUFFICES ASSUME IInv, Next, NEW k \in Keys, assets[k] \in Names PROVE assets'[k] = assets[k]
    OBVIOUS
  <2>1. CASE UNCHANGED assets
    BY <2>1
  <2>2. ASSUME NEW j \in Keys, NEW d \in Data, AddAsset(j, d) PROVE assets'[k] = assets[k]
    <3>1. assets[k] \notin {NoRow, Blank}
      BY DEF Data
    <3> QED  BY <2>2, <3>1 DEF AddAsset, Upsert, IInv, TypeOK
  <2>3. \/ UNCHANGED assets
        \/ \E j \in Keys, d \in Data : AddAsset(j, d)
    BY DEF Next, Serve, Arrive, LookupAsset, FetchAsset, LookupAll, FetchAll, Answer, GetAsset,
           BulkGetByType, Start, Publish, Restart
  <2> QED  BY <2>1, <2>2, <2>3
<1> QED  BY <1>1, Inductive, PTL DEF Spec, KnownStaysKnown

\* The steps of a bulk lookup that end in an answer leave no gap that the API could fill.
LEMMA ServeFillsGaps ==
    ASSUME IInv, NEW r \in Requests, Serve(r), req[r].step \in {"bulk", "fetchall"},
           req'[r].step = "answer", ~ req'[r].failed,
           NEW k \in req[r].ids, api[k] \in Names
    PROVE  req'[r].found[k] \in Names
<1>0. /\ req[r] \in Request /\ req \in [Requests -> Request] /\ k \in Keys /\ TypeOK
      /\ Sound(req[r], told) /\ api[k] # NoRow
  BY DEF IInv, TypeOK, Request, Data
<1>1. CASE LookupAll(r)
  <2>1. PICK rows \in {FoundRows(req[r].ids), {}} :
           req' = [req EXCEPT ![r].step = IF rows = req[r].ids THEN "answer" ELSE "fetchall",
                              ![r].found = DataOf(rows)]
    BY <1>1 DEF LookupAll
  <2>2. /\ req'[r].step = IF rows = req[r].ids THEN "answer" ELSE "fetchall"
        /\ req'[r].found = DataOf(rows)
    BY <1>0, <2>1 DEF Request
  <2>3. rows = req[r].ids
    BY <2>2
  <2>4. req'[r].found[k] = assets[k]
    BY <1>0, <2>2, <2>3 DEF DataOf
  <2>5. rows = FoundRows(req[r].ids)
    BY <2>1, <2>3
  <2> QED  BY <2>3, <2>4, <2>5 DEF FoundRows
<1>2. CASE FetchAll(r)
  <2>1. CASE req' = [req EXCEPT ![r].step = "answer", ![r].failed = TRUE]
    BY <1>0, <2>1 DEF Request
  <2>2. CASE req' = [req EXCEPT ![r].step = "answer",
                                ![r].found = Merged(@, ApiAnswer(Missing(r)))]
    <3>1. req'[r].found = Merged(req[r].found, ApiAnswer(Missing(r)))
      BY <1>0, <2>2 DEF Request
    <3>2. Missing(r) \in SUBSET Keys /\ req[r].found \in [Keys -> Data \cup {NoRow}]
      BY <1>0 DEF Missing, Request
    <3>3. req'[r].found[k] = IF k \in Missing(r) THEN api[k] ELSE req[r].found[k]
      BY <1>0, <3>1, <3>2, MergedAnswer
    <3>4. k \notin Missing(r) => req[r].found[k] # NoRow /\ req[r].found[k] # Blank
      BY <1>0, <1>2 DEF Missing, Sound, FetchAll, At
    <3> QED  BY <1>0, <3>2, <3>3, <3>4 DEF Data
  <2> QED  BY <1>2, <2>1, <2>2 DEF FetchAll
<1> QED  BY <1>1, <1>2 DEF Serve, LookupAsset, FetchAsset, Answer, At

LEMMA ArriveStarts == ASSUME NEW r, Arrive(r) PROVE \E step, ids : Start(r, step, ids)
BY DEF Arrive, GetAsset, BulkGetByType

\* A step for one request leaves the others.
LEMMA OthersLeft ==
    ASSUME TypeOK, NEW s \in Requests, Serve(s), NEW r \in Requests, s # r PROVE req'[r] = req[r]
<1>1. CASE LookupAsset(s)
  BY <1>1 DEF LookupAsset, Finish, GoTo, TypeOK
<1>2. CASE FetchAsset(s)
  BY <1>2 DEF FetchAsset, Finish, TypeOK
<1>3. CASE LookupAll(s)
  BY <1>3 DEF LookupAll, TypeOK
<1>4. CASE FetchAll(s)
  BY <1>4 DEF FetchAll, TypeOK
<1>5. CASE Answer(s)
  BY <1>5 DEF Answer, Finish, TypeOK
<1> QED  BY <1>1, <1>2, <1>3, <1>4, <1>5 DEF Serve

\* A bulk lookup that reached the API has data for all that the API has data for.
THEOREM GapsFilled == Spec => BulkFillsGaps
<1> DEFINE A == \A r \in Requests :
                   req[r].step \in {"bulk", "fetchall"} /\ At(r, "answer")' /\ ~ req'[r].failed =>
                   \A k \in req[r].ids : api[k] \in Names => req'[r].found[k] \in Names
<1>1. IInv /\ [Next]_vars => [A]_vars
  <2> SUFFICES ASSUME IInv, Next, NEW r \in Requests, req[r].step \in {"bulk", "fetchall"},
                      req'[r].step = "answer", ~ req'[r].failed,
                      NEW k \in req[r].ids, api[k] \in Names
               PROVE  req'[r].found[k] \in Names
    BY DEF At
  <2>1. Serve(r)
    <3>1. req'[r] # req[r] /\ req'[r] # Idle
      BY DEF Idle
    <3>2. ASSUME NEW s \in Requests, Serve(s), s # r PROVE req'[r] = req[r]
      BY <3>2, OthersLeft DEF IInv
    <3>3. ASSUME NEW s \in Requests, Arrive(s) PROVE req'[r] = req[r]
      <4>1. PICK step, ids : Start(s, step, ids)
        BY <3>3, ArriveStarts
      <4>2. s # r
        BY <4>1 DEF Start, Idle
      <4> QED  BY <4>1, <4>2 DEF Start, IInv, TypeOK
    <3>4. ~ \E j \in Keys, d \in Data : AddAsset(j, d) \/ Publish(j, d)
      BY <3>1 DEF AddAsset, Publish
    <3>5. ~ Restart
      BY <3>1 DEF Restart
    <3> QED  BY <3>1, <3>2, <3>3, <3>4, <3>5 DEF Next
  <2> QED  BY <2>1, ServeFillsGaps
<1> QED  BY <1>1, Inductive, PTL DEF Spec, BulkFillsGaps

(***************************************************************************)
(* SkinsCache: the pages of one player's skins.                            *)
(*                                                                         *)
(* Lists of skins stay right because the player's skins and what the API   *)
(* has told only grow; a forced page never goes through the cache, and     *)
(* asks for the inventory after it has come.                               *)
(***************************************************************************)

\* Skins that are the player's, with data that the API has told.
Right(list, mine, said) == /\ DOMAIN list \subseteq mine
                           /\ \A k \in DOMAIN list : list[k] # Blank => <<k, list[k]>> \in said

Current(p) == p.force /\ ~ p.failed /\ p.step \in {"names", "save", "answer"} =>
                  p.before \subseteq DOMAIN p.answer

PageRight(p, mine, said) == /\ Right(p.answer, mine, said)
                            /\ p.before \subseteq mine
                            /\ p.force => p.step # "lookup"
                            /\ Current(p)

AccountInv == /\ AccountTypeOK
              /\ cached # NoEntry => Right(cached, owned, told)
              /\ \A r \in Requests : PageRight(page[r], owned, told)

LEMMA EntryIsList ==
    /\ \A skins \in SUBSET Skins : \A list \in [skins -> Data] : list \in Entry
    /\ \A list \in Entry : DOMAIN list \subseteq Skins /\ list \in [DOMAIN list -> Data]
BY DEF Entry

LEMMA NoPageRight ==
    ASSUME NEW mine, NEW said PROVE NoPage \in Page /\ PageRight(NoPage, mine, said)
<1>1. NoSkins \in [{} -> Data] /\ DOMAIN NoSkins = {}
  BY DEF NoSkins
<1>2. NoSkins \in Entry
  BY <1>1, EntryIsList
<1> QED  BY <1>1, <1>2 DEF NoPage, Page, PageRight, Right, Current

LEMMA InitAccountInv == AccountInit => AccountInv
BY NoPageRight DEF AccountInit, AccountInv, AccountTypeOK, Init

\* What was right stays right.
LEMMA RightKept ==
    ASSUME NEW mine, NEW said, NEW more, NEW news, mine \subseteq more, said \subseteq news
    PROVE  /\ \A list : Right(list, mine, said) => Right(list, more, news)
           /\ \A p : PageRight(p, mine, said) => PageRight(p, more, news)
BY DEF Right, PageRight

\* Nothing happens to the pages, or one of them goes on.
LEMMA PagesKept ==
    ASSUME AccountInv, UNCHANGED <<cached, page>>, owned \subseteq owned', owned' \subseteq Skins,
           told \subseteq told'
    PROVE  AccountInv'
BY RightKept DEF AccountInv, AccountTypeOK

LEMMA PageKept ==
    ASSUME AccountInv, NEW r \in Requests, NEW p \in Page, page' = [page EXCEPT ![r] = p],
           UNCHANGED owned, told' = told, PageRight(p, owned, told),
           \/ UNCHANGED cached
           \/ cached' \in Entry /\ Right(cached', owned, told)
    PROVE  AccountInv'
<1>1. AccountTypeOK'
  BY DEF AccountInv, AccountTypeOK
<1>2. \A s \in Requests : page'[s] = IF s = r THEN p ELSE page[s]
  BY DEF AccountInv, AccountTypeOK
<1>3. \A s \in Requests : PageRight(page'[s], owned', told')
  BY <1>2 DEF AccountInv
<1> QED  BY <1>1, <1>3 DEF AccountInv

LEMMA CloseKeeps ==
    ASSUME AccountInv, NEW r \in Requests, Close(r), UNCHANGED <<owned, cached>>, told' = told
    PROVE  AccountInv'
BY NoPageRight, PageKept DEF Close

LEMMA GetAccountKeeps ==
    ASSUME AccountInv, NEW r \in Requests, NEW force \in BOOLEAN, GetAccount(r, force)
    PROVE  AccountInv'
<1> DEFINE p == [NoPage EXCEPT !.step = IF force THEN "skins" ELSE "lookup",
                               !.force = force, !.before = owned]
<1>1. p \in Page /\ PageRight(p, owned, told)
  <2>1. NoPage \in Page /\ PageRight(NoPage, owned, told) /\ owned \subseteq Skins
    BY NoPageRight DEF AccountInv, AccountTypeOK
  <2> QED  BY <2>1 DEF NoPage, Page, PageRight, Current
<1>2. page' = [page EXCEPT ![r] = p] /\ UNCHANGED <<owned, cached, told>>
  BY DEF GetAccount, vars
<1> HIDE DEF p
<1> QED  BY <1>1, <1>2, PageKept

LEMMA LookupKeeps == ASSUME AccountInv, NEW r \in Requests, Lookup(r) PROVE AccountInv'
<1>0. /\ page[r] \in Page /\ PageRight(page[r], owned, told) /\ page \in [Requests -> Page]
      /\ page[r].step = "lookup" /\ UNCHANGED <<owned, cached, told>>
  BY DEF AccountInv, AccountTypeOK, Lookup, PageAt, vars
<1>1. CASE cached # NoEntry /\ page' = [page EXCEPT ![r].step = "answer", ![r].answer = cached]
  <2> DEFINE p == [page[r] EXCEPT !.step = "answer", !.answer = cached]
  <2>1. cached \in Entry /\ Right(cached, owned, told)
    BY <1>1 DEF AccountInv, AccountTypeOK
  <2>2. p \in Page /\ PageRight(p, owned, told)
    BY <1>0, <2>1 DEF Page, PageRight, Current
  <2>3. page' = [page EXCEPT ![r] = p]
    BY <1>0, <1>1
  <2> HIDE DEF p
  <2> QED  BY <1>0, <2>2, <2>3, PageKept
<1>2. CASE Turn(r, "skins")
  <2> DEFINE p == [page[r] EXCEPT !.step = "skins"]
  <2>1. p \in Page /\ PageRight(p, owned, told)
    BY <1>0 DEF Page, PageRight, Current
  <2>2. page' = [page EXCEPT ![r] = p]
    BY <1>0, <1>2 DEF Turn
  <2> HIDE DEF p
  <2> QED  BY <1>0, <2>1, <2>2, PageKept
<1> QED  BY <1>1, <1>2 DEF Lookup

LEMMA GetSkinsKeeps == ASSUME AccountInv, NEW r \in Requests, GetSkins(r) PROVE AccountInv'
<1>0. /\ page[r] \in Page /\ PageRight(page[r], owned, told) /\ page \in [Requests -> Page]
      /\ page[r].step = "skins" /\ UNCHANGED <<owned, cached>> /\ owned \subseteq Skins
  BY DEF AccountInv, AccountTypeOK, GetSkins, PageAt
<1>1. UNCHANGED told
  BY DEF GetSkins, BulkGetByType, Start, vars
<1>2. CASE page' = [page EXCEPT ![r].step = "names", ![r].answer = [k \in owned |-> Blank]]
  <2> DEFINE list == [k \in owned |-> Blank]
             p == [page[r] EXCEPT !.step = "names", !.answer = list]
  <2>1. list \in [owned -> Data] /\ DOMAIN list = owned /\ \A k \in owned : list[k] = Blank
    BY DEF Data
  <2>2. page' = [page EXCEPT ![r] = p]
    BY <1>0, <1>2
  <2> HIDE DEF list
  <2>3. list \in Entry
    BY <1>0, <2>1, EntryIsList
  <2>4. p \in Page /\ PageRight(p, owned, told)
    BY <1>0, <2>1, <2>3 DEF Page, PageRight, Right, Current
  <2> HIDE DEF p
  <2> QED  BY <1>0, <1>1, <2>2, <2>4, PageKept
<1>3. CASE owned = {} /\ Turn(r, "save")
  <2> DEFINE p == [page[r] EXCEPT !.step = "save"]
  <2>1. p \in Page /\ PageRight(p, owned, told)
    BY <1>0, <1>3 DEF Page, PageRight, Current
  <2>2. page' = [page EXCEPT ![r] = p]
    BY <1>0, <1>3 DEF Turn
  <2> HIDE DEF p
  <2> QED  BY <1>0, <1>1, <2>1, <2>2, PageKept
<1>4. CASE page' = [page EXCEPT ![r].step = "save", ![r].failed = TRUE]
  <2> DEFINE p == [page[r] EXCEPT !.step = "save", !.failed = TRUE]
  <2>1. p \in Page /\ PageRight(p, owned, told)
    BY <1>0 DEF Page, PageRight, Current
  <2>2. page' = [page EXCEPT ![r] = p]
    BY <1>0, <1>4
  <2> HIDE DEF p
  <2> QED  BY <1>0, <1>1, <2>1, <2>2, PageKept
<1>5. CASE Close(r)
  BY <1>0, <1>1, <1>5, CloseKeeps
<1> QED  BY <1>2, <1>3, <1>4, <1>5 DEF GetSkins

LEMMA BulkNamesKeeps ==
    ASSUME IInv, AccountInv, NEW r \in Requests, BulkNames(r) PROVE AccountInv'
<1> DEFINE old == page[r].answer
           found == req[r].found
           list == [k \in DOMAIN old |-> IF found[k] # NoRow THEN found[k] ELSE Blank]
           p == [page[r] EXCEPT !.step = "save", !.answer = list]
<1>0. /\ page[r] \in Page /\ PageRight(page[r], owned, told) /\ page \in [Requests -> Page]
      /\ page[r].step = "names" /\ UNCHANGED <<owned, cached, told>>
      /\ found \in [Keys -> Data \cup {NoRow}] /\ Truthful(req[r], told)
  BY DEF AccountInv, AccountTypeOK, BulkNames, PageAt, Answer, IInv, TypeOK, Request, Sound
<1>1. DOMAIN old \subseteq Skins /\ Skins \subseteq Keys
  BY <1>0, EntryIsList DEF Page, Skins, Keys
<1>2. /\ list \in [DOMAIN old -> Data] /\ DOMAIN list = DOMAIN old
      /\ \A k \in DOMAIN old : list[k] = IF found[k] # NoRow THEN found[k] ELSE Blank
  BY <1>0, <1>1 DEF Data
<1>3. page' = [page EXCEPT ![r] = p]
  BY <1>0 DEF BulkNames
<1> HIDE DEF list
<1>4. list \in Entry
  BY <1>1, <1>2, EntryIsList
<1>5. Right(list, owned, told)
  BY <1>0, <1>1, <1>2 DEF PageRight, Right, Truthful
<1>6. p \in Page /\ PageRight(p, owned, told)
  BY <1>0, <1>2, <1>4, <1>5 DEF Page, PageRight, Current
<1> HIDE DEF p
<1> QED  BY <1>0, <1>3, <1>6, PageKept

LEMMA SaveKeeps == ASSUME AccountInv, NEW r \in Requests, Save(r) PROVE AccountInv'
<1> DEFINE p == [page[r] EXCEPT !.step = "answer"]
<1>0. /\ page[r] \in Page /\ PageRight(page[r], owned, told) /\ page \in [Requests -> Page]
      /\ page[r].step = "save" /\ UNCHANGED <<owned, told>>
  BY DEF AccountInv, AccountTypeOK, Save, PageAt, vars
<1>1. p \in Page /\ PageRight(p, owned, told)
  BY <1>0 DEF Page, PageRight, Current
<1>2. page' = [page EXCEPT ![r] = p]
  BY <1>0 DEF Save, Turn
<1>3. UNCHANGED cached \/ (cached' \in Entry /\ Right(cached', owned, told))
  BY <1>0 DEF Save, Page, PageRight
<1> HIDE DEF p
<1> QED  BY <1>0, <1>1, <1>2, <1>3, PageKept

LEMMA ServePageKeeps ==
    ASSUME IInv, AccountInv, NEW r \in Requests, ServePage(r) PROVE AccountInv'
<1>1. CASE AnswerPage(r)
  BY <1>1, CloseKeeps DEF AnswerPage, vars
<1> QED  BY <1>1, LookupKeeps, GetSkinsKeeps, BulkNamesKeeps, SaveKeeps DEF ServePage

\* Every step of a page is one of the catalogue, or leaves it alone.
LEMMA AccountNextIsNext ==
    ASSUME AccountTypeOK, [AccountNext]_<<vars, accountVars>> PROVE [Next]_vars
<1>1. ASSUME NEW r \in Requests, ServePage(r) PROVE [Next]_vars
  <2>1. CASE GetSkins(r)
    <3>1. CASE owned # {} /\ BulkGetByType(r, owned)
      <4>1. owned \in (SUBSET BulkItems) \ {{}}
        BY <3>1 DEF AccountTypeOK, Skins
      <4>2. Arrive(r)
        BY <3>1, <4>1 DEF Arrive
      <4> QED  BY <4>2 DEF Next
    <3> QED  BY <2>1, <3>1 DEF GetSkins
  <2> QED  BY <1>1, <2>1 DEF ServePage, Lookup, BulkNames, Save, AnswerPage, Next, Serve
<1> QED  BY <1>1 DEF AccountNext, GetAccount, Buy, Catalog, RestartAll, Next, Serve

LEMMA ToldGrows == ASSUME [Next]_vars PROVE told \subseteq told'
BY DEF vars, Next, Serve, Arrive, LookupAsset, FetchAsset, LookupAll, FetchAll, Answer, GetAsset,
       BulkGetByType, Start, AddAsset, Publish, Restart

LEMMA NextAccountInv ==
    IInv /\ AccountInv /\ [AccountNext]_<<vars, accountVars>> => IInv' /\ AccountInv'
<1> SUFFICES ASSUME IInv, AccountInv, [AccountNext]_<<vars, accountVars>> PROVE IInv' /\ AccountInv'
  OBVIOUS
<1>1. [Next]_vars
  BY AccountNextIsNext DEF AccountInv
<1>2. IInv' /\ told \subseteq told'
  BY <1>1, NextIInv, ToldGrows
<1>3. owned \subseteq Skins
  BY DEF AccountInv, AccountTypeOK
<1>4. CASE UNCHANGED accountVars
  BY <1>2, <1>3, <1>4, PagesKept DEF accountVars
<1>5. ASSUME NEW s \in Skins, Buy(s) PROVE AccountInv'
  BY <1>2, <1>3, <1>5, PagesKept DEF Buy
<1>6. CASE RestartAll
  BY <1>2, <1>6, NoPageRight, RightKept DEF RestartAll, Restart, AccountInv, AccountTypeOK
<1>7. CASE Catalog
  BY <1>4, <1>7 DEF Catalog
<1> QED  BY <1>2, <1>4, <1>5, <1>6, <1>7, ServePageKeeps, GetAccountKeeps DEF AccountNext

LEMMA AccountInductive == AccountSpec => [](IInv /\ AccountInv)
<1>1. AccountInit => IInv /\ AccountInv
  BY InitIInv, InitAccountInv DEF AccountInit
<1> QED  BY <1>1, NextAccountInv, PTL DEF AccountSpec

\* The pages of skins use the catalogue as AssetCatalog says: what is proved of it holds
\* with them.
THEOREM AccountsUseCatalog == AccountSpec => Spec
<1>1. AccountInv /\ [AccountNext]_<<vars, accountVars>> => [Next]_vars
  BY AccountNextIsNext DEF AccountInv
<1> QED  BY <1>1, AccountInductive, PTL DEF AccountSpec, AccountInit, Spec

\* The player's skins, the cache and the pages have the shape that AccountTypeOK says.
THEOREM AccountTypeCorrect == AccountSpec => []AccountTypeOK
BY AccountInductive, PTL DEF AccountInv

\* Pages and cache show only skins of the player, with names that the API told of them.
THEOREM OnlyOwnedShown == AccountSpec => []SkinsAreOwned
<1>1. AccountInv => SkinsAreOwned
  BY DEF AccountInv, PageRight, Right, SkinsAreOwned, Shown
<1> QED  BY <1>1, AccountInductive, PTL

\* A forced page that reached Riot has all skins that the player had when it was asked for.
THEOREM ForcedIsCurrent == AccountSpec => []ForceIsCurrent
<1>1. AccountInv => ForceIsCurrent
  BY DEF AccountInv, PageRight, Current, ForceIsCurrent, PageAt
<1> QED  BY <1>1, AccountInductive, PTL
=============================================================================
