------------------------ MODULE ProfileFanoutProofs ------------------------
(***************************************************************************)
(* What ProfileFanout's runs check on two or three requests, proved for    *)
(* any sets of requests and users and any combination of faults.           *)
(***************************************************************************)
EXTENDS ProfileFanout, TLAPS

\* A request that is being served has the user of its session.
Served == \A r \in Requests : pc[r] = "running" => uid[r] \in Users

\* A branch that has its result has a verdict, and one that has returned a
\* failure has left an error in the group.
Settled ==
  \A r \in Requests :
    /\ get[r] = "filling" => verdict[r] = "ok"
    /\ get[r] \in {"landing", "landed"} => verdict[r] \in Verdicts
    /\ pc[r] = "running" /\ get[r] = "done" =>
         verdict[r] = "ok" \/ groupErr[r] # None

\* Nobody who is not being served has a branch at work.
Quiet == \A r \in Requests : pc[r] = "idle" => list[r] = "done" /\ get[r] = "done"

-----------------------------------------------------------------------------
(* Types                                                                   *)

\* BranchReturns keeps the group error in its type.
LEMMA BranchReturnsType ==
  ASSUME TypeOK, NEW r \in Requests, NEW v \in Verdicts, BranchReturns(r, v)
  PROVE  groupErr' \in [Requests -> (Verdicts \ {"ok"}) \cup {None}]
BY DEF TypeOK, BranchReturns

\* A call ends with a verdict.
LEMMA CallVerdictsType ==
  ASSUME NEW r \in Requests, NEW result \in Verdicts, NEW fault
  PROVE  CallVerdicts(r, result, fault) \subseteq Verdicts
BY DEF CallVerdicts, Verdicts

\* The variables keep their types.  The parts that say a served request has
\* a user and a landing branch a verdict are needed where a step copies them.
LEMMA TypeInductive ==
  ASSUME TypeOK, Served, Quiet, Settled, [Next]_vars
  PROVE  TypeOK'
<1> USE DEF Stages, Leading
<1>1. ASSUME NEW r \in Requests, ListResources(r) PROVE TypeOK'
  <2>1. PICK v \in CallVerdicts(r, "ok", "provider") : BranchReturns(r, v)
    BY <1>1 DEF ListResources
  <2>2. v \in Verdicts
    BY CallVerdictsType, "ok" \in Verdicts DEF Verdicts
  <2>3. groupErr' \in [Requests -> (Verdicts \ {"ok"}) \cup {None}]
    BY <2>1, <2>2, BranchReturnsType
  <2> QED BY <1>1, <2>3 DEF TypeOK, ListResources
<1>2. ASSUME NEW r \in Requests, Lookup(r) PROVE TypeOK'
  <2>1. uid[r] \in Users
    BY <1>2 DEF Lookup, TypeOK, Quiet, Served
  <2> QED BY <1>2, <2>1 DEF TypeOK, Lookup, Found, Verdicts
<1>3. ASSUME NEW r \in Requests, Do(r) PROVE TypeOK'
  BY <1>3 DEF TypeOK, Do, FlightKey
<1>4. ASSUME NEW r \in Requests, CallUpstream(r) PROVE TypeOK'
  <2>1. (IF uid[r] \in known THEN "ok" ELSE "notfound") \in Verdicts
    BY DEF Verdicts
  <2>2. CallVerdicts(r, IF uid[r] \in known THEN "ok" ELSE "notfound", "internal")
          \subseteq Verdicts
    BY <2>1, CallVerdictsType
  <2> QED BY <1>4, <2>2 DEF TypeOK, CallUpstream
<1>5. ASSUME NEW r \in Requests, FillCache(r) PROVE TypeOK'
  BY <1>5 DEF TypeOK, FillCache, Put
<1>6. ASSUME NEW r \in Requests, Land(r) PROVE TypeOK'
  <2> DEFINE crew == Followers(r) \cup {r}
  <2>1. flight' \in [Users -> Requests \cup {None}]
    BY <1>6 DEF TypeOK, Land
  <2>2. get' \in [Requests -> Stages]
    BY <1>6 DEF TypeOK, Land
  <2>3. verdict' = [q \in Requests |-> IF q \in crew THEN verdict[r] ELSE verdict[q]]
    BY <1>6 DEF Land
  <2>4. user' = [q \in Requests |-> IF q \in crew THEN user[r] ELSE user[q]]
    BY <1>6 DEF Land
  <2> HIDE DEF crew
  <2>5. verdict' \in [Requests -> Verdicts \cup {None}]
    BY <2>3 DEF TypeOK
  <2>6. user' \in [Requests -> Users \cup {None}]
    BY <2>4 DEF TypeOK
  <2> QED BY <1>6, <2>1, <2>2, <2>5, <2>6 DEF TypeOK, Land
<1>7. ASSUME NEW r \in Requests, GetUserReturns(r) PROVE TypeOK'
  <2>1. verdict[r] \in Verdicts
    BY <1>7 DEF GetUserReturns, Settled
  <2>2. groupErr' \in [Requests -> (Verdicts \ {"ok"}) \cup {None}]
    BY <1>7, <2>1, BranchReturnsType DEF GetUserReturns
  <2> QED BY <1>7, <2>2 DEF TypeOK, GetUserReturns
<1>8. ASSUME NEW r \in Requests, Answer(r) PROVE TypeOK'
  BY <1>8 DEF TypeOK, Answer, StatusOf, Statuses, branches
<1>9. ASSUME NEW r \in Requests, Disconnect(r) PROVE TypeOK'
  BY <1>9 DEF TypeOK, Disconnect, branches
<1>10. ASSUME NEW r \in Requests, NEW u \in Users, Request(r, u) PROVE TypeOK'
  BY <1>10 DEF TypeOK, Request
<1>11. ASSUME NEW u \in Users, Administer(u) PROVE TypeOK'
  BY <1>11 DEF TypeOK, Administer, branches
<1>12. ASSUME NEW u \in Users, Expire(u) PROVE TypeOK'
  BY <1>12 DEF TypeOK, Expire, branches, Forget
<1>13. CASE UNCHANGED vars
  BY <1>13 DEF TypeOK, vars, branches
<1> QED
  BY <1>1, <1>2, <1>3, <1>4, <1>5, <1>6, <1>7, <1>8, <1>9, <1>10, <1>11, <1>12, <1>13
  DEF Next, Handle

-----------------------------------------------------------------------------
(* Branches and requests                                                   *)

\* Only Request starts branches and only Answer, after both, ends a request.
LEMMA ServingInductive ==
  ASSUME TypeOK, Served, Quiet, [Next]_vars
  PROVE  Served' /\ Quiet'
<1>1. ASSUME NEW r \in Requests, ListResources(r) PROVE Served' /\ Quiet'
  BY <1>1 DEF TypeOK, Served, Quiet, ListResources
<1>2. ASSUME NEW r \in Requests, Lookup(r) PROVE Served' /\ Quiet'
  BY <1>2 DEF TypeOK, Served, Quiet, Lookup
<1>3. ASSUME NEW r \in Requests, Do(r) PROVE Served' /\ Quiet'
  BY <1>3 DEF TypeOK, Served, Quiet, Do
<1>4. ASSUME NEW r \in Requests, CallUpstream(r) PROVE Served' /\ Quiet'
  BY <1>4 DEF TypeOK, Served, Quiet, CallUpstream
<1>5. ASSUME NEW r \in Requests, FillCache(r) PROVE Served' /\ Quiet'
  BY <1>5 DEF TypeOK, Served, Quiet, FillCache
<1>6. ASSUME NEW r \in Requests, Land(r) PROVE Served' /\ Quiet'
  BY <1>6 DEF TypeOK, Served, Quiet, Land, Followers
<1>7. ASSUME NEW r \in Requests, GetUserReturns(r) PROVE Served' /\ Quiet'
  BY <1>7 DEF TypeOK, Served, Quiet, GetUserReturns
<1>8. ASSUME NEW r \in Requests, Answer(r) PROVE Served' /\ Quiet'
  BY <1>8 DEF TypeOK, Served, Quiet, Answer, WaitReturns, branches
<1>9. ASSUME NEW r \in Requests, Disconnect(r) PROVE Served' /\ Quiet'
  BY <1>9 DEF TypeOK, Served, Quiet, Disconnect, branches
<1>10. ASSUME NEW r \in Requests, NEW u \in Users, Request(r, u) PROVE Served' /\ Quiet'
  BY <1>10 DEF TypeOK, Served, Quiet, Request
<1>11. ASSUME NEW u \in Users, Administer(u) \/ Expire(u) PROVE Served' /\ Quiet'
  BY <1>11 DEF TypeOK, Served, Quiet, Administer, Expire, branches
<1>12. CASE UNCHANGED vars
  BY <1>12 DEF Served, Quiet, vars, branches
<1> QED
  BY <1>1, <1>2, <1>3, <1>4, <1>5, <1>6, <1>7, <1>8, <1>9, <1>10, <1>11, <1>12
  DEF Next, Handle

\* A result is passed on before it is used: leaders set it before they land,
\* followers get it when they are released.
LEMMA SettledInductive ==
  ASSUME TypeOK, Served, Quiet, Settled, [Next]_vars
  PROVE  Settled'
<1> USE DEF Verdicts
<1>1. ASSUME NEW r \in Requests, ListResources(r) PROVE Settled'
  BY <1>1 DEF TypeOK, Settled, ListResources, BranchReturns
<1>2. ASSUME NEW r \in Requests, Lookup(r) PROVE Settled'
  BY <1>2 DEF TypeOK, Settled, Lookup
<1>3. ASSUME NEW r \in Requests, Do(r) PROVE Settled'
  BY <1>3 DEF TypeOK, Settled, Do
<1>4. ASSUME NEW r \in Requests, CallUpstream(r) PROVE Settled'
  <2>1. (IF uid[r] \in known THEN "ok" ELSE "notfound") \in Verdicts
    OBVIOUS
  <2>2. CallVerdicts(r, IF uid[r] \in known THEN "ok" ELSE "notfound", "internal")
          \subseteq Verdicts
    BY <2>1, CallVerdictsType
  <2> QED BY <1>4, <2>2 DEF TypeOK, Settled, CallUpstream
<1>5. ASSUME NEW r \in Requests, FillCache(r) PROVE Settled'
  BY <1>5 DEF TypeOK, Settled, FillCache
<1>6. ASSUME NEW r \in Requests, Land(r) PROVE Settled'
  BY <1>6 DEF TypeOK, Settled, Land, Followers
<1>7. ASSUME NEW r \in Requests, GetUserReturns(r) PROVE Settled'
  BY <1>7, ConstantsOK DEF TypeOK, Settled, GetUserReturns, BranchReturns
<1>8. ASSUME NEW r \in Requests, Answer(r) PROVE Settled'
  BY <1>8 DEF TypeOK, Settled, Answer, branches
<1>9. ASSUME NEW r \in Requests, Disconnect(r) PROVE Settled'
  BY <1>9 DEF TypeOK, Settled, Disconnect, branches
<1>10. ASSUME NEW r \in Requests, NEW u \in Users, Request(r, u) PROVE Settled'
  BY <1>10 DEF TypeOK, Settled, Request
<1>11. ASSUME NEW u \in Users, Administer(u) \/ Expire(u) PROVE Settled'
  BY <1>11 DEF TypeOK, Settled, Administer, Expire, branches
<1>12. CASE UNCHANGED vars
  BY <1>12 DEF Settled, vars, branches
<1> QED
  BY <1>1, <1>2, <1>3, <1>4, <1>5, <1>6, <1>7, <1>8, <1>9, <1>10, <1>11, <1>12
  DEF Next, Handle

-----------------------------------------------------------------------------
(* Coalescing                                                              *)

\* The flights stay consistent: Do is the only step that opens one and joins
\* one, and Land ends it for everyone at once.
LEMMA FlightsInductive ==
  ASSUME TypeOK, Served, Quiet, Flights, [Next]_vars
  PROVE  Flights'
<1> USE ConstantsOK DEF TypeOK, Served, Quiet, Flights, Leading
<1>1. ASSUME NEW r \in Requests, ListResources(r) PROVE Flights'
  BY <1>1 DEF ListResources, BranchReturns
<1>2. ASSUME NEW r \in Requests, Lookup(r) PROVE Flights'
  BY <1>2 DEF Lookup, Found
<1>3. ASSUME NEW r \in Requests, Do(r) PROVE Flights'
  BY <1>3 DEF Do, FlightKey
<1>4. ASSUME NEW r \in Requests, CallUpstream(r) PROVE Flights'
  BY <1>4 DEF CallUpstream
<1>5. ASSUME NEW r \in Requests, FillCache(r) PROVE Flights'
  BY <1>5 DEF FillCache, Put
<1>6. ASSUME NEW r \in Requests, Land(r) PROVE Flights'
  BY <1>6 DEF Land, Followers, FlightKey
<1>7. ASSUME NEW r \in Requests, GetUserReturns(r) PROVE Flights'
  BY <1>7 DEF GetUserReturns, BranchReturns
<1>8. ASSUME NEW r \in Requests, Answer(r) PROVE Flights'
  BY <1>8 DEF Answer, WaitReturns, StatusOf, branches
<1>9. ASSUME NEW r \in Requests, Disconnect(r) PROVE Flights'
  BY <1>9 DEF Disconnect, branches
<1>10. ASSUME NEW r \in Requests, NEW u \in Users, Request(r, u) PROVE Flights'
  BY <1>10 DEF Request
<1>11. ASSUME NEW u \in Users, Administer(u) \/ Expire(u) PROVE Flights'
  BY <1>11 DEF Administer, Expire, Forget, branches
<1>12. CASE UNCHANGED vars
  BY <1>12 DEF vars, branches
<1> QED
  BY <1>1, <1>2, <1>3, <1>4, <1>5, <1>6, <1>7, <1>8, <1>9, <1>10, <1>11, <1>12
  DEF Next, Handle

\* Followers have the user of their leader, because the key of the flight is
\* made of the user's id.
LEMMA OwnUserInductive ==
  ASSUME TypeOK, Served, Quiet, Settled, OwnUser, [Next]_vars
  PROVE  OwnUser'
<1> USE ConstantsOK DEF TypeOK, Served, Quiet, Settled, OwnUser, Verdicts
<1>1. ASSUME NEW r \in Requests, ListResources(r) PROVE OwnUser'
  BY <1>1 DEF ListResources, BranchReturns
<1>2. ASSUME NEW r \in Requests, Lookup(r) PROVE OwnUser'
  BY <1>2 DEF Lookup, Found
<1>3. ASSUME NEW r \in Requests, Do(r) PROVE OwnUser'
  BY <1>3 DEF Do, FlightKey
<1>4. ASSUME NEW r \in Requests, CallUpstream(r) PROVE OwnUser'
  BY <1>4 DEF CallUpstream
<1>5. ASSUME NEW r \in Requests, FillCache(r) PROVE OwnUser'
  BY <1>5 DEF FillCache, Put
<1>6. ASSUME NEW r \in Requests, Land(r) PROVE OwnUser'
  BY <1>6 DEF Land, Followers, FlightKey
<1>7. ASSUME NEW r \in Requests, GetUserReturns(r) PROVE OwnUser'
  BY <1>7 DEF GetUserReturns, BranchReturns
<1>8. ASSUME NEW r \in Requests, Answer(r) PROVE OwnUser'
  BY <1>8 DEF Answer, WaitReturns, StatusOf, branches
<1>9. ASSUME NEW r \in Requests, Disconnect(r) PROVE OwnUser'
  BY <1>9 DEF Disconnect, branches
<1>10. ASSUME NEW r \in Requests, NEW u \in Users, Request(r, u) PROVE OwnUser'
  BY <1>10 DEF Request
<1>11. ASSUME NEW u \in Users, Administer(u) \/ Expire(u) PROVE OwnUser'
  BY <1>11 DEF Administer, Expire, Forget, branches
<1>12. CASE UNCHANGED vars
  BY <1>12 DEF vars, branches
<1> QED
  BY <1>1, <1>2, <1>3, <1>4, <1>5, <1>6, <1>7, <1>8, <1>9, <1>10, <1>11, <1>12
  DEF Next, Handle

\* Only Answer makes a request idle, and it has both results by then.
LEMMA WholeProfileInductive ==
  ASSUME TypeOK, Quiet, Settled, WholeProfile, [Next]_vars
  PROVE  WholeProfile'
<1> USE ConstantsOK DEF TypeOK, Quiet, Settled, WholeProfile
<1>1. ASSUME NEW r \in Requests, ListResources(r) PROVE WholeProfile'
  BY <1>1 DEF ListResources, BranchReturns
<1>2. ASSUME NEW r \in Requests, Lookup(r) PROVE WholeProfile'
  BY <1>2 DEF Lookup, Found
<1>3. ASSUME NEW r \in Requests, Do(r) PROVE WholeProfile'
  BY <1>3 DEF Do, FlightKey
<1>4. ASSUME NEW r \in Requests, CallUpstream(r) PROVE WholeProfile'
  BY <1>4 DEF CallUpstream
<1>5. ASSUME NEW r \in Requests, FillCache(r) PROVE WholeProfile'
  BY <1>5 DEF FillCache, Put
<1>6. ASSUME NEW r \in Requests, Land(r) PROVE WholeProfile'
  BY <1>6 DEF Land, Followers, FlightKey
<1>7. ASSUME NEW r \in Requests, GetUserReturns(r) PROVE WholeProfile'
  BY <1>7 DEF GetUserReturns, BranchReturns
<1>8. ASSUME NEW r \in Requests, Answer(r) PROVE WholeProfile'
  BY <1>8 DEF Answer, WaitReturns, StatusOf, branches
<1>9. ASSUME NEW r \in Requests, Disconnect(r) PROVE WholeProfile'
  BY <1>9 DEF Disconnect, branches
<1>10. ASSUME NEW r \in Requests, NEW u \in Users, Request(r, u) PROVE WholeProfile'
  BY <1>10 DEF Request
<1>11. ASSUME NEW u \in Users, Administer(u) \/ Expire(u) PROVE WholeProfile'
  BY <1>11 DEF Administer, Expire, Forget, branches
<1>12. CASE UNCHANGED vars
  BY <1>12 DEF vars, branches
<1> QED
  BY <1>1, <1>2, <1>3, <1>4, <1>5, <1>6, <1>7, <1>8, <1>9, <1>10, <1>11, <1>12
  DEF Next, Handle

\* A branch has no verdict before its call, its flight or the cache gave it
\* one, and a group that failed for a missing user has one that is missing.
Told ==
  \A r \in Requests :
    /\ get[r] \in {"lookup", "missed", "calling", "waiting"} => verdict[r] = None
    /\ groupErr[r] = "notfound" => verdict[r] = "notfound" /\ get[r] = "done"

\* What a call ends with: its own result, an error or a cancellation.
LEMMA CallVerdictsAre ==
  ASSUME NEW r, NEW result, NEW fault, NEW v \in CallVerdicts(r, result, fault)
  PROVE  v \in {result, "error", "canceled"}
BY DEF CallVerdicts

\* The internal branch alone finds users missing, and keeps its verdict.
LEMMA ToldInductive ==
  ASSUME TypeOK, Quiet, Told, [Next]_vars
  PROVE  Told'
<1> USE ConstantsOK DEF TypeOK, Quiet, Told, Verdicts
<1>1. ASSUME NEW r \in Requests, ListResources(r) PROVE Told'
  <2>1. PICK v \in CallVerdicts(r, "ok", "provider") : BranchReturns(r, v)
    BY <1>1 DEF ListResources
  <2>2. v # "notfound"
    BY CallVerdictsAre
  <2> QED BY <1>1, <2>1, <2>2 DEF ListResources, BranchReturns
<1>2. ASSUME NEW r \in Requests, Lookup(r) PROVE Told'
  BY <1>2 DEF Lookup
<1>3. ASSUME NEW r \in Requests, Do(r) PROVE Told'
  BY <1>3 DEF Do
<1>4. ASSUME NEW r \in Requests, CallUpstream(r) PROVE Told'
  BY <1>4 DEF CallUpstream
<1>5. ASSUME NEW r \in Requests, FillCache(r) PROVE Told'
  BY <1>5 DEF FillCache
<1>6. ASSUME NEW r \in Requests, Land(r) PROVE Told'
  BY <1>6 DEF Land, Followers
<1>7. ASSUME NEW r \in Requests, GetUserReturns(r) PROVE Told'
  BY <1>7 DEF GetUserReturns, BranchReturns
<1>8. ASSUME NEW r \in Requests, Answer(r) PROVE Told'
  BY <1>8 DEF Answer, branches
<1>9. ASSUME NEW r \in Requests, Disconnect(r) PROVE Told'
  BY <1>9 DEF Disconnect, branches
<1>10. ASSUME NEW r \in Requests, NEW u \in Users, Request(r, u) PROVE Told'
  BY <1>10 DEF Request
<1>11. ASSUME NEW u \in Users, Administer(u) \/ Expire(u) PROVE Told'
  BY <1>11 DEF Administer, Expire, branches
<1>12. CASE UNCHANGED vars
  BY <1>12 DEF vars, branches
<1> QED
  BY <1>1, <1>2, <1>3, <1>4, <1>5, <1>6, <1>7, <1>8, <1>9, <1>10, <1>11, <1>12
  DEF Next, Handle

-----------------------------------------------------------------------------
(* The theorems                                                            *)

Inv ==
  /\ TypeOK /\ Served /\ Quiet /\ Settled
  /\ Flights /\ OwnUser /\ WholeProfile /\ Told

LEMMA InvInit == Init => Inv
<1> SUFFICES ASSUME Init PROVE Inv
  OBVIOUS
<1> USE ConstantsOK DEF Init, Verdicts, Statuses
<1>1. TypeOK
  BY DEF TypeOK, Stages, EmptyCache
<1>2. Served /\ Quiet /\ Settled
  BY DEF Served, Quiet, Settled
<1>3. Flights
  BY DEF Flights, Leading
<1>4. OwnUser
  BY DEF OwnUser, EmptyCache
<1>5. WholeProfile
  BY DEF WholeProfile
<1>6. Told
  BY DEF Told
<1> QED BY <1>1, <1>2, <1>3, <1>4, <1>5, <1>6 DEF Inv

\* Inv is inductive, and so holds in every reachable state.
THEOREM Invariance == Spec => []Inv
<1>1. Inv /\ [Next]_vars => Inv'
  BY TypeInductive, ServingInductive, SettledInductive, FlightsInductive,
     OwnUserInductive, WholeProfileInductive, ToldInductive DEF Inv
<1> QED BY InvInit, <1>1, PTL DEF Spec

\* Type correctness.
THEOREM TypeCorrect == Spec => []TypeOK
BY Invariance, PTL DEF Inv

\* At most one upstream call per user is in flight, every follower has a
\* leader, and every leader is still being served (cached.Service.GetUser).
THEOREM FlightsConsistent == Spec => []Flights
BY Invariance, PTL DEF Inv

\* No request is given the record of another user, whether it came from the
\* cache, from its own call or from somebody else's flight.
THEOREM NoMixUp == Spec => []OwnUser
BY Invariance, PTL DEF Inv

\* A 200 has both halves, and an answered request has left nothing running
\* (GetProfile and errgroup.Wait).
THEOREM AllOrNothing == Spec => []WholeProfile
BY Invariance, PTL DEF Inv

-----------------------------------------------------------------------------
(* Refinement                                                              *)

\* A step that touches nothing of this is a stutter of ProfileService.
LEMMA Stutters ==
  ASSUME UNCHANGED <<known, cache, pc, uid, verdict, status>>
  PROVE  UNCHANGED PS!vars
BY DEF PS!vars, Remembered, Asked, Heard

\* The steps of the internal branch.
LEMMA BranchSimulation ==
  ASSUME Inv, NEW r \in Requests,
         Lookup(r) \/ CallUpstream(r) \/ FillCache(r) \/ Land(r)
  PROVE  [PS!Next]_(PS!vars)
<1> USE ConstantsOK DEF Inv
<1>1. /\ get[r] # "done" /\ pc[r] = "running" /\ uid[r] \in Users
      /\ Asked[r] = uid[r] /\ Asked[r] # None
  BY DEF TypeOK, Quiet, Served, Lookup, CallUpstream, FillCache, Land, Asked
<1>2. UNCHANGED <<known, pc, uid, status>> /\ UNCHANGED Asked
  BY DEF Lookup, CallUpstream, FillCache, Land, Asked
<1>3. CASE Lookup(r)
  <2>1. UNCHANGED cache /\ UNCHANGED Remembered
    BY <1>3 DEF Lookup, Remembered
  <2>2. CASE Found(cache, uid[r]) /\ verdict' = [verdict EXCEPT ![r] = "ok"]
    <3>1. uid[r] \in Remembered
      BY <1>1, <2>2 DEF Found, Remembered
    <3>2. Heard' = [Heard EXCEPT ![r] = "found"]
      BY <1>1, <1>2, <2>2 DEF Heard, TypeOK
    <3>3. PS!Recall(r)
      BY <1>1, <1>2, <2>1, <3>1, <3>2 DEF PS!Recall
    <3> QED BY <3>3 DEF PS!Next
  <2>3. CASE UNCHANGED verdict
    BY <1>2, <2>1, <2>3, Stutters
  <2> QED BY <1>3, <2>2, <2>3 DEF Lookup
<1>4. CASE CallUpstream(r)
  <2> DEFINE result == IF uid[r] \in known THEN "ok" ELSE "notfound"
  <2>1. PICK v \in CallVerdicts(r, result, "internal") : verdict' = [verdict EXCEPT ![r] = v]
    BY <1>4 DEF CallUpstream
  <2>2. v \in {result, "error", "canceled"}
    BY CallVerdictsAre
  <2>3. UNCHANGED cache /\ UNCHANGED Remembered
    BY <1>4 DEF CallUpstream, Remembered
  <2>4. CASE v = result
    <3>1. Heard' = [Heard EXCEPT ![r] = IF uid[r] \in known THEN "found" ELSE "missing"]
      BY <1>1, <1>2, <2>1, <2>4 DEF Heard, TypeOK
    <3>2. PS!Hear(r)
      BY <1>1, <1>2, <2>3, <3>1 DEF PS!Hear
    <3> QED BY <3>2 DEF PS!Next
  <2>5. CASE v \in {"error", "canceled"}
    <3>1. verdict[r] = None
      BY <1>4 DEF CallUpstream, Told
    <3>2. UNCHANGED Heard
      BY <1>1, <1>2, <2>1, <2>5, <3>1 DEF Heard, TypeOK, Verdicts
    <3> QED BY <1>2, <2>3, <3>2 DEF PS!vars
  <2> QED BY <2>2, <2>4, <2>5
<1>5. CASE FillCache(r)
  <2>1. UNCHANGED verdict /\ UNCHANGED Heard
    BY <1>2, <1>5 DEF FillCache, Heard
  <2>2. verdict[r] = "ok" /\ user[r] = uid[r] /\ Heard[r] = "found"
    BY <1>1, <1>5 DEF FillCache, Settled, OwnUser, Heard
  <2>3. CASE cache' = Put(cache, uid[r], user[r])
    <3>1. cache' = [cache EXCEPT ![uid[r]] = uid[r]]
      BY <2>2, <2>3 DEF Put
    <3>2. Remembered' = Remembered \cup {uid[r]}
      BY <1>1, <3>1 DEF Remembered, TypeOK
    <3>3. PS!Remember(r)
      BY <1>1, <1>2, <2>1, <2>2, <3>2 DEF PS!Remember
    <3> QED BY <3>3 DEF PS!Next
  <2>4. CASE UNCHANGED cache
    BY <1>2, <2>1, <2>4, Stutters
  <2> QED BY <1>5, <2>3, <2>4 DEF FillCache
<1>6. CASE Land(r)
  <2> DEFINE crew == Followers(r) \cup {r}
  <2>1. verdict' = [q \in Requests |-> IF q \in crew THEN verdict[r] ELSE verdict[q]]
    BY <1>6 DEF Land
  <2>2. UNCHANGED cache /\ UNCHANGED Remembered
    BY <1>6 DEF Land, Remembered
  <2>3. crew \in SUBSET Requests
    BY DEF Followers
  <2>4. \A q \in crew : pc[q] = "running" /\ uid[q] = uid[r]
    BY <1>1 DEF Followers, FlightKey, Quiet, TypeOK
  <2> HIDE DEF crew
  <2>5. Heard' = [q \in Requests |-> IF q \in crew THEN Heard[r] ELSE Heard[q]]
    BY <1>1, <1>2, <2>1, <2>3, <2>4 DEF Heard
  <2>6. \A q \in crew : Asked[q] # None /\ Asked[q] = Asked[r]
    BY <1>1, <2>3, <2>4 DEF Asked
  <2>7. PS!Share(r, crew)
    BY <1>2, <2>2, <2>5, <2>6 DEF PS!Share
  <2> QED BY <2>3, <2>7 DEF PS!Next
<1> QED BY <1>3, <1>4, <1>5, <1>6

\* An answer: 404 stands for a missing user and for nothing else.
LEMMA AnswerSimulation ==
  ASSUME Inv, NEW r \in Requests, Answer(r)
  PROVE  PS!Next
<1> USE ConstantsOK DEF Inv
<1>1. /\ pc[r] = "running" /\ get[r] = "done" /\ uid[r] \in Users
      /\ Asked[r] = uid[r] /\ Asked[r] # None
  BY DEF Answer, WaitReturns, Served, Asked
<1>2. StatusOf(r) \in {200, 404, 502}
  BY DEF StatusOf
<1>3. StatusOf(r) = 200 => Heard[r] = "found"
  BY <1>1 DEF StatusOf, Settled, Heard
<1>4. StatusOf(r) = 404 => Heard[r] = "missing"
  BY <1>1 DEF StatusOf, Told, Heard
<1>5. Asked' = [Asked EXCEPT ![r] = None] /\ Heard' = [Heard EXCEPT ![r] = "nothing"]
  BY <1>1 DEF Answer, Asked, Heard, branches, TypeOK
<1>6. PS!Answer(r, StatusOf(r))
  BY <1>1, <1>3, <1>4, <1>5 DEF PS!Answer, Answer, Remembered
<1> QED BY <1>2, <1>6 DEF PS!Next

\* Every step is one of ProfileService, or none.
LEMMA Simulation ==
  ASSUME Inv, [Next]_vars
  PROVE  [PS!Next]_(PS!vars)
<1> USE ConstantsOK DEF Inv
<1>1. ASSUME NEW r \in Requests, ListResources(r) \/ Do(r) \/ GetUserReturns(r) \/ Disconnect(r)
      PROVE  [PS!Next]_(PS!vars)
  BY <1>1, Stutters DEF ListResources, Do, GetUserReturns, Disconnect, branches
<1>2. ASSUME NEW r \in Requests, Lookup(r) \/ CallUpstream(r) \/ FillCache(r) \/ Land(r)
      PROVE  [PS!Next]_(PS!vars)
  BY <1>2, BranchSimulation
<1>3. ASSUME NEW r \in Requests, Answer(r) PROVE [PS!Next]_(PS!vars)
  BY <1>3, AnswerSimulation
<1>4. ASSUME NEW r \in Requests, NEW u \in Users, Request(r, u) PROVE [PS!Next]_(PS!vars)
  <2>1. pc[r] = "idle" /\ Asked[r] = None
    BY <1>4 DEF Request, Asked
  <2>2. Asked' = [Asked EXCEPT ![r] = u]
    BY <1>4 DEF Request, Asked, TypeOK
  <2>3. UNCHANGED Heard
    <3>1. /\ verdict' = [verdict EXCEPT ![r] = None] /\ pc' = [pc EXCEPT ![r] = "running"]
      BY <1>4 DEF Request
    <3>2. \A q \in Requests : q # r => verdict'[q] = verdict[q] /\ pc'[q] = pc[q]
      BY <3>1 DEF TypeOK
    <3>3. verdict'[r] = None /\ pc[r] = "idle"
      BY <2>1, <3>1 DEF TypeOK
    <3>4. None # "ok" /\ None # "notfound"
      BY DEF Verdicts
    <3> QED BY <3>2, <3>3, <3>4 DEF Heard
  <2>4. PS!Ask(r, u)
    BY <1>4, <2>1, <2>2, <2>3 DEF Request, PS!Ask, Remembered
  <2> QED BY <2>4 DEF PS!Next
<1>5. ASSUME NEW u \in Users, Administer(u) PROVE [PS!Next]_(PS!vars)
  <2>1. PS!Administer(u)
    BY <1>5 DEF Administer, PS!Administer, Remembered, Asked, Heard, branches
  <2> QED BY <2>1 DEF PS!Next
<1>6. ASSUME NEW u \in Users, Expire(u) PROVE [PS!Next]_(PS!vars)
  <2>1. Remembered' = Remembered \ {u}
    BY <1>6 DEF Expire, Forget, Remembered, TypeOK
  <2>2. PS!Forget(u)
    BY <1>6, <2>1 DEF Expire, PS!Forget, Asked, Heard, branches
  <2> QED BY <2>2 DEF PS!Next
<1>7. CASE UNCHANGED vars
  BY <1>7, Stutters DEF vars, branches
<1> QED BY <1>1, <1>2, <1>3, <1>4, <1>5, <1>6, <1>7 DEF Next, Handle

\* Refinement: whatever flights, errgroup, cancellation and cache do, an
\* answer says of its user what the internal service has said.
THEOREM Implementation == Spec => ProfileServiceSpec
<1>1. Init => PS!Init
  BY DEF Init, PS!Init, Remembered, Asked, Heard, EmptyCache
<1>2. Inv /\ [Next]_vars => [PS!Next]_(PS!vars)
  BY Simulation
<1> QED BY Invariance, <1>1, <1>2, PTL DEF Spec, PS!Spec, ProfileServiceSpec

-----------------------------------------------------------------------------
(* What an answer says of a user                                           *)

\* Nothing in the process has ever heard that u exists ...
Unheard(u) ==
  /\ cache[u] = None
  /\ \A r \in Requests : uid[r] = u => verdict[r] # "ok" /\ status[r] # 200

\* ... or that it does not.
Undenied(u) ==
  \A r \in Requests : uid[r] = u =>
    verdict[r] # "notfound" /\ groupErr[r] # "notfound" /\ status[r] # 404

\* A user comes into the cache and into flights only from upstream.
LEMMA UnheardInductive ==
  ASSUME TypeOK, Quiet, Settled, NEW u \in Users, u \notin known, Unheard(u), [Next]_vars
  PROVE  Unheard(u)'
<1> USE ConstantsOK DEF TypeOK, Quiet, Settled, Unheard, Verdicts, Statuses
<1>1. ASSUME NEW r \in Requests, ListResources(r) PROVE Unheard(u)'
  BY <1>1 DEF ListResources, BranchReturns
<1>2. ASSUME NEW r \in Requests, Lookup(r) PROVE Unheard(u)'
  BY <1>2 DEF Lookup, Found
<1>3. ASSUME NEW r \in Requests, Do(r) PROVE Unheard(u)'
  BY <1>3 DEF Do, FlightKey
<1>4. ASSUME NEW r \in Requests, CallUpstream(r) PROVE Unheard(u)'
  <2>1. PICK v \in CallVerdicts(r, IF uid[r] \in known THEN "ok" ELSE "notfound", "internal") :
          verdict' = [verdict EXCEPT ![r] = v]
    BY <1>4 DEF CallUpstream
  <2>2. uid[r] = u => v # "ok"
    BY CallVerdictsAre
  <2> QED BY <1>4, <2>1, <2>2 DEF CallUpstream
<1>5. ASSUME NEW r \in Requests, FillCache(r) PROVE Unheard(u)'
  BY <1>5 DEF FillCache, Put
<1>6. ASSUME NEW r \in Requests, Land(r) PROVE Unheard(u)'
  BY <1>6 DEF Land, Followers, FlightKey
<1>7. ASSUME NEW r \in Requests, GetUserReturns(r) PROVE Unheard(u)'
  BY <1>7 DEF GetUserReturns, BranchReturns
<1>8. ASSUME NEW r \in Requests, Answer(r) PROVE Unheard(u)'
  BY <1>8 DEF Answer, WaitReturns, StatusOf, branches
<1>9. ASSUME NEW r \in Requests, Disconnect(r) PROVE Unheard(u)'
  BY <1>9 DEF Disconnect, branches
<1>10. ASSUME NEW r \in Requests, NEW v \in Users, Request(r, v) PROVE Unheard(u)'
  BY <1>10 DEF Request
<1>11. ASSUME NEW v \in Users, Administer(v) \/ Expire(v) PROVE Unheard(u)'
  BY <1>11 DEF Administer, Expire, Forget, branches
<1>12. CASE UNCHANGED vars
  BY <1>12 DEF vars, branches
<1> QED
  BY <1>1, <1>2, <1>3, <1>4, <1>5, <1>6, <1>7, <1>8, <1>9, <1>10, <1>11, <1>12
  DEF Next, Handle

\* Only upstream's own answer denies a user; no error and no cancellation,
\* of whichever request, is taken for one.
LEMMA UndeniedInductive ==
  ASSUME TypeOK, Quiet, NEW u \in Users, u \in known, Undenied(u), [Next]_vars
  PROVE  Undenied(u)'
<1> USE ConstantsOK DEF TypeOK, Quiet, Undenied, Verdicts, Statuses
<1>1. ASSUME NEW r \in Requests, ListResources(r) PROVE Undenied(u)'
  <2>1. PICK v \in CallVerdicts(r, "ok", "provider") : BranchReturns(r, v)
    BY <1>1 DEF ListResources
  <2>2. v # "notfound"
    BY CallVerdictsAre
  <2> QED BY <1>1, <2>1, <2>2 DEF ListResources, BranchReturns
<1>2. ASSUME NEW r \in Requests, Lookup(r) PROVE Undenied(u)'
  BY <1>2 DEF Lookup, Found
<1>3. ASSUME NEW r \in Requests, Do(r) PROVE Undenied(u)'
  BY <1>3 DEF Do, FlightKey
<1>4. ASSUME NEW r \in Requests, CallUpstream(r) PROVE Undenied(u)'
  <2>1. PICK v \in CallVerdicts(r, IF uid[r] \in known THEN "ok" ELSE "notfound", "internal") :
          verdict' = [verdict EXCEPT ![r] = v]
    BY <1>4 DEF CallUpstream
  <2>2. uid[r] = u => v # "notfound"
    BY CallVerdictsAre
  <2> QED BY <1>4, <2>1, <2>2 DEF CallUpstream
<1>5. ASSUME NEW r \in Requests, FillCache(r) PROVE Undenied(u)'
  BY <1>5 DEF FillCache, Put
<1>6. ASSUME NEW r \in Requests, Land(r) PROVE Undenied(u)'
  BY <1>6 DEF Land, Followers, FlightKey
<1>7. ASSUME NEW r \in Requests, GetUserReturns(r) PROVE Undenied(u)'
  BY <1>7 DEF GetUserReturns, BranchReturns
<1>8. ASSUME NEW r \in Requests, Answer(r) PROVE Undenied(u)'
  BY <1>8 DEF Answer, WaitReturns, StatusOf, branches
<1>9. ASSUME NEW r \in Requests, Disconnect(r) PROVE Undenied(u)'
  BY <1>9 DEF Disconnect, branches
<1>10. ASSUME NEW r \in Requests, NEW v \in Users, Request(r, v) PROVE Undenied(u)'
  BY <1>10 DEF Request
<1>11. ASSUME NEW v \in Users, Administer(v) \/ Expire(v) PROVE Undenied(u)'
  BY <1>11 DEF Administer, Expire, Forget, branches
<1>12. CASE UNCHANGED vars
  BY <1>12 DEF vars, branches
<1> QED
  BY <1>1, <1>2, <1>3, <1>4, <1>5, <1>6, <1>7, <1>8, <1>9, <1>10, <1>11, <1>12
  DEF Next, Handle

\* No profile is ever served of a user that the internal service has never
\* had, whatever is cached and shared: GetProfile, cached.Service.GetUser.
THEOREM NeverInvented ==
  ASSUME NEW u \in Users
  PROVE  Spec /\ [](u \notin known) => [](\A r \in Requests : uid[r] = u => status[r] # 200)
<1>1. Init => Unheard(u)
  <2>1. None # "ok" /\ None # 200
    BY ConstantsOK DEF Verdicts, Statuses
  <2>2. Init => \A r \in Requests : verdict[r] = None /\ status[r] = None
    BY DEF Init
  <2>3. Init => cache[u] = None
    BY DEF Init, EmptyCache
  <2> QED BY <2>1, <2>2, <2>3 DEF Unheard
<1>2. Inv /\ u \notin known /\ Unheard(u) /\ [Next]_vars => Unheard(u)'
  BY UnheardInductive DEF Inv
<1>3. Unheard(u) => \A r \in Requests : uid[r] = u => status[r] # 200
  BY DEF Unheard
<1> QED BY Invariance, <1>1, <1>2, <1>3, PTL DEF Spec

\* No request of a user that the internal service has always had is answered
\* 404: not because a call failed, was cancelled, or was somebody else's.
THEOREM NeverDenied ==
  ASSUME NEW u \in Users
  PROVE  Spec /\ [](u \in known) => [](\A r \in Requests : uid[r] = u => status[r] # 404)
<1>1. Init => Undenied(u)
  BY ConstantsOK DEF Init, Undenied, Verdicts, Statuses
<1>2. Inv /\ u \in known /\ Undenied(u) /\ [Next]_vars => Undenied(u)'
  BY UndeniedInductive DEF Inv
<1>3. Undenied(u) => \A r \in Requests : uid[r] = u => status[r] # 404
  BY DEF Undenied
<1> QED BY Invariance, <1>1, <1>2, <1>3, PTL DEF Spec

-----------------------------------------------------------------------------
(* What sharing a flight costs                                             *)

\* No two requests of one user are served at the same time.
Alone ==
  \A r, q \in Requests :
    pc[r] = "running" /\ pc[q] = "running" /\ uid[r] = uid[q] => r = q

\* A cancelled call belongs to a request that is cancelled itself.
OwnFate ==
  \A r \in Requests :
    /\ verdict[r] = "canceled" => Canceled(r)
    /\ groupErr[r] = "canceled" => r \in gone

\* A branch that has missed the cache would miss it again.
StillCold == \A r \in Requests : get[r] = "missed" => ~Found(cache, uid[r])

\* Who leads a flight alone has nobody waiting for it.
LEMMA NoFollowers ==
  ASSUME TypeOK, Quiet, Alone, NEW r \in Requests, Land(r)
  PROVE  Followers(r) = {}
<1> SUFFICES ASSUME NEW q \in Followers(r) PROVE FALSE
  OBVIOUS
<1>1. q \in Requests /\ get[q] = "waiting" /\ uid[q] = uid[r] /\ get[r] = "landing"
  BY DEF Followers, FlightKey, Land
<1>2. pc[q] = "running" /\ pc[r] = "running"
  BY <1>1 DEF TypeOK, Quiet
<1> QED BY <1>1, <1>2 DEF Alone

\* Alone, a request hears of its own cancellation only.
LEMMA OwnFateInductive ==
  ASSUME TypeOK, Quiet, Alone, OwnFate, [Next]_vars
  PROVE  OwnFate'
<1> USE ConstantsOK DEF TypeOK, Quiet, OwnFate, Canceled, Verdicts
<1>1. ASSUME NEW r \in Requests, ListResources(r) PROVE OwnFate'
  <2>1. PICK v \in CallVerdicts(r, "ok", "provider") : BranchReturns(r, v)
    BY <1>1 DEF ListResources
  <2>2. v = "canceled" => Canceled(r)
    BY DEF CallVerdicts
  <2> QED BY <1>1, <2>1, <2>2 DEF ListResources, BranchReturns
<1>2. ASSUME NEW r \in Requests, Lookup(r) PROVE OwnFate'
  BY <1>2 DEF Lookup, Found
<1>3. ASSUME NEW r \in Requests, Do(r) PROVE OwnFate'
  BY <1>3 DEF Do, FlightKey
<1>4. ASSUME NEW r \in Requests, CallUpstream(r) PROVE OwnFate'
  <2>1. PICK v \in CallVerdicts(r, IF uid[r] \in known THEN "ok" ELSE "notfound", "internal") :
          verdict' = [verdict EXCEPT ![r] = v]
    BY <1>4 DEF CallUpstream
  <2>2. v = "canceled" => Canceled(r)
    BY DEF CallVerdicts
  <2> QED BY <1>4, <2>1, <2>2 DEF CallUpstream
<1>5. ASSUME NEW r \in Requests, FillCache(r) PROVE OwnFate'
  BY <1>5 DEF FillCache, Put
<1>6. ASSUME NEW r \in Requests, Land(r) PROVE OwnFate'
  <2>1. UNCHANGED verdict
    BY <1>6, NoFollowers DEF Land
  <2> QED BY <1>6, <2>1 DEF Land
<1>7. ASSUME NEW r \in Requests, GetUserReturns(r) PROVE OwnFate'
  BY <1>7 DEF GetUserReturns, BranchReturns
<1>8. ASSUME NEW r \in Requests, Answer(r) PROVE OwnFate'
  BY <1>8 DEF Answer, WaitReturns, StatusOf, branches
<1>9. ASSUME NEW r \in Requests, Disconnect(r) PROVE OwnFate'
  BY <1>9 DEF Disconnect, branches
<1>10. ASSUME NEW r \in Requests, NEW v \in Users, Request(r, v) PROVE OwnFate'
  BY <1>10 DEF Request
<1>11. ASSUME NEW v \in Users, Administer(v) \/ Expire(v) PROVE OwnFate'
  BY <1>11 DEF Administer, Expire, Forget, branches
<1>12. CASE UNCHANGED vars
  BY <1>12 DEF vars, branches
<1> QED
  BY <1>1, <1>2, <1>3, <1>4, <1>5, <1>6, <1>7, <1>8, <1>9, <1>10, <1>11, <1>12
  DEF Next, Handle

\* Alone, nobody fills the cache between a request's miss and its flight.
LEMMA StillColdInductive ==
  ASSUME "cache" \notin Faults, TypeOK, Served, Quiet, Alone, StillCold, [Next]_vars
  PROVE  StillCold'
<1> USE ConstantsOK DEF TypeOK, Served, Quiet, StillCold, Found
<1>1. ASSUME NEW r \in Requests, ListResources(r) PROVE StillCold'
  BY <1>1 DEF ListResources, BranchReturns
<1>2. ASSUME NEW r \in Requests, Lookup(r) PROVE StillCold'
  BY <1>2 DEF Lookup, Found
<1>3. ASSUME NEW r \in Requests, Do(r) PROVE StillCold'
  BY <1>3 DEF Do, FlightKey
<1>4. ASSUME NEW r \in Requests, CallUpstream(r) PROVE StillCold'
  BY <1>4 DEF CallUpstream
<1>5. ASSUME NEW r \in Requests, FillCache(r) PROVE StillCold'
  <2>1. pc[r] = "running" /\ get'[r] = "landing"
    BY <1>5 DEF FillCache
  <2>2. \A q \in Requests : get'[q] = "missed" => uid[q] # uid[r] /\ get[q] = "missed"
    BY <1>5, <2>1 DEF FillCache, Alone
  <2>3. \A u \in Users : u # uid[r] => cache'[u] = cache[u]
    BY <1>5 DEF FillCache, Put
  <2>4. UNCHANGED <<pc, uid>>
    BY <1>5 DEF FillCache
  <2> QED BY <2>2, <2>3, <2>4
<1>6. ASSUME NEW r \in Requests, Land(r) PROVE StillCold'
  BY <1>6 DEF Land, Followers, FlightKey
<1>7. ASSUME NEW r \in Requests, GetUserReturns(r) PROVE StillCold'
  BY <1>7 DEF GetUserReturns, BranchReturns
<1>8. ASSUME NEW r \in Requests, Answer(r) PROVE StillCold'
  BY <1>8 DEF Answer, WaitReturns, StatusOf, branches
<1>9. ASSUME NEW r \in Requests, Disconnect(r) PROVE StillCold'
  BY <1>9 DEF Disconnect, branches
<1>10. ASSUME NEW r \in Requests, NEW v \in Users, Request(r, v) PROVE StillCold'
  BY <1>10 DEF Request
<1>11. ASSUME NEW v \in Users, Administer(v) \/ Expire(v) PROVE StillCold'
  <2>1. UNCHANGED <<pc, uid, get>>
    BY <1>11 DEF Administer, Expire, branches
  <2>2. \A u \in Users : cache'[u] \in {cache[u], None}
    BY <1>11 DEF Administer, Expire, Forget
  <2> QED BY <2>1, <2>2
<1>12. CASE UNCHANGED vars
  BY <1>12 DEF vars, branches
<1> QED
  BY <1>1, <1>2, <1>3, <1>4, <1>5, <1>6, <1>7, <1>8, <1>9, <1>10, <1>11, <1>12
  DEF Next, Handle

\* OwnCancel, which a run refutes, fails only by sharing: while no user has
\* two requests at once, a call is cancelled only for the request that was.
THEOREM OwnCancelAlone == Spec /\ []Alone => []OwnCancel
<1>1. Init => OwnFate
  BY ConstantsOK DEF Init, OwnFate, Verdicts
<1>2. Inv /\ Alone /\ OwnFate /\ [Next]_vars => OwnFate'
  BY OwnFateInductive DEF Inv
<1>3. OwnFate => OwnCancel
  BY DEF OwnFate, OwnCancel
<1> QED BY Invariance, <1>1, <1>2, <1>3, PTL DEF Spec

\* So does WarmNeverCalls, unless the cache itself fails: cached.Service does
\* not look into the cache again when its turn to call comes.
THEOREM WarmAlone ==
  ASSUME "cache" \notin Faults
  PROVE  Spec /\ []Alone => WarmNeverCalls
<1>1. Init => StillCold
  BY DEF Init, StillCold
<1>2. Inv /\ Alone /\ StillCold /\ [Next]_vars => StillCold'
  BY StillColdInductive DEF Inv
<1>3. StillCold => [\A r \in Requests :
        get[r] = "missed" /\ get'[r] = "calling" => ~Found(cache, uid[r])]_vars
  BY DEF StillCold
<1> QED BY Invariance, <1>1, <1>2, <1>3, PTL DEF Spec, WarmNeverCalls
=============================================================================
