--------------------------- MODULE ConsumeProofs ---------------------------
(***************************************************************************)
(* What StateStore.Consume is good for, although it is a Get and a Delete: *)
(* where it is single-use, how often it can succeed where it is not, and   *)
(* what a success can be turned into.                                      *)
(***************************************************************************)
EXTENDS AuthFlowProofs, FiniteSetTheorems

-----------------------------------------------------------------------------
(* Where single use holds                                                  *)

\* No two callbacks are between Cache.Get and Cache.Delete of one state.
Apart ==
  \A r, q \in Requests :
    pc[r] = "consume" /\ pc[q] = "consume" /\ job[r].state = job[q].state => r = q

\* A state that has been read and not yet deleted has not been consumed.
Unspent ==
  /\ SingleUse
  /\ \A r \in Requests : pc[r] = "consume" => wins[job[r].state] = 0

\* Consume begins with ConsumeGet, and ends with ConsumeDelete only.
LEMMA ConsumeBegins ==
  ASSUME RequestsTyped, NEW r \in Requests, Next,
         pc'[r] = "consume", ~ConsumeGet(r)
  PROVE  pc[r] = "consume" /\ job'[r] = job[r]
<1> USE DEF RequestsTyped
<1>1. ASSUME NEW q \in Requests, Browse(q)
      PROVE  pc[r] = "consume" /\ job'[r] = job[r]
  <2>1. PICK j : Send(q, j)
    BY <1>1 DEF Browse, SendStart, SendCallback, SendDenied, SendWithSession
  <2> QED BY <2>1, SendMoves DEF Moves
<1>2. ASSUME NEW q \in Requests, Handle(q)
      PROVE  pc[r] = "consume" /\ job'[r] = job[r]
  <2>1. UNCHANGED job
    BY <1>2 DEF Handle, Start, CallbackDenied, CallbackMismatch, ConsumeGet, ConsumeDelete,
                Exchange, Identify, StoreSession, Logout, AttachSession, UseSession
  <2>2. CASE q = r
    BY <1>2, <2>2 DEF Handle, Start, CallbackDenied, CallbackMismatch, ConsumeDelete,
                Exchange, Identify, StoreSession, StoreFails, Logout, AttachSession, UseSession,
                Respond, Continue, CallbackFails
  <2>3. CASE q # r
    <3>1. pc'[r] = pc[r]
      BY <1>2, <2>3 DEF Handle, Start, CallbackDenied, CallbackMismatch, ConsumeGet, ConsumeDelete,
                Exchange, Identify, StoreSession, StoreFails, Logout, AttachSession, UseSession,
                Respond, Continue, CallbackFails
    <3> QED BY <2>1, <3>1
  <2> QED BY <2>2, <2>3
<1>3. ASSUME NEW q \in Requests, Deliver(q) \/ LoseAnswer(q)
      PROVE  pc[r] = "consume" /\ job'[r] = job[r]
  BY <1>3, RetireMoves DEF Deliver, LoseAnswer, Moves
<1>4. CASE (\E b \in Browsers : LoseCookie(b)) \/ (\E s \in Ids, c \in Codes : Authorize(s, c))
           \/ \E k \in Keys : Expire(k)
  BY <1>4 DEF LoseCookie, Authorize, Expire, server
<1>5. CASE Restart
  BY <1>5 DEF Restart
<1> QED BY <1>1, <1>2, <1>3, <1>4, <1>5 DEF Next

\* Only the second half of Consume counts as a win.
LEMMA OnlyDeleteWins ==
  ASSUME Next, \A r \in Requests : ~ConsumeDelete(r)
  PROVE  UNCHANGED wins
<1>1. ASSUME NEW q \in Requests, Handle(q) PROVE UNCHANGED wins
  BY <1>1 DEF Handle, Start, CallbackDenied, CallbackMismatch, ConsumeGet,
              Exchange, Identify, StoreSession, Logout, AttachSession, UseSession, history
<1>2. ASSUME NEW q \in Requests, Browse(q) PROVE UNCHANGED wins
  BY <1>2 DEF Browse, SendStart, SendCallback, SendDenied, SendWithSession, Send, history
<1> QED BY <1>1, <1>2 DEF Next, Deliver, LoseAnswer, LoseCookie, Authorize, Expire, Restart, history

\* As long as no two Consumes of a state overlap, the second finds nothing.
LEMMA UnspentInductive == Inv /\ Unspent /\ Apart /\ [Next]_vars => Unspent'
<1> SUFFICES ASSUME Inv, Unspent, Apart, [Next]_vars PROVE Unspent'
  OBVIOUS
<1>1. CASE UNCHANGED vars
  BY <1>1 DEF Unspent, SingleUse, vars, server, history
<1>2. CASE Next
  <2>1. \A s \in Ids : wins[s] \in Nat
    BY DEF Inv, Shaped, WorldTyped
  <2>2. \A r \in Requests : pc'[r] = "consume" /\ ~ConsumeGet(r) =>
          pc[r] = "consume" /\ job'[r] = job[r]
    BY <1>2, ConsumeBegins DEF Inv, Shaped
  <2>3. ASSUME NEW r \in Requests, ConsumeGet(r), pc'[r] = "consume"
        PROVE  job'[r] = job[r] /\ wins[job[r].state] = 0
    <3>1. job[r].state \in Ids /\ job'[r] = job[r]
      BY <2>3 DEF ConsumeGet, StateMatches, Inv, Shaped, Formed, WellFormed, Job
    <3>2. Found(cache, StateKey(job[r].state))
      BY <2>3 DEF ConsumeGet, CallbackFails, Respond, Inv, Shaped, RequestsTyped
    <3> QED BY <2>1, <3>1, <3>2 DEF Inv, NoReplayAfterConsume
  <2>4. CASE \A r \in Requests : ~ConsumeDelete(r)
    <3>1. UNCHANGED wins
      BY <1>2, <2>4, OnlyDeleteWins
    <3> QED BY <2>2, <2>3, <3>1 DEF Unspent, SingleUse
  <2>5. ASSUME NEW r \in Requests, ConsumeDelete(r) PROVE Unspent'
    <3> DEFINE s == job[r].state
    <3>1. pc[r] = "consume" /\ UNCHANGED job /\ s \in Ids
      BY <2>5 DEF ConsumeDelete, Inv, Shaped, Formed, WellFormed, Working, StateMatches, Job
    <3>2. wins[s] = 0
      BY <3>1 DEF Unspent
    <3>3. UNCHANGED wins \/ wins' = [wins EXCEPT ![s] = wins[s] + 1]
      BY <2>5 DEF ConsumeDelete
    <3>4. wins'[s] <= 1 /\ \A t \in Ids : t # s => wins'[t] = wins[t]
      BY <2>1, <3>1, <3>2, <3>3 DEF Inv, Shaped, WorldTyped
    <3>5. SingleUse'
      BY <3>4 DEF Unspent, SingleUse
    <3>6. pc'[r] # "consume" /\ \A q \in Requests : ~ConsumeGet(q)
      BY <2>5, <3>1
      DEF ConsumeDelete, ConsumeGet, Respond, Continue, CallbackFails, Inv, Shaped, RequestsTyped
    <3>7. ASSUME NEW q \in Requests, pc'[q] = "consume" PROVE wins'[job'[q].state] = 0
      <4>1. q # r /\ pc[q] = "consume" /\ job'[q] = job[q]
        BY <2>2, <3>6, <3>7
      <4>2. job[q].state \in Ids /\ job[q].state # s
        BY <3>1, <4>1 DEF Apart, Inv, Shaped, Formed, WellFormed, Working, StateMatches, Job
      <4> QED BY <3>4, <4>1, <4>2 DEF Unspent
    <3> QED BY <3>5, <3>7 DEF Unspent
  <2> QED BY <2>4, <2>5
<1> QED BY <1>1, <1>2

\* StateStore.Consume is single-use wherever no two Consumes of one state
\* overlap: the gap between its Get and its Delete is the only way to a
\* second success, whatever else fails, restarts or is in flight.
THEOREM SingleUseApart == Spec /\ []Apart => []SingleUse
<1>1. Init => Unspent
  BY DEF Init, Unspent, SingleUse
<1>2. Unspent => SingleUse
  BY DEF Unspent
<1> QED BY Invariance, <1>1, <1>2, UnspentInductive, PTL DEF Spec

-----------------------------------------------------------------------------
(* Counting                                                                *)

\* The callbacks that have read state s and not yet deleted it,
Consuming(s) == {r \in Requests : pc[r] = "consume" /\ job[r].state = s}

\* and those that have consumed it and may still make a session.
Paid        == {"exchange", "identity", "store"}
Pending(s)  == {r \in Requests : pc[r] \in Paid /\ job[r].state = s}

\* A Consume that will succeed has begun before the first one ended; a
\* session, and a callback on its way to one, has a Consume behind it.
Counted ==
  /\ \A i \in Ids : origin[i] # None => issued[origin[i]] \in Ids
  /\ \A s \in Ids :
       /\ wins[s] + Cardinality(Consuming(s)) <= Cardinality(Requests)
       /\ IsFiniteSet(SessionsOf(s))
       /\ Cardinality(SessionsOf(s)) + Cardinality(Pending(s)) <= wins[s]

\* The sets of requests that are counted are finite.
LEMMA Finite ==
  /\ IsFiniteSet(Requests) /\ Cardinality(Requests) \in Nat
  /\ \A T \in SUBSET Requests :
       /\ IsFiniteSet(T) /\ Cardinality(T) \in Nat
       /\ Cardinality(T) <= Cardinality(Requests)
       /\ \A U \in SUBSET T : Cardinality(U) <= Cardinality(T)
       /\ \A r \in T : Cardinality(T \ {r}) = Cardinality(T) - 1
       /\ \A r \in Requests : Cardinality(T \cup {r}) <= Cardinality(T) + 1
<1>1. IsFiniteSet(Requests)
  BY ConstantsOK
<1> QED BY <1>1, FS_CardinalityType, FS_Subset, FS_RemoveElement, FS_AddElement

\* A callback gets to the exchange by ConsumeDelete only.
LEMMA PaymentBegins ==
  ASSUME RequestsTyped, NEW r \in Requests, Next,
         pc'[r] \in Paid, ~ConsumeDelete(r)
  PROVE  pc[r] \in Paid /\ job'[r] = job[r]
<1> USE DEF RequestsTyped, Paid
<1>1. ASSUME NEW q \in Requests, Browse(q)
      PROVE  pc[r] \in Paid /\ job'[r] = job[r]
  <2>1. PICK j : Send(q, j)
    BY <1>1 DEF Browse, SendStart, SendCallback, SendDenied, SendWithSession
  <2> QED BY <2>1, SendMoves DEF Moves
<1>2. ASSUME NEW q \in Requests, Handle(q)
      PROVE  pc[r] \in Paid /\ job'[r] = job[r]
  <2>1. UNCHANGED job
    BY <1>2 DEF Handle, Start, CallbackDenied, CallbackMismatch, ConsumeGet, ConsumeDelete,
                Exchange, Identify, StoreSession, Logout, AttachSession, UseSession
  <2>2. CASE q = r
    BY <1>2, <2>2 DEF Handle, Start, CallbackDenied, CallbackMismatch, ConsumeGet,
                Exchange, Identify, StoreSession, StoreFails, Logout, AttachSession, UseSession,
                Respond, Continue, CallbackFails
  <2>3. CASE q # r
    <3>1. pc'[r] = pc[r]
      BY <1>2, <2>3 DEF Handle, Start, CallbackDenied, CallbackMismatch, ConsumeGet, ConsumeDelete,
                Exchange, Identify, StoreSession, StoreFails, Logout, AttachSession, UseSession,
                Respond, Continue, CallbackFails
    <3> QED BY <2>1, <3>1
  <2> QED BY <2>2, <2>3
<1>3. ASSUME NEW q \in Requests, Deliver(q) \/ LoseAnswer(q)
      PROVE  pc[r] \in Paid /\ job'[r] = job[r]
  BY <1>3, RetireMoves DEF Deliver, LoseAnswer, Moves
<1>4. CASE (\E b \in Browsers : LoseCookie(b)) \/ (\E s \in Ids, c \in Codes : Authorize(s, c))
           \/ \E k \in Keys : Expire(k)
  BY <1>4 DEF LoseCookie, Authorize, Expire, server
<1>5. CASE Restart
  BY <1>5 DEF Restart
<1> QED BY <1>1, <1>2, <1>3, <1>4, <1>5 DEF Next

\* Only StoreSession makes sessions: every other step leaves the sessions of
\* each state as they are, also the issue of a further code for it.
LEMMA SessionsOfFixed ==
  ASSUME Inv, Counted, Next, \A r \in Requests : ~StoreSession(r), NEW s \in Ids
  PROVE  SessionsOf(s)' = SessionsOf(s)
<1>1. UNCHANGED origin
  <2>1. ASSUME NEW q \in Requests, Handle(q) PROVE UNCHANGED origin
    BY <2>1 DEF Handle, Start, CallbackDenied, CallbackMismatch, ConsumeGet, ConsumeDelete,
                Exchange, Identify, Logout, AttachSession, UseSession, history
  <2>2. ASSUME NEW q \in Requests, Browse(q) PROVE UNCHANGED origin
    BY <2>2 DEF Browse, SendStart, SendCallback, SendDenied, SendWithSession, Send, history
  <2> QED BY <2>1, <2>2 DEF Next, Deliver, LoseAnswer, LoseCookie, Authorize, Expire, Restart, history
<1>2. ASSUME NEW i \in Ids, origin[i] # None PROVE issued'[origin[i]] = issued[origin[i]]
  <2>1. origin[i] \in Codes /\ issued[origin[i]] # None
    BY <1>2, ConstantsOK DEF Inv, Shaped, WorldTyped, Counted
  <2> QED BY <2>1, IssuedFixed DEF Inv, Shaped
<1> QED BY <1>1, <1>2 DEF SessionsOf

\* The code of a session was issued for the state of its callback.
LEMMA OriginIssued ==
  ASSUME Inv, Counted, [Next]_vars
  PROVE  \A i \in Ids : origin'[i] # None => issued'[origin'[i]] \in Ids
<1> SUFFICES ASSUME NEW i \in Ids, origin'[i] # None PROVE issued'[origin'[i]] \in Ids
  OBVIOUS
<1>1. CASE origin'[i] = origin[i]
  <2>1. origin[i] \in Codes /\ issued[origin[i]] \in Ids
    BY <1>1 DEF Counted, Inv, Shaped, WorldTyped
  <2>2. issued'[origin[i]] = issued[origin[i]]
    BY <2>1, IssuedFixed, ConstantsOK DEF Inv, Shaped
  <2> QED BY <1>1, <2>1, <2>2
<1>2. CASE origin'[i] # origin[i]
  <2>1. PICK r \in Requests : StoreSession(r)
    <3>1. ASSUME NEW q \in Requests, Handle(q), ~StoreSession(q) PROVE UNCHANGED origin
      BY <3>1 DEF Handle, Start, CallbackDenied, CallbackMismatch, ConsumeGet, ConsumeDelete,
                  Exchange, Identify, Logout, AttachSession, UseSession, history
    <3>2. ASSUME NEW q \in Requests, Browse(q) PROVE UNCHANGED origin
      BY <3>2 DEF Browse, SendStart, SendCallback, SendDenied, SendWithSession, Send, history
    <3> QED
      BY <1>2, <3>1, <3>2
      DEF Next, Deliver, LoseAnswer, LoseCookie, Authorize, Expire, Restart, history, vars
  <2>2. origin'[i] = job[r].code /\ issued' = issued
    BY <1>2, <2>1 DEF StoreSession, StoreFails, provider, Inv, Shaped, WorldTyped
  <2>3. issued[job[r].code] = job[r].state /\ job[r].state \in Ids
    BY <2>1 DEF StoreSession, Inv, Shaped, Formed, WellFormed, Working, StateMatches, Job,
                Logins, Redeemed
  <2> QED BY <2>2, <2>3
<1> QED BY <1>1, <1>2

\* The handler of r has moved r and nobody else.
OnlyMoves(r) == UNCHANGED job /\ \A q \in Requests \ {r} : pc'[q] = pc[q]

\* ConsumeGet adds to those who consume a state that nobody has consumed.
LEMMA GetCounted ==
  ASSUME Inv, Counted, NEW r \in Requests, ConsumeGet(r), Next, NEW s \in Ids
  PROVE  wins'[s] + Cardinality(Consuming(s)') <= Cardinality(Requests)
<1>1. job[r].state \in Ids /\ UNCHANGED wins /\ wins[s] \in Nat
  BY DEF ConsumeGet, StateMatches, Inv, Shaped, Formed, WellFormed, Job, WorldTyped, history
<1>2. OnlyMoves(r)
  BY DEF ConsumeGet, CallbackFails, Respond, Continue, OnlyMoves, Inv, Shaped, RequestsTyped
<1>3. CASE s = job[r].state /\ pc'[r] = "consume"
  <2>1. Found(cache, StateKey(s))
    BY <1>3 DEF ConsumeGet, CallbackFails, Respond, Inv, Shaped, RequestsTyped
  <2>2. wins[s] = 0
    BY <1>1, <2>1 DEF Inv, NoReplayAfterConsume
  <2>3. Consuming(s)' \in SUBSET Requests
    BY DEF Consuming
  <2> QED BY <1>1, <2>2, <2>3, Finite
<1>4. CASE ~(s = job[r].state /\ pc'[r] = "consume")
  <2>1. Consuming(s)' \subseteq Consuming(s) /\ Consuming(s) \in SUBSET Requests
    BY <1>2, <1>4 DEF Consuming, OnlyMoves
  <2> QED BY <1>1, <2>1, Finite DEF Counted
<1> QED BY <1>3, <1>4

\* ConsumeDelete turns a callback that consumes into one that has paid.
LEMMA DeleteCounted ==
  ASSUME Inv, Counted, NEW r \in Requests, ConsumeDelete(r), Next, NEW s \in Ids
  PROVE  /\ wins'[s] + Cardinality(Consuming(s)') <= Cardinality(Requests)
         /\ Cardinality(SessionsOf(s)) + Cardinality(Pending(s)') <= wins'[s]
<1> DEFINE t == job[r].state
<1>1. t \in Ids /\ pc[r] = "consume" /\ wins \in [Ids -> Nat]
  BY DEF ConsumeDelete, StateMatches, Inv, Shaped, Formed, WellFormed, Working, Job, WorldTyped
<1>2. OnlyMoves(r) /\ pc'[r] # "consume"
  BY DEF ConsumeDelete, CallbackFails, Respond, Continue, OnlyMoves, Inv, Shaped, RequestsTyped
<1>3. \/ UNCHANGED wins /\ pc'[r] = "answered"
      \/ wins' = [wins EXCEPT ![t] = wins[t] + 1]
  BY DEF ConsumeDelete, CallbackFails, Respond, Inv, Shaped, RequestsTyped
<1>4. /\ Consuming(s) \in SUBSET Requests /\ Pending(s) \in SUBSET Requests
      /\ IsFiniteSet(SessionsOf(s)) /\ Cardinality(SessionsOf(s)) \in Nat
  BY FS_CardinalityType DEF Consuming, Pending, Counted
<1>5. CASE s # t
  <2>1. Consuming(s)' = Consuming(s) /\ Pending(s)' = Pending(s) /\ wins'[s] = wins[s]
    BY <1>1, <1>2, <1>3, <1>5 DEF Consuming, Pending, OnlyMoves
  <2> QED BY <2>1 DEF Counted
<1>6. CASE s = t
  <2>1. r \in Consuming(s) /\ Consuming(s)' = Consuming(s) \ {r}
    BY <1>1, <1>2, <1>6 DEF Consuming, OnlyMoves
  <2>2. Cardinality(Consuming(s)') = Cardinality(Consuming(s)) - 1
    BY <1>4, <2>1, Finite
  <2>3. CASE UNCHANGED wins /\ pc'[r] = "answered"
    <3>1. Pending(s)' \subseteq Pending(s)
      BY <1>2, <2>3 DEF Pending, OnlyMoves, Paid
    <3>2. Cardinality(Pending(s)') <= Cardinality(Pending(s)) /\ Cardinality(Pending(s)') \in Nat
      BY <1>4, <3>1, Finite
    <3> QED BY <1>1, <1>4, <2>2, <2>3, <3>2, Finite DEF Counted
  <2>4. CASE wins' = [wins EXCEPT ![t] = wins[t] + 1]
    <3>1. wins'[s] = wins[s] + 1
      BY <1>1, <1>6, <2>4
    <3>2. Pending(s)' \subseteq Pending(s) \cup {r}
      BY <1>2 DEF Pending, OnlyMoves
    <3>3. Pending(s) \cup {r} \in SUBSET Requests
      BY <1>4
    <3>4. /\ Cardinality(Pending(s)') <= Cardinality(Pending(s) \cup {r})
          /\ Cardinality(Pending(s) \cup {r}) <= Cardinality(Pending(s)) + 1
          /\ Cardinality(Pending(s)') \in Nat /\ Cardinality(Pending(s)) \in Nat
          /\ Cardinality(Pending(s) \cup {r}) \in Nat
      BY <1>4, <3>2, <3>3, Finite
    <3> QED BY <1>1, <1>4, <2>2, <3>1, <3>4, Finite DEF Counted
  <2> QED BY <1>3, <2>3, <2>4
<1> QED BY <1>5, <1>6

\* StoreSession turns a callback that has paid into a session of its state.
LEMMA StoreCounted ==
  ASSUME Inv, Counted, NEW r \in Requests, StoreSession(r), Next, NEW s \in Ids
  PROVE  /\ wins'[s] + Cardinality(Consuming(s)') <= Cardinality(Requests)
         /\ IsFiniteSet(SessionsOf(s)')
         /\ Cardinality(SessionsOf(s)') + Cardinality(Pending(s)') <= wins'[s]
<1> DEFINE c == job[r].code
<1>1. /\ pc[r] = "store" /\ c \in Codes /\ issued[c] = job[r].state
      /\ UNCHANGED <<wins, issued>> /\ wins[s] \in Nat
  BY DEF StoreSession, Inv, Shaped, Formed, WellFormed, Working, WorldTyped, Logins, Redeemed, provider
<1>2. OnlyMoves(r) /\ pc'[r] \notin Paid \cup {"consume"}
  BY DEF StoreSession, StoreFails, CallbackFails, Respond, OnlyMoves, Paid, Inv, Shaped, RequestsTyped
<1>3. /\ Consuming(s) \in SUBSET Requests /\ Pending(s) \in SUBSET Requests
      /\ IsFiniteSet(SessionsOf(s)) /\ Cardinality(SessionsOf(s)) \in Nat
  BY FS_CardinalityType DEF Consuming, Pending, Counted
<1>4. Consuming(s)' = Consuming(s) /\ Pending(s)' = Pending(s) \ {r}
  BY <1>1, <1>2 DEF Consuming, Pending, OnlyMoves
<1>5. CASE UNCHANGED origin
  <2>1. SessionsOf(s)' = SessionsOf(s)
    BY <1>1, <1>5 DEF SessionsOf
  <2>2. Cardinality(Pending(s)') <= Cardinality(Pending(s)) /\ Cardinality(Pending(s)') \in Nat
    BY <1>3, <1>4, Finite
  <2> QED BY <1>1, <1>3, <1>4, <2>1, <2>2, Finite DEF Counted
<1>6. ASSUME NEW i \in FreshIds, origin' = [origin EXCEPT ![i] = c]
      PROVE  /\ wins'[s] + Cardinality(Consuming(s)') <= Cardinality(Requests)
             /\ IsFiniteSet(SessionsOf(s)')
             /\ Cardinality(SessionsOf(s)') + Cardinality(Pending(s)') <= wins'[s]
  <2>1. i \in Ids /\ origin[i] = None /\ c # None /\ origin \in [Ids -> Codes \cup {None}]
    BY <1>1, ConstantsOK DEF FreshIds, Inv, Shaped, WorldTyped
  <2>2. CASE s # job[r].state
    <3>1. SessionsOf(s)' = SessionsOf(s) /\ Pending(s)' = Pending(s)
      BY <1>1, <1>4, <1>6, <2>1, <2>2 DEF SessionsOf, Pending
    <3> QED BY <1>1, <1>3, <1>4, <3>1 DEF Counted
  <2>3. CASE s = job[r].state
    <3>1. SessionsOf(s)' = SessionsOf(s) \cup {i} /\ i \notin SessionsOf(s)
      BY <1>1, <1>6, <2>1, <2>3 DEF SessionsOf
    <3>2. IsFiniteSet(SessionsOf(s)') /\ Cardinality(SessionsOf(s)') = Cardinality(SessionsOf(s)) + 1
      BY <1>3, <3>1, FS_AddElement
    <3>3. r \in Pending(s)
      BY <1>1, <2>3 DEF Pending, Paid
    <3>4. Cardinality(Pending(s)') = Cardinality(Pending(s)) - 1 /\ Cardinality(Pending(s)) \in Nat
      BY <1>3, <1>4, <3>3, Finite
    <3> QED BY <1>1, <1>3, <1>4, <3>2, <3>4 DEF Counted
  <2> QED BY <2>2, <2>3
<1> QED BY <1>5, <1>6, StoreHandled DEF Inv, Shaped

\* The inductive step.
LEMMA CountedInductive == Inv /\ Counted /\ [Next]_vars => Counted'
<1> SUFFICES ASSUME Inv, Counted, [Next]_vars PROVE Counted'
  OBVIOUS
<1>1. \A i \in Ids : origin'[i] # None => issued'[origin'[i]] \in Ids
  BY OriginIssued
<1>2. CASE UNCHANGED vars
  <2>1. \A s \in Ids : /\ Consuming(s)' = Consuming(s) /\ Pending(s)' = Pending(s)
                       /\ SessionsOf(s)' = SessionsOf(s)
    BY <1>2 DEF Consuming, Pending, SessionsOf, vars, server, provider, history
  <2> QED BY <1>1, <1>2, <2>1 DEF Counted, vars, history
<1>3. CASE Next
  <2> SUFFICES ASSUME NEW s \in Ids
               PROVE  /\ wins'[s] + Cardinality(Consuming(s)') <= Cardinality(Requests)
                      /\ IsFiniteSet(SessionsOf(s)')
                      /\ Cardinality(SessionsOf(s)') + Cardinality(Pending(s)') <= wins'[s]
    BY <1>1 DEF Counted
  <2>1. /\ Consuming(s) \in SUBSET Requests /\ Pending(s) \in SUBSET Requests
        /\ IsFiniteSet(SessionsOf(s)) /\ Cardinality(SessionsOf(s)) \in Nat
        /\ wins[s] \in Nat
    BY FS_CardinalityType DEF Consuming, Pending, Counted, Inv, Shaped, WorldTyped
  <2>2. CASE \E r \in Requests : StoreSession(r)
    BY <1>3, <2>2, StoreCounted
  <2>3. ASSUME NEW r \in Requests, ConsumeDelete(r), \A q \in Requests : ~StoreSession(q)
        PROVE  /\ wins'[s] + Cardinality(Consuming(s)') <= Cardinality(Requests)
               /\ IsFiniteSet(SessionsOf(s)')
               /\ Cardinality(SessionsOf(s)') + Cardinality(Pending(s)') <= wins'[s]
    BY <1>3, <2>1, <2>3, DeleteCounted, SessionsOfFixed
  <2>4. CASE \A r \in Requests : ~StoreSession(r) /\ ~ConsumeDelete(r)
    <3>1. UNCHANGED wins /\ SessionsOf(s)' = SessionsOf(s)
      BY <1>3, <2>4, OnlyDeleteWins, SessionsOfFixed
    <3>2. Pending(s)' \subseteq Pending(s)
      BY <1>3, <2>4, PaymentBegins DEF Pending, Inv, Shaped
    <3>3. Cardinality(Pending(s)') <= Cardinality(Pending(s)) /\ Cardinality(Pending(s)') \in Nat
      BY <2>1, <3>2, Finite
    <3>4. wins'[s] + Cardinality(Consuming(s)') <= Cardinality(Requests)
      <4>1. CASE \E r \in Requests : ConsumeGet(r)
        BY <1>3, <4>1, GetCounted
      <4>2. CASE \A r \in Requests : ~ConsumeGet(r)
        <5>1. Consuming(s)' \subseteq Consuming(s)
          BY <1>3, <4>2, ConsumeBegins DEF Consuming, Inv, Shaped
        <5> QED BY <2>1, <3>1, <5>1, Finite DEF Counted
      <4> QED BY <4>1, <4>2
    <3> QED BY <2>1, <3>1, <3>3, <3>4, Finite DEF Counted
  <2> QED BY <2>2, <2>3, <2>4
<1> QED BY <1>2, <1>3

\* The initial states satisfy Counted.
LEMMA CountedInit == Init => Counted
<1> SUFFICES ASSUME Init PROVE Counted
  OBVIOUS
<1>1. \A s \in Ids : Consuming(s) = {} /\ Pending(s) = {} /\ SessionsOf(s) = {} /\ wins[s] = 0
  BY DEF Init, Consuming, Pending, Paid, SessionsOf
<1> QED BY <1>1, Finite, FS_EmptySet DEF Init, Counted

\* The counts hold in every reachable state.
LEMMA CountedAlways == Spec => []Counted
BY CountedInit, CountedInductive, Invariance, PTL DEF Spec

\* The race costs a bounded number of Consumes: one for each request that
\* can be in flight.
THEOREM RaceIsBounded == Spec => []ConsumesBounded
<1>1. Inv /\ Counted => ConsumesBounded
  <2> SUFFICES ASSUME Inv, Counted, NEW s \in Ids
               PROVE  wins[s] <= Cardinality(Requests)
    BY DEF ConsumesBounded
  <2>1. Consuming(s) \in SUBSET Requests /\ wins[s] \in Nat
    BY DEF Consuming, Inv, Shaped, WorldTyped
  <2> QED BY <2>1, Finite DEF Counted
<1> QED BY <1>1, CountedAlways, Invariance, PTL

\* Each session has a Consume of its state behind it, and no two share one.
THEOREM SessionsArePaidFor == Spec => []SessionsPaidFor
<1>1. Inv /\ Counted => SessionsPaidFor
  <2> SUFFICES ASSUME Inv, Counted, NEW s \in Ids
               PROVE  Cardinality(SessionsOf(s)) <= wins[s]
    BY DEF SessionsPaidFor
  <2>1. Pending(s) \in SUBSET Requests /\ wins[s] \in Nat /\ Cardinality(SessionsOf(s)) \in Nat
    BY FS_CardinalityType DEF Pending, Counted, Inv, Shaped, WorldTyped
  <2> QED BY <2>1, Finite DEF Counted
<1> QED BY <1>1, CountedAlways, Invariance, PTL

\* Where no two Consumes of a state overlap, a login makes one session,
\* however many codes its user lets the provider issue.
OneLogin == \A s \in Ids : Cardinality(SessionsOf(s)) <= 1

THEOREM OneLoginApart == Spec /\ []Apart => []OneLogin
<1>1. Inv /\ Counted /\ SingleUse => OneLogin
  <2> SUFFICES ASSUME Inv, Counted, SingleUse, NEW s \in Ids
               PROVE  Cardinality(SessionsOf(s)) <= 1
    BY DEF OneLogin
  <2>1. Pending(s) \in SUBSET Requests /\ wins[s] \in Nat /\ Cardinality(SessionsOf(s)) \in Nat
    BY FS_CardinalityType DEF Pending, Counted, Inv, Shaped, WorldTyped
  <2>2. wins[s] <= 1
    BY DEF SingleUse
  <2> QED BY <2>1, <2>2, Finite DEF Counted
<1> QED BY <1>1, SingleUseApart, CountedAlways, Invariance, PTL

-----------------------------------------------------------------------------
(* Replays                                                                 *)

\* A callback leaves the beginning of its handler by these two steps only.
LEMMA CallbackBegins ==
  ASSUME RequestsTyped, NEW r \in Requests, Next,
         pc[r] = "called", pc'[r] \notin {"called", "idle"}, job[r].kind = "callback"
  PROVE  CallbackMismatch(r) \/ ConsumeGet(r)
<1> USE DEF RequestsTyped
<1>1. ASSUME NEW q \in Requests, Browse(q) PROVE pc'[r] = "called"
  <2>1. PICK j : Send(q, j)
    BY <1>1 DEF Browse, SendStart, SendCallback, SendDenied, SendWithSession
  <2> QED BY <2>1, SendMoves DEF Moves
<1>2. ASSUME NEW q \in Requests, Handle(q), q # r PROVE pc'[r] = pc[r]
  BY <1>2 DEF Handle, Start, CallbackDenied, CallbackMismatch, ConsumeGet, ConsumeDelete,
              Exchange, Identify, StoreSession, StoreFails, Logout, AttachSession, UseSession,
              Respond, Continue, CallbackFails
<1>3. ASSUME Handle(r) PROVE CallbackMismatch(r) \/ ConsumeGet(r)
  BY <1>3 DEF Handle, Start, CallbackDenied, ConsumeDelete, Exchange, Identify, StoreSession,
              Logout, AttachSession, UseSession
<1>4. ASSUME NEW q \in Requests, Deliver(q) \/ LoseAnswer(q) PROVE pc'[r] \in {pc[r], "idle"}
  BY <1>4, RetireMoves DEF Deliver, LoseAnswer, Moves
<1>5. ASSUME \/ \E b \in Browsers : LoseCookie(b)
             \/ \E s \in Ids, c \in Codes : Authorize(s, c)
             \/ \E k \in Keys : Expire(k)
      PROVE  UNCHANGED pc
  BY <1>5 DEF LoseCookie, Authorize, Expire, server
<1>6. ASSUME Restart PROVE pc'[r] = "idle"
  BY <1>6 DEF Restart
<1> QED BY <1>1, <1>2, <1>3, <1>4, <1>5, <1>6 DEF Next

\* A callback that comes after a Consume of its state is refused before it
\* has asked the provider anything: with "invalid state" if the browser does
\* not have the cookie any more, as after a first callback, and else because
\* the state is gone.
THEOREM ReplayIsRefused == Spec => ReplayRefused
<1>1. ASSUME Inv, [Next]_vars, NEW r \in Requests,
             pc[r] = "called", pc'[r] \notin {"called", "idle"},
             job[r].kind = "callback", job[r].state # None, wins[job[r].state] > 0
      PROVE  /\ pc'[r] = "answered" /\ answer'[r].session = Keep
             /\ answer'[r].outcome \in
                  {"invalid state", "state expired or already used", "callback failed"}
  <2>1. Next
    BY <1>1 DEF vars, server
  <2>2. job[r].state \in Ids /\ RequestsTyped
    BY <1>1 DEF Inv, Shaped, Formed, WellFormed, Job
  <2>3. ~Found(cache, StateKey(job[r].state))
    BY <1>1, <2>2 DEF Inv, NoReplayAfterConsume
  <2>4. CASE CallbackMismatch(r)
    BY <2>2, <2>4 DEF CallbackMismatch, CallbackFails, Respond, RequestsTyped
  <2>5. CASE ConsumeGet(r)
    <3>1. PICK o \in {"state expired or already used", "callback failed"} :
            Respond(r, o, None, Keep)
      BY <2>3, <2>5 DEF ConsumeGet, CallbackFails
    <3> DEFINE a == [outcome |-> o, state |-> None, session |-> Keep]
    <3>2. Moves(r, "answered", job[r], None, a)
      BY <2>2, <2>5, <3>1, RespondMoves DEF ConsumeGet
    <3>3. a.session = Keep /\ a.outcome = o
      OBVIOUS
    <3> HIDE DEF a
    <3> QED BY <3>2, <3>3 DEF Moves
  <2>6. CallbackMismatch(r) \/ ConsumeGet(r)
    BY <1>1, <2>1, <2>2, CallbackBegins
  <2> QED BY <2>4, <2>5, <2>6
<1>2. Inv /\ [Next]_vars =>
        [\A r \in Requests :
           /\ pc[r] = "called" /\ pc'[r] \notin {"called", "idle"}
           /\ job[r].kind = "callback"
           /\ job[r].state # None /\ wins[job[r].state] > 0
           => /\ pc'[r] = "answered" /\ answer'[r].session = Keep
              /\ answer'[r].outcome \in
                   {"invalid state", "state expired or already used", "callback failed"}]_vars
  BY <1>1
<1> QED BY <1>2, Invariance, PTL DEF Spec, ReplayRefused
=============================================================================
