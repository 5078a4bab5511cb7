-------------------------- MODULE AuthFlowProofs --------------------------
(***************************************************************************)
(* Theorems about AuthFlow for any browsers, requests, providers, ids and  *)
(* codes, and any combination of faults.                                   *)
(***************************************************************************)
EXTENDS AuthFlow, TLAPS

-----------------------------------------------------------------------------
(* Keys                                                                    *)

\* The two stores share the cache and never meet in it: their prefixes
\* differ, and under one prefix different ids are different keys.
LEMMA KeyFacts ==
  /\ \A i \in Ids : StateKey(i) \in Keys /\ SessionKey(i) \in Keys
  /\ \A i, j \in Ids : StateKey(i) # SessionKey(j)
  /\ \A i, j \in Ids : StateKey(i) = StateKey(j) => i = j
  /\ \A i, j \in Ids : SessionKey(i) = SessionKey(j) => i = j
BY DEF Keys, Prefixes, StateKey, SessionKey

-----------------------------------------------------------------------------
(* One request at a time                                                   *)

\* What a handler has at hand at each point.
Working == {"consume", "exchange", "identity", "store"}

WellFormed(label, j, record, a) ==
  /\ label # "idle" =>
       /\ j \in Job
       /\ j.kind \in {"start", "callback"} => j.provider \in Providers
  /\ label \in Working =>
       /\ j.kind = "callback" /\ StateMatches(j)
       /\ record \in StateRecord
  /\ label \in {"identity", "store"} => j.code \in Codes
  /\ label = "using" => j.kind = "profile" /\ record \in SessionRecord
  /\ label = "answered" =>
       /\ a \in Answer
       /\ a.outcome = "to provider" => a.state \in Ids

Formed == \A r \in Requests : WellFormed(pc[r], job[r], held[r], answer[r])

\* The request r is where its handler put it, the others are where they were.
Moves(r, label, j, record, a) ==
  /\ pc'[r] = label /\ job'[r] = j /\ held'[r] = record /\ answer'[r] = a
  /\ \A q \in Requests \ {r} :
       pc'[q] = pc[q] /\ job'[q] = job[q] /\ held'[q] = held[q] /\ answer'[q] = answer[q]

RequestsTyped ==
  /\ pc \in [Requests -> Labels]
  /\ job \in [Requests -> Job \cup {None}]
  /\ held \in [Requests -> StateRecord \cup SessionRecord \cup {None}]
  /\ answer \in [Requests -> Answer \cup {None}]

\* The four ways in which a step moves a request.
LEMMA RespondMoves ==
  ASSUME RequestsTyped, NEW r \in Requests, NEW outcome, NEW st, NEW se,
         Respond(r, outcome, st, se), UNCHANGED job
  PROVE  Moves(r, "answered", job[r], None,
               [outcome |-> outcome, state |-> st, session |-> se])
BY DEF RequestsTyped, Respond, Moves

\* A handler that goes on,
LEMMA ContinueMoves ==
  ASSUME RequestsTyped, NEW r \in Requests, NEW label, NEW record,
         Continue(r, label, record), UNCHANGED job
  PROVE  Moves(r, label, job[r], record, answer[r])
BY DEF RequestsTyped, Continue, Moves

\* a browser that sends a request,
LEMMA SendMoves ==
  ASSUME RequestsTyped, NEW r \in Requests, NEW j, Send(r, j)
  PROVE  pc[r] = "idle" /\ Moves(r, "called", j, held[r], answer[r])
BY DEF RequestsTyped, Send, Moves

\* and an answer that arrives or is lost.
LEMMA RetireMoves ==
  ASSUME RequestsTyped, NEW r \in Requests, Retire(r)
  PROVE  Moves(r, "idle", None, held[r], None)
BY DEF RequestsTyped, Retire, Moves

\* A response is an answer of the declared form, and keeps the types.
LEMMA RespondFacts ==
  ASSUME RequestsTyped, NEW r \in Requests, NEW outcome \in Outcomes,
         NEW st \in Ids \cup {None, Keep}, NEW se \in Ids \cup {None, Keep},
         Respond(r, outcome, st, se), UNCHANGED job
  PROVE  /\ RequestsTyped'
         /\ [outcome |-> outcome, state |-> st, session |-> se] \in Answer
         /\ Moves(r, "answered", job[r], None,
                  [outcome |-> outcome, state |-> st, session |-> se])
<1>1. [outcome |-> outcome, state |-> st, session |-> se] \in Answer
  BY DEF Answer
<1>2. RequestsTyped'
  BY <1>1 DEF RequestsTyped, Respond, Labels
<1> QED BY <1>1, <1>2, RespondMoves

\* So does a handler that goes on.
LEMMA ContinueFacts ==
  ASSUME RequestsTyped, NEW r \in Requests, NEW label \in Labels,
         NEW record \in StateRecord \cup SessionRecord,
         Continue(r, label, record), UNCHANGED job
  PROVE  /\ RequestsTyped'
         /\ Moves(r, label, job[r], record, answer[r])
<1>1. RequestsTyped'
  BY DEF RequestsTyped, Continue
<1> QED BY <1>1, ContinueMoves

\* So does a browser that sends a request,
LEMMA SendFacts ==
  ASSUME RequestsTyped, NEW r \in Requests, NEW j \in Job, Send(r, j)
  PROVE  /\ RequestsTyped'
         /\ pc[r] = "idle"
         /\ Moves(r, "called", j, held[r], answer[r])
<1>1. RequestsTyped'
  BY DEF RequestsTyped, Send, Labels
<1> QED BY <1>1, SendMoves

\* and a request whose answer arrives or is lost.
LEMMA RetireFacts ==
  ASSUME RequestsTyped, NEW r \in Requests, Retire(r)
  PROVE  /\ RequestsTyped'
         /\ Moves(r, "idle", None, held[r], None)
<1>1. RequestsTyped'
  BY DEF RequestsTyped, Retire, Labels
<1> QED BY <1>1, RetireMoves

\* A request that moves to a well-formed place leaves all well-formed.
LEMMA MoveFormed ==
  ASSUME Formed, NEW r \in Requests, NEW label, NEW j, NEW record, NEW a,
         Moves(r, label, j, record, a), WellFormed(label, j, record, a)
  PROVE  Formed'
<1> SUFFICES ASSUME NEW q \in Requests
             PROVE  WellFormed(pc[q], job[q], held[q], answer[q])'
  BY DEF Formed
<1>1. CASE q = r
  BY <1>1 DEF Moves, WellFormed
<1>2. CASE q # r
  BY <1>2 DEF Moves, WellFormed, Formed
<1> QED BY <1>1, <1>2

\* A response is always well-formed, and a handler that goes on has to be.
LEMMA RespondFormed ==
  ASSUME RequestsTyped, Formed, NEW r \in Requests, pc[r] # "idle",
         NEW outcome \in Outcomes,
         NEW st \in Ids \cup {None, Keep}, NEW se \in Ids \cup {None, Keep},
         outcome = "to provider" => st \in Ids,
         Respond(r, outcome, st, se), UNCHANGED job
  PROVE  RequestsTyped' /\ Formed'
<1> DEFINE a == [outcome |-> outcome, state |-> st, session |-> se]
<1>1. RequestsTyped' /\ a \in Answer /\ Moves(r, "answered", job[r], None, a)
  BY RespondFacts
<1>2. WellFormed(pc[r], job[r], held[r], answer[r])
  BY DEF Formed
<1>3. WellFormed("answered", job[r], None, a)
  BY <1>1, <1>2 DEF WellFormed, Working
<1> HIDE DEF a
<1> QED BY <1>1, <1>3, MoveFormed

\* Where a handler goes on, its next step finds what it needs.
LEMMA ContinueFormed ==
  ASSUME RequestsTyped, Formed, NEW r \in Requests, NEW label \in Labels,
         NEW record \in StateRecord \cup SessionRecord,
         WellFormed(label, job[r], record, answer[r]),
         Continue(r, label, record), UNCHANGED job
  PROVE  RequestsTyped' /\ Formed'
BY ContinueFacts, MoveFormed

-----------------------------------------------------------------------------
(* Types                                                                   *)

WorldTyped ==
  /\ cache \in [Keys -> StateRecord \cup SessionRecord \cup {None}]
  /\ \A i \in Ids : /\ cache[StateKey(i)] \in StateRecord \cup {None}
                    /\ cache[SessionKey(i)] \in SessionRecord \cup {None}
  /\ stateCookie \in [Browsers -> Ids \cup {None}]
  /\ sessionCookie \in [Browsers -> Ids \cup {None}]
  /\ visited \subseteq Ids
  /\ issued \in [Codes -> Ids \cup {None}]
  /\ burned \subseteq Codes
  /\ flow \in [Ids -> Flow \cup {None}]
  /\ wins \in [Ids -> Nat]
  /\ origin \in [Ids -> Codes \cup {None}]
  /\ loggedOut \subseteq Ids

\* TypeOK is the types of the requests and the types of everything else.
LEMMA TypeParts == TypeOK <=> RequestsTyped /\ WorldTyped
BY DEF TypeOK, RequestsTyped, WorldTyped

\* An access of one store changes the record of one id, and nothing of the
\* other store.
LEMMA PutState ==
  ASSUME WorldTyped, NEW i \in Ids, NEW v, cache' = Put(cache, StateKey(i), v)
  PROVE  \A j \in Ids : /\ cache'[StateKey(j)] = IF j = i THEN v ELSE cache[StateKey(j)]
                        /\ cache'[SessionKey(j)] = cache[SessionKey(j)]
<1> SUFFICES ASSUME NEW j \in Ids
             PROVE  /\ cache'[StateKey(j)] = IF j = i THEN v ELSE cache[StateKey(j)]
                    /\ cache'[SessionKey(j)] = cache[SessionKey(j)]
  OBVIOUS
<1> QED BY KeyFacts DEF WorldTyped, Put

\* Forgetting a state touches no session.
LEMMA ForgetState ==
  ASSUME WorldTyped, NEW i \in Ids, cache' = Forget(cache, StateKey(i))
  PROVE  \A j \in Ids : /\ cache'[StateKey(j)] = IF j = i THEN None ELSE cache[StateKey(j)]
                        /\ cache'[SessionKey(j)] = cache[SessionKey(j)]
<1> SUFFICES ASSUME NEW j \in Ids
             PROVE  /\ cache'[StateKey(j)] = IF j = i THEN None ELSE cache[StateKey(j)]
                    /\ cache'[SessionKey(j)] = cache[SessionKey(j)]
  OBVIOUS
<1> QED BY KeyFacts DEF WorldTyped, Forget

\* Storing a session touches no state.
LEMMA PutSession ==
  ASSUME WorldTyped, NEW i \in Ids, NEW v, cache' = Put(cache, SessionKey(i), v)
  PROVE  \A j \in Ids : /\ cache'[SessionKey(j)] = IF j = i THEN v ELSE cache[SessionKey(j)]
                        /\ cache'[StateKey(j)] = cache[StateKey(j)]
<1> SUFFICES ASSUME NEW j \in Ids
             PROVE  /\ cache'[SessionKey(j)] = IF j = i THEN v ELSE cache[SessionKey(j)]
                    /\ cache'[StateKey(j)] = cache[StateKey(j)]
  OBVIOUS
<1> QED BY KeyFacts DEF WorldTyped, Put

\* Forgetting a session touches no state and no other session.
LEMMA ForgetSession ==
  ASSUME WorldTyped, NEW i \in Ids, cache' = Forget(cache, SessionKey(i))
  PROVE  \A j \in Ids : /\ cache'[SessionKey(j)] = IF j = i THEN None ELSE cache[SessionKey(j)]
                        /\ cache'[StateKey(j)] = cache[StateKey(j)]
<1> SUFFICES ASSUME NEW j \in Ids
             PROVE  /\ cache'[SessionKey(j)] = IF j = i THEN None ELSE cache[SessionKey(j)]
                    /\ cache'[StateKey(j)] = cache[StateKey(j)]
  OBVIOUS
<1> QED BY KeyFacts DEF WorldTyped, Forget

\* Each handler passes on what its next step needs.
LEMMA RequestsInductive ==
  ASSUME RequestsTyped, WorldTyped, Formed, [Next]_vars
  PROVE  (RequestsTyped /\ Formed)'
<1> USE ConstantsOK
<1>1. ASSUME NEW r \in Requests, NEW b \in Browsers, NEW p \in Providers,
             SendStart(r, b, p)
      PROVE  (RequestsTyped /\ Formed)'
  <2> DEFINE j == [kind |-> "start", browser |-> b, provider |-> p,
                    state |-> None, code |-> None, cookie |-> None]
  <2>1. j \in Job
    BY DEF WorldTyped, Job, Kinds
  <2>2. Send(r, j)
    BY <1>1 DEF SendStart
  <2>3. WellFormed("called", j, held[r], answer[r])
    BY <2>1 DEF WellFormed, Working
  <2> HIDE DEF j
  <2> QED BY <2>1, <2>2, <2>3, SendFacts, MoveFormed
<1>2. ASSUME NEW r \in Requests, NEW b \in Browsers, NEW p \in Providers,
             NEW s \in KnownStates, NEW c \in KnownCodes,
             SendCallback(r, b, p, s, c)
      PROVE  (RequestsTyped /\ Formed)'
  <2>1. Send(r, [kind |-> "callback", browser |-> b, provider |-> p,
                state |-> s, code |-> c, cookie |-> stateCookie[b]])
    BY <1>2 DEF SendCallback
  <2> DEFINE j == [kind |-> "callback", browser |-> b, provider |-> p,
                    state |-> s, code |-> c, cookie |-> stateCookie[b]]
  <2>2. j \in Job
    BY DEF WorldTyped, Job, Kinds, KnownStates, KnownCodes
  <2>3. WellFormed("called", j, held[r], answer[r])
    BY <2>2 DEF WellFormed, Working
  <2> HIDE DEF j
  <2> QED BY <2>1, <2>2, <2>3, SendFacts, MoveFormed DEF j
<1>3. ASSUME NEW r \in Requests, NEW b \in Browsers, SendDenied(r, b)
      PROVE  (RequestsTyped /\ Formed)'
  <2> DEFINE j == [kind |-> "denied", browser |-> b, provider |-> None,
                    state |-> None, code |-> None, cookie |-> None]
  <2>1. j \in Job
    BY DEF WorldTyped, Job, Kinds
  <2>2. Send(r, j)
    BY <1>3 DEF SendDenied
  <2>3. WellFormed("called", j, held[r], answer[r])
    BY <2>1 DEF WellFormed, Working
  <2> HIDE DEF j
  <2> QED BY <2>1, <2>2, <2>3, SendFacts, MoveFormed
<1>4. ASSUME NEW r \in Requests, NEW b \in Browsers, NEW k \in {"logout", "profile"},
             SendWithSession(r, b, k)
      PROVE  (RequestsTyped /\ Formed)'
  <2> DEFINE j == [kind |-> k, browser |-> b, provider |-> None,
                    state |-> None, code |-> None, cookie |-> sessionCookie[b]]
  <2>1. j \in Job
    BY DEF WorldTyped, Job, Kinds
  <2>2. Send(r, j)
    BY <1>4 DEF SendWithSession
  <2>3. WellFormed("called", j, held[r], answer[r])
    BY <2>1 DEF WellFormed, Working
  <2> HIDE DEF j
  <2> QED BY <2>1, <2>2, <2>3, SendFacts, MoveFormed
<1>5. ASSUME NEW r \in Requests, Start(r) PROVE (RequestsTyped /\ Formed)'
  <2>1. pc[r] # "idle" /\ UNCHANGED job
    BY <1>5 DEF Start, StartFails, SaveState, Known
  <2>2. ASSUME NEW s \in Ids, Respond(r, "to provider", s, Keep)
        PROVE  (RequestsTyped /\ Formed)'
    BY <2>1, <2>2, RespondFormed DEF Outcomes
  <2>3. CASE Respond(r, "unknown provider", Keep, Keep)
    BY <2>1, <2>3, RespondFormed DEF Outcomes
  <2>4. CASE Respond(r, "start failed", Keep, Keep)
    BY <2>1, <2>4, RespondFormed DEF Outcomes
  <2> QED BY <1>5, <2>2, <2>3, <2>4 DEF Start, FreshIds, StartFails, SaveState, Known
<1>6. ASSUME NEW r \in Requests, CallbackDenied(r) PROVE (RequestsTyped /\ Formed)'
  <2>1. pc[r] # "idle" /\ UNCHANGED job
    BY <1>6 DEF CallbackDenied, server, jars, provider, history
  <2> QED BY <1>6, <2>1, RespondFormed DEF CallbackDenied, CallbackFails, Outcomes
<1>7. ASSUME NEW r \in Requests, CallbackMismatch(r) PROVE (RequestsTyped /\ Formed)'
  <2>1. pc[r] # "idle" /\ UNCHANGED job
    BY <1>7 DEF CallbackMismatch, server, jars, provider, history
  <2> QED BY <1>7, <2>1, RespondFormed DEF CallbackMismatch, CallbackFails, Outcomes
<1>8. ASSUME NEW r \in Requests, ConsumeGet(r) PROVE (RequestsTyped /\ Formed)'
  <2>1. pc[r] = "called" /\ UNCHANGED job
    BY <1>8 DEF ConsumeGet
  <2>2. job[r] \in Job /\ job[r].provider \in Providers
    BY <1>8, <2>1 DEF Formed, WellFormed, ConsumeGet
  <2>3. CASE Respond(r, "callback failed", None, Keep)
    BY <2>1, <2>3, RespondFormed DEF Outcomes
  <2>4. CASE Respond(r, "state expired or already used", None, Keep)
    BY <2>1, <2>4, RespondFormed DEF Outcomes
  <2>5. ASSUME Found(cache, StateKey(job[r].state)),
               Continue(r, "consume", cache[StateKey(job[r].state)])
        PROVE  (RequestsTyped /\ Formed)'
    <3> DEFINE record == cache[StateKey(job[r].state)]
    <3>1. record \in StateRecord
      BY <1>8, <2>2, <2>5 DEF ConsumeGet, StateMatches, Job, WorldTyped, Found
    <3>2. WellFormed("consume", job[r], record, answer[r])
      BY <1>8, <2>2, <3>1 DEF ConsumeGet, WellFormed, Working
    <3> QED BY <2>1, <2>5, <3>1, <3>2, ContinueFormed DEF Labels
  <2> QED BY <1>8, <2>3, <2>4, <2>5 DEF ConsumeGet, CallbackFails
<1>9. ASSUME NEW r \in Requests, ConsumeDelete(r) PROVE (RequestsTyped /\ Formed)'
  <2>1. pc[r] = "consume" /\ UNCHANGED job
    BY <1>9 DEF ConsumeDelete, Known
  <2>2. /\ held[r] \in StateRecord
        /\ WellFormed("exchange", job[r], held[r], answer[r])
    BY <2>1 DEF Formed, WellFormed, Working
  <2>3. ASSUME NEW outcome \in Outcomes, outcome # "to provider",
               CallbackFails(r, outcome)
        PROVE  (RequestsTyped /\ Formed)'
    BY <2>1, <2>3, RespondFormed DEF CallbackFails
  <2>4. ASSUME Continue(r, "exchange", held[r])
        PROVE  (RequestsTyped /\ Formed)'
    BY <2>1, <2>2, <2>4, ContinueFormed DEF Labels
  <2> QED BY <1>9, <2>3, <2>4 DEF ConsumeDelete, Outcomes, Known
<1>10. ASSUME NEW r \in Requests, Exchange(r) PROVE (RequestsTyped /\ Formed)'
  <2>1. pc[r] = "exchange" /\ UNCHANGED job
    BY <1>10 DEF Exchange
  <2>2. held[r] \in StateRecord
    BY <2>1 DEF Formed, WellFormed, Working
  <2>3. ASSUME NEW outcome \in Outcomes, outcome # "to provider",
               CallbackFails(r, outcome)
        PROVE  (RequestsTyped /\ Formed)'
    BY <2>1, <2>3, RespondFormed DEF CallbackFails
  <2>4. ASSUME CodeAccepted(r), Continue(r, "identity", held[r])
        PROVE  (RequestsTyped /\ Formed)'
    <3>1. WellFormed("identity", job[r], held[r], answer[r])
      BY <2>1, <2>4 DEF Formed, WellFormed, Working, CodeAccepted, Job
    <3> QED BY <2>1, <2>2, <2>4, <3>1, ContinueFormed DEF Labels
  <2> QED BY <1>10, <2>3, <2>4 DEF Exchange, Outcomes
<1>11. ASSUME NEW r \in Requests, Identify(r) PROVE (RequestsTyped /\ Formed)'
  <2>1. pc[r] = "identity" /\ UNCHANGED job
    BY <1>11 DEF Identify
  <2>2. /\ held[r] \in StateRecord
        /\ WellFormed("store", job[r], held[r], answer[r])
    BY <2>1 DEF Formed, WellFormed, Working
  <2>3. ASSUME NEW outcome \in Outcomes, outcome # "to provider",
               CallbackFails(r, outcome)
        PROVE  (RequestsTyped /\ Formed)'
    BY <2>1, <2>3, RespondFormed DEF CallbackFails
  <2>4. ASSUME Continue(r, "store", held[r])
        PROVE  (RequestsTyped /\ Formed)'
    BY <2>1, <2>2, <2>4, ContinueFormed DEF Labels
  <2> QED BY <1>11, <2>3, <2>4 DEF Identify, Outcomes
<1>12. ASSUME NEW r \in Requests, StoreSession(r) PROVE (RequestsTyped /\ Formed)'
  <2>1. pc[r] = "store" /\ UNCHANGED job
    BY <1>12 DEF StoreSession, SaveSession
  <2>2. CASE StoreFails(r)
    BY <2>1, <2>2, RespondFormed DEF StoreFails, CallbackFails, Outcomes
  <2>3. CASE \E i \in SessionIds(r) : Respond(r, "signed in", None, i)
    BY <2>1, <2>3, RespondFormed DEF SessionIds, FreshIds, Outcomes
  <2> QED BY <1>12, <2>2, <2>3 DEF StoreSession, SaveSession
<1>13. ASSUME NEW r \in Requests, Logout(r) PROVE (RequestsTyped /\ Formed)'
  <2>1. pc[r] # "idle" /\ UNCHANGED job
    BY <1>13 DEF Logout, server, jars, provider, history, EndSession
  <2> QED BY <1>13, <2>1, RespondFormed DEF Logout, CallbackFails, Outcomes, EndSession
<1>14. ASSUME NEW r \in Requests, AttachSession(r) PROVE (RequestsTyped /\ Formed)'
  <2>1. pc[r] = "called" /\ UNCHANGED job
    BY <1>14 DEF AttachSession, SessionStored
  <2>2. job[r] \in Job
    BY <2>1 DEF Formed, WellFormed
  <2>3. CASE Respond(r, "session required", Keep, Keep)
    BY <2>1, <2>3, RespondFormed DEF Outcomes
  <2>4. ASSUME job[r].cookie # None, Found(cache, SessionKey(job[r].cookie)),
               Continue(r, "using", cache[SessionKey(job[r].cookie)])
        PROVE  (RequestsTyped /\ Formed)'
    <3> DEFINE record == cache[SessionKey(job[r].cookie)]
    <3>1. record \in SessionRecord
      BY <2>2, <2>4 DEF Job, WorldTyped, Found
    <3>2. WellFormed("using", job[r], record, answer[r])
      BY <1>14, <2>2, <3>1 DEF AttachSession, WellFormed, Working, SessionStored
    <3> QED BY <2>1, <2>4, <3>1, <3>2, ContinueFormed DEF Labels
  <2> QED BY <1>14, <2>3, <2>4 DEF AttachSession, SessionStored
<1>15. ASSUME NEW r \in Requests, UseSession(r) PROVE (RequestsTyped /\ Formed)'
  <2>1. pc[r] # "idle" /\ UNCHANGED job
    BY <1>15 DEF UseSession, server, jars, provider, history
  <2> QED BY <1>15, <2>1, RespondFormed DEF UseSession, CallbackFails, Outcomes
<1>16. ASSUME NEW r \in Requests, Deliver(r) PROVE (RequestsTyped /\ Formed)'
  BY <1>16, RetireFacts, MoveFormed DEF Deliver, WellFormed, Working
<1>17. ASSUME NEW r \in Requests, LoseAnswer(r) PROVE (RequestsTyped /\ Formed)'
  BY <1>17, RetireFacts, MoveFormed DEF LoseAnswer, WellFormed, Working
<1>18. ASSUME NEW b \in Browsers, LoseCookie(b) PROVE (RequestsTyped /\ Formed)'
  BY <1>18 DEF LoseCookie, RequestsTyped, Formed, server, jars, provider, history
<1>19. ASSUME NEW s \in Ids, NEW c \in Codes, Authorize(s, c)
       PROVE  (RequestsTyped /\ Formed)'
  BY <1>19 DEF Authorize, RequestsTyped, Formed, server, jars, provider, history
<1>20. ASSUME NEW k \in Keys, Expire(k) PROVE (RequestsTyped /\ Formed)'
  BY <1>20 DEF Expire, RequestsTyped, Formed, server, jars, provider, history
<1>21. ASSUME Restart PROVE (RequestsTyped /\ Formed)'
  BY <1>21 DEF Restart, RequestsTyped, Formed, WellFormed, Working, Labels
<1>22. CASE UNCHANGED vars
  BY <1>22 DEF RequestsTyped, Formed, vars, server, jars, provider, history
<1> QED
  BY <1>1, <1>2, <1>3, <1>4, <1>5, <1>6, <1>7, <1>8, <1>9, <1>10, <1>11,
     <1>12, <1>13, <1>14, <1>15, <1>16, <1>17, <1>18, <1>19, <1>20, <1>21,
     <1>22
  DEF Next, Handle, Browse

\* The cache, the cookies, the provider and the history keep their types:
\* each step writes what WellFormed says the handler has at hand.
LEMMA WorldInductive ==
  ASSUME RequestsTyped, WorldTyped, Formed, [Next]_vars
  PROVE  WorldTyped'
<1> USE ConstantsOK
<1>1. ASSUME NEW r \in Requests, NEW b \in Browsers, NEW p \in Providers,
             SendStart(r, b, p)
      PROVE  WorldTyped'
  BY <1>1 DEF WorldTyped, SendStart, Send, server, jars, provider, history
<1>2. ASSUME NEW r \in Requests, NEW b \in Browsers, NEW p \in Providers,
             NEW s \in KnownStates, NEW c \in KnownCodes,
             SendCallback(r, b, p, s, c)
      PROVE  WorldTyped'
  BY <1>2 DEF WorldTyped, SendCallback, Send, server, jars, provider, history
<1>3. ASSUME NEW r \in Requests, NEW b \in Browsers, SendDenied(r, b) PROVE WorldTyped'
  BY <1>3 DEF WorldTyped, SendDenied, Send, server, jars, provider, history
<1>4. ASSUME NEW r \in Requests, NEW b \in Browsers, NEW k \in {"logout", "profile"},
             SendWithSession(r, b, k)
      PROVE  WorldTyped'
  BY <1>4 DEF WorldTyped, SendWithSession, Send, server, jars, provider, history
<1>5. ASSUME NEW r \in Requests, Start(r) PROVE WorldTyped'
  <2>1. job[r].provider \in Providers /\ job[r].browser \in Browsers
    BY <1>5 DEF Start, Formed, WellFormed, Job, StartFails, SaveState, Known
  <2>2. ASSUME NEW s \in Ids,
               cache' = Put(cache, StateKey(s), NewRecord(job[r].provider, s)),
               flow' = [flow EXCEPT ![s] = [provider |-> job[r].provider,
                                            browser |-> job[r].browser]]
        PROVE  WorldTyped'
    <3>1. NewRecord(job[r].provider, s) \in StateRecord
      BY <2>1 DEF NewRecord, StateRecord
    <3>2. /\ cache' \in [Keys -> StateRecord \cup SessionRecord \cup {None}]
          /\ \A i \in Ids : /\ cache'[StateKey(i)] \in StateRecord \cup {None}
                            /\ cache'[SessionKey(i)] \in SessionRecord \cup {None}
      BY <2>2, <3>1, KeyFacts DEF WorldTyped, Put
    <3>3. flow' \in [Ids -> Flow \cup {None}]
      BY <2>1, <2>2 DEF WorldTyped, Flow
    <3> QED BY <1>5, <3>2, <3>3 DEF WorldTyped, Start, jars, provider, StartFails, SaveState, Known
  <2>3. CASE UNCHANGED <<cache, flow>>
    BY <1>5, <2>3 DEF WorldTyped, Start, jars, provider, StartFails, SaveState, Known
  <2> QED BY <1>5, <2>2, <2>3 DEF Start, FreshIds, StartFails, SaveState, Known
<1>6. ASSUME NEW r \in Requests, CallbackDenied(r) PROVE WorldTyped'
  BY <1>6 DEF WorldTyped, CallbackDenied, server, jars, provider, history
<1>7. ASSUME NEW r \in Requests, CallbackMismatch(r) PROVE WorldTyped'
  BY <1>7 DEF WorldTyped, CallbackMismatch, server, jars, provider, history
<1>8. ASSUME NEW r \in Requests, ConsumeGet(r) PROVE WorldTyped'
  BY <1>8 DEF WorldTyped, ConsumeGet, server, jars, provider, history
<1>9. ASSUME NEW r \in Requests, ConsumeDelete(r) PROVE WorldTyped'
  <2>1. job[r].state \in Ids
    BY <1>9 DEF ConsumeDelete, Formed, WellFormed, Working, StateMatches, Job, Known
  <2>2. wins' \in [Ids -> Nat]
    <3>1. wins' \in {wins, [wins EXCEPT ![job[r].state] = @ + 1]}
      BY <1>9 DEF ConsumeDelete, Known
    <3> QED BY <2>1, <3>1 DEF WorldTyped
  <2>3. cache' \in {cache, Forget(cache, StateKey(job[r].state))}
    BY <1>9 DEF ConsumeDelete, Known
  <2>4. /\ cache' \in [Keys -> StateRecord \cup SessionRecord \cup {None}]
        /\ \A i \in Ids : /\ cache'[StateKey(i)] \in StateRecord \cup {None}
                          /\ cache'[SessionKey(i)] \in SessionRecord \cup {None}
    BY <2>1, <2>3, KeyFacts DEF WorldTyped, Forget
  <2> QED BY <1>9, <2>2, <2>4 DEF WorldTyped, ConsumeDelete, jars, provider, Known
<1>10. ASSUME NEW r \in Requests, Exchange(r) PROVE WorldTyped'
  <2>1. job[r].code \in Codes \cup {None}
    BY <1>10 DEF Exchange, Formed, WellFormed, Working, Job
  <2>2. burned' \subseteq Codes
    BY <1>10, <2>1 DEF Exchange, WorldTyped
  <2> QED BY <1>10, <2>2 DEF WorldTyped, Exchange, jars, history
<1>11. ASSUME NEW r \in Requests, Identify(r) PROVE WorldTyped'
  BY <1>11 DEF WorldTyped, Identify, server, jars, provider, history
<1>12. ASSUME NEW r \in Requests, StoreSession(r) PROVE WorldTyped'
  <2>1. job[r].provider \in Providers /\ job[r].code \in Codes
    BY <1>12 DEF StoreSession, Formed, WellFormed, Working, SaveSession
  <2>2. ASSUME NEW i \in Ids,
               cache' = Put(cache, SessionKey(i),
                            [provider |-> job[r].provider, token |-> job[r].code]),
               origin' = [origin EXCEPT ![i] = job[r].code]
        PROVE  WorldTyped'
    <3>1. [provider |-> job[r].provider, token |-> job[r].code] \in SessionRecord
      BY <2>1 DEF SessionRecord
    <3>2. /\ cache' \in [Keys -> StateRecord \cup SessionRecord \cup {None}]
          /\ \A k \in Ids : /\ cache'[StateKey(k)] \in StateRecord \cup {None}
                            /\ cache'[SessionKey(k)] \in SessionRecord \cup {None}
      BY <2>2, <3>1, KeyFacts DEF WorldTyped, Put
    <3>3. origin' \in [Ids -> Codes \cup {None}]
      BY <2>1, <2>2 DEF WorldTyped
    <3> QED BY <1>12, <3>2, <3>3 DEF WorldTyped, StoreSession, jars, provider, SaveSession
  <2>3. CASE UNCHANGED <<cache, origin>>
    BY <1>12, <2>3 DEF WorldTyped, StoreSession, jars, provider, SaveSession
  <2> QED BY <1>12, <2>2, <2>3 DEF StoreSession, StoreFails, SessionIds, FreshIds, SaveSession
<1>13. ASSUME NEW r \in Requests, Logout(r) PROVE WorldTyped'
  <2>1. job[r].cookie \in Ids \cup {None}
    BY <1>13 DEF Logout, Formed, WellFormed, Job, EndSession
  <2>2. ASSUME job[r].cookie # None,
               cache' = Forget(cache, SessionKey(job[r].cookie)),
               loggedOut' = loggedOut \cup {job[r].cookie}
        PROVE  WorldTyped'
    <3>1. /\ cache' \in [Keys -> StateRecord \cup SessionRecord \cup {None}]
          /\ \A i \in Ids : /\ cache'[StateKey(i)] \in StateRecord \cup {None}
                            /\ cache'[SessionKey(i)] \in SessionRecord \cup {None}
      BY <2>1, <2>2, KeyFacts DEF WorldTyped, Forget
    <3> QED BY <1>13, <2>1, <2>2, <3>1 DEF WorldTyped, Logout, jars, provider, EndSession
  <2>3. CASE UNCHANGED <<cache, loggedOut>>
    BY <1>13, <2>3 DEF WorldTyped, Logout, jars, provider, EndSession
  <2> QED BY <1>13, <2>2, <2>3 DEF Logout, EndSession
<1>14. ASSUME NEW r \in Requests, AttachSession(r) PROVE WorldTyped'
  BY <1>14 DEF WorldTyped, AttachSession, server, jars, provider, history, SessionStored
<1>15. ASSUME NEW r \in Requests, UseSession(r) PROVE WorldTyped'
  BY <1>15 DEF WorldTyped, UseSession, server, jars, provider, history
<1>16. ASSUME NEW r \in Requests, Deliver(r) PROVE WorldTyped'
  <2>1. job[r].browser \in Browsers /\ answer[r] \in Answer
    BY <1>16 DEF Deliver, Formed, WellFormed, Job
  <2>2. /\ stateCookie' \in [Browsers -> Ids \cup {None}]
        /\ sessionCookie' \in [Browsers -> Ids \cup {None}]
    BY <1>16, <2>1 DEF Deliver, SetCookie, WorldTyped, Answer
  <2>3. visited' \subseteq Ids
    BY <1>16 DEF Deliver, Formed, WellFormed, WorldTyped
  <2> QED BY <1>16, <2>2, <2>3 DEF Deliver, Retire, WorldTyped, history
<1>17. ASSUME NEW r \in Requests, LoseAnswer(r) PROVE WorldTyped'
  BY <1>17 DEF WorldTyped, LoseAnswer, Retire, server, jars, provider, history
<1>18. ASSUME NEW b \in Browsers, LoseCookie(b) PROVE WorldTyped'
  BY <1>18 DEF WorldTyped, LoseCookie, server, jars, provider, history
<1>19. ASSUME NEW s \in Ids, NEW c \in Codes, Authorize(s, c) PROVE WorldTyped'
  BY <1>19 DEF WorldTyped, Authorize, server, jars, provider, history
<1>20. ASSUME NEW k \in Keys, Expire(k) PROVE WorldTyped'
  <2>1. /\ cache' \in [Keys -> StateRecord \cup SessionRecord \cup {None}]
        /\ \A i \in Ids : /\ cache'[StateKey(i)] \in StateRecord \cup {None}
                          /\ cache'[SessionKey(i)] \in SessionRecord \cup {None}
    BY <1>20, KeyFacts DEF Expire, Forget, WorldTyped
  <2> QED BY <1>20, <2>1 DEF WorldTyped, Expire, jars, provider, history
<1>21. ASSUME Restart PROVE WorldTyped'
  <2>1. /\ cache' \in [Keys -> StateRecord \cup SessionRecord \cup {None}]
        /\ \A i \in Ids : /\ cache'[StateKey(i)] \in StateRecord \cup {None}
                          /\ cache'[SessionKey(i)] \in SessionRecord \cup {None}
    BY <1>21, KeyFacts DEF Restart, EmptyCache, WorldTyped
  <2> QED BY <1>21, <2>1 DEF WorldTyped, Restart, jars, provider, history
<1>22. CASE UNCHANGED vars
  BY <1>22 DEF WorldTyped, vars, server, jars, provider, history
<1> QED
  BY <1>1, <1>2, <1>3, <1>4, <1>5, <1>6, <1>7, <1>8, <1>9, <1>10, <1>11,
     <1>12, <1>13, <1>14, <1>15, <1>16, <1>17, <1>18, <1>19, <1>20, <1>21,
     <1>22
  DEF Next, Handle, Browse

-----------------------------------------------------------------------------
(* State values                                                            *)

\* A state value is minted before it is stored, read or consumed, and a
\* callback works with the record of the state it brought.
Minted ==
  /\ \A s \in Ids : wins[s] > 0 => flow[s] # None
  /\ \A s \in Ids : Found(cache, StateKey(s)) =>
       /\ flow[s] # None
       /\ cache[StateKey(s)].verifier = s
       /\ cache[StateKey(s)].provider = flow[s].provider
  /\ \A r \in Requests : pc[r] \in Working =>
       /\ flow[job[r].state] # None
       /\ held[r].verifier = job[r].state
       /\ held[r].provider = flow[job[r].state].provider
       /\ pc[r] # "consume" => held[r].provider = job[r].provider

\* No request begins to work on a record, or changes the one it works on.
NoneBegins ==
  \A q \in Requests : pc'[q] \in Working =>
    /\ pc[q] \in Working
    /\ pc[q] = "consume" => pc'[q] = "consume"
    /\ job'[q] = job[q] /\ held'[q] = held[q]

\* Most steps leave the states alone.
LEMMA MintedFrame ==
  ASSUME Minted, NoReplayAfterConsume, NoneBegins, UNCHANGED <<flow, wins>>,
         \A s \in Ids : cache'[StateKey(s)] \in {cache[StateKey(s)], None}
  PROVE  Minted' /\ NoReplayAfterConsume'
BY DEF Minted, NoReplayAfterConsume, NoneBegins, Found

\* The inductive step.  A state that Start mints is fresh, so nobody has
\* consumed it; ConsumeDelete makes the two facts meet.
LEMMA MintedInductive ==
  ASSUME RequestsTyped, WorldTyped, Formed, Minted, NoReplayAfterConsume, [Next]_vars
  PROVE  Minted' /\ NoReplayAfterConsume'
<1> USE ConstantsOK
<1>1. ASSUME NEW r \in Requests, NEW b \in Browsers, NEW p \in Providers,
             SendStart(r, b, p)
      PROVE  Minted' /\ NoReplayAfterConsume'
  <2>1. NoneBegins
    BY <1>1, SendMoves DEF SendStart, NoneBegins, Moves, Working
  <2>2. UNCHANGED <<cache, flow, wins>>
    BY <1>1 DEF SendStart, Send, history
  <2> QED BY <2>1, <2>2, MintedFrame
<1>2. ASSUME NEW r \in Requests, NEW b \in Browsers, NEW p \in Providers,
             NEW s \in KnownStates, NEW c \in KnownCodes,
             SendCallback(r, b, p, s, c)
      PROVE  Minted' /\ NoReplayAfterConsume'
  <2>1. NoneBegins
    BY <1>2, SendMoves DEF SendCallback, NoneBegins, Moves, Working
  <2>2. UNCHANGED <<cache, flow, wins>>
    BY <1>2 DEF SendCallback, Send, history
  <2> QED BY <2>1, <2>2, MintedFrame
<1>3. ASSUME NEW r \in Requests, NEW b \in Browsers, SendDenied(r, b)
      PROVE  Minted' /\ NoReplayAfterConsume'
  <2>1. NoneBegins
    BY <1>3, SendMoves DEF SendDenied, NoneBegins, Moves, Working
  <2>2. UNCHANGED <<cache, flow, wins>>
    BY <1>3 DEF SendDenied, Send, history
  <2> QED BY <2>1, <2>2, MintedFrame
<1>4. ASSUME NEW r \in Requests, NEW b \in Browsers, NEW k \in {"logout", "profile"},
             SendWithSession(r, b, k)
      PROVE  Minted' /\ NoReplayAfterConsume'
  <2>1. NoneBegins
    BY <1>4, SendMoves DEF SendWithSession, NoneBegins, Moves, Working
  <2>2. UNCHANGED <<cache, flow, wins>>
    BY <1>4 DEF SendWithSession, Send, history
  <2> QED BY <2>1, <2>2, MintedFrame
<1>5. ASSUME NEW r \in Requests, Start(r) PROVE Minted' /\ NoReplayAfterConsume'
  <2>1. NoneBegins /\ UNCHANGED wins
    BY <1>5, RespondMoves DEF Start, NoneBegins, Moves, Working, StartFails, SaveState, Known
  <2>2. CASE UNCHANGED <<cache, flow>>
    BY <2>1, <2>2, MintedFrame
  <2>3. ASSUME NEW s \in FreshIds,
               cache' = Put(cache, StateKey(s), NewRecord(job[r].provider, s)),
               flow' = [flow EXCEPT ![s] = [provider |-> job[r].provider,
                                            browser |-> job[r].browser]]
        PROVE  Minted' /\ NoReplayAfterConsume'
    <3>1. s \in Ids /\ flow[s] = None
      BY DEF FreshIds
    <3>2. /\ \A t \in Ids : t # s => flow'[t] = flow[t] /\ cache'[StateKey(t)] = cache[StateKey(t)]
          /\ flow'[s] = [provider |-> job[r].provider, browser |-> job[r].browser]
          /\ cache'[StateKey(s)] = NewRecord(job[r].provider, s)
      BY <2>3, <3>1, KeyFacts DEF Put, WorldTyped
    <3>3. flow'[s] # None
      <4>1. job[r].provider \in Providers /\ job[r].browser \in Browsers
        BY <1>5 DEF Start, Formed, WellFormed, Job, StartFails, SaveState, Known
      <4>2. flow'[s] \in Flow
        BY <3>2, <4>1 DEF Flow
      <4> QED BY <4>2
    <3>4. NoReplayAfterConsume'
      BY <2>1, <3>1, <3>2 DEF NoReplayAfterConsume, Minted, Found, WorldTyped
    <3>5. \A q \in Requests : pc[q] \in Working => job[q].state \in Ids /\ job[q].state # s
      BY <3>1 DEF Minted, Formed, WellFormed, Working, StateMatches, Job
    <3>6. Minted'
      BY <2>1, <3>1, <3>2, <3>3, <3>5 DEF Minted, NoneBegins, NewRecord, Found
    <3> QED BY <3>4, <3>6
  <2> QED BY <1>5, <2>2, <2>3 DEF Start, StartFails, SaveState, Known
<1>6. ASSUME NEW r \in Requests, CallbackDenied(r)
      PROVE  Minted' /\ NoReplayAfterConsume'
  <2>1. NoneBegins
    BY <1>6, RespondMoves DEF CallbackDenied, CallbackFails, NoneBegins, Moves, Working
  <2>2. UNCHANGED <<cache, flow, wins>>
    BY <1>6 DEF CallbackDenied, history
  <2> QED BY <2>1, <2>2, MintedFrame
<1>7. ASSUME NEW r \in Requests, CallbackMismatch(r)
      PROVE  Minted' /\ NoReplayAfterConsume'
  <2>1. NoneBegins
    BY <1>7, RespondMoves DEF CallbackMismatch, CallbackFails, NoneBegins, Moves, Working
  <2>2. UNCHANGED <<cache, flow, wins>>
    BY <1>7 DEF CallbackMismatch, history
  <2> QED BY <2>1, <2>2, MintedFrame
<1>8. ASSUME NEW r \in Requests, ConsumeGet(r) PROVE Minted' /\ NoReplayAfterConsume'
  <2>1. UNCHANGED <<cache, flow, wins>>
    BY <1>8 DEF ConsumeGet, history
  <2>2. ASSUME NEW outcome, CallbackFails(r, outcome)
        PROVE  Minted' /\ NoReplayAfterConsume'
    <3>1. NoneBegins
      BY <1>8, <2>2, RespondMoves DEF ConsumeGet, CallbackFails, NoneBegins, Moves, Working
    <3> QED BY <2>1, <3>1, MintedFrame
  <2>3. ASSUME Found(cache, StateKey(job[r].state)),
               Continue(r, "consume", cache[StateKey(job[r].state)])
        PROVE  Minted' /\ NoReplayAfterConsume'
    <3>1. Moves(r, "consume", job[r], cache[StateKey(job[r].state)], answer[r])
      BY <1>8, <2>3, ContinueMoves DEF ConsumeGet
    <3>2. job[r].state \in Ids
      BY <1>8 DEF ConsumeGet, StateMatches, Formed, WellFormed, Job
    <3>3. Minted'
      BY <2>1, <2>3, <3>1, <3>2 DEF Minted, Moves, Found
    <3> QED BY <2>1, <3>3 DEF NoReplayAfterConsume, Found
  <2> QED BY <1>8, <2>2, <2>3 DEF ConsumeGet
<1>9. ASSUME NEW r \in Requests, ConsumeDelete(r) PROVE Minted' /\ NoReplayAfterConsume'
  <2>1. /\ pc[r] = "consume" /\ UNCHANGED <<flow, job>>
        /\ job[r].state \in Ids
    BY <1>9 DEF ConsumeDelete, Formed, WellFormed, Working, StateMatches, Job, Known
  <2>2. \A s \in Ids : cache'[StateKey(s)] \in {cache[StateKey(s)], None}
    BY <1>9, <2>1, KeyFacts DEF ConsumeDelete, Forget, WorldTyped, Known
  <2>3. CASE UNCHANGED <<cache, wins>> /\ CallbackFails(r, "callback failed")
    <3>1. NoneBegins
      BY <2>1, <2>3, RespondMoves DEF CallbackFails, NoneBegins, Moves, Working
    <3> QED BY <2>1, <2>2, <2>3, <3>1, MintedFrame
  <2>4. ASSUME cache' = Forget(cache, StateKey(job[r].state)),
               wins' = [wins EXCEPT ![job[r].state] = wins[job[r].state] + 1]
        PROVE  Minted' /\ NoReplayAfterConsume'
    <3>1. /\ cache'[StateKey(job[r].state)] = None
          /\ \A s \in Ids : s # job[r].state => wins'[s] = wins[s]
      BY <2>1, <2>4, KeyFacts DEF Forget, WorldTyped
    <3>2. NoReplayAfterConsume'
      BY <2>2, <3>1 DEF NoReplayAfterConsume, Found
    <3>3. /\ \A s \in Ids : wins'[s] > 0 => flow'[s] # None
          /\ \A s \in Ids : Found(cache, StateKey(s))' =>
               /\ flow'[s] # None
               /\ cache'[StateKey(s)].verifier = s
               /\ cache'[StateKey(s)].provider = flow'[s].provider
      BY <2>1, <2>2, <3>1 DEF Minted, Found, Working
    <3>4. \A q \in Requests : pc'[q] \in Working =>
            /\ pc[q] \in Working /\ job'[q] = job[q] /\ held'[q] = held[q]
            /\ q # r => pc'[q] = pc[q]
            /\ q = r => ProviderMatches(job[r], held[r])
      <4>1. CASE /\ ProviderMatches(job[r], held[r])
                 /\ Continue(r, "exchange", held[r])
        BY <2>1, <4>1, ContinueMoves DEF Moves, Working
      <4>2. ASSUME NEW outcome, CallbackFails(r, outcome)
            PROVE  \A q \in Requests : pc'[q] \in Working =>
                     /\ pc[q] \in Working /\ job'[q] = job[q] /\ held'[q] = held[q]
                     /\ q # r /\ pc'[q] = pc[q]
        BY <2>1, <4>2, RespondMoves DEF CallbackFails, Moves, Working
      <4> QED BY <1>9, <4>1, <4>2 DEF ConsumeDelete, Known
    <3> QED BY <2>1, <3>2, <3>3, <3>4 DEF Minted, ProviderMatches
  <2> QED BY <1>9, <2>3, <2>4 DEF ConsumeDelete, Known
<1>10. ASSUME NEW r \in Requests, Exchange(r) PROVE Minted' /\ NoReplayAfterConsume'
  <2>1. NoneBegins
    BY <1>10, RespondMoves, ContinueMoves DEF Exchange, CallbackFails, NoneBegins, Moves, Working
  <2>2. UNCHANGED <<cache, flow, wins>>
    BY <1>10 DEF Exchange, history
  <2> QED BY <2>1, <2>2, MintedFrame
<1>11. ASSUME NEW r \in Requests, Identify(r) PROVE Minted' /\ NoReplayAfterConsume'
  <2>1. NoneBegins
    BY <1>11, RespondMoves, ContinueMoves DEF Identify, CallbackFails, NoneBegins, Moves, Working
  <2>2. UNCHANGED <<cache, flow, wins>>
    BY <1>11 DEF Identify, history
  <2> QED BY <2>1, <2>2, MintedFrame
<1>12. ASSUME NEW r \in Requests, StoreSession(r) PROVE Minted' /\ NoReplayAfterConsume'
  <2>1. NoneBegins /\ UNCHANGED <<flow, wins>>
    BY <1>12, RespondMoves DEF StoreSession, StoreFails, CallbackFails, NoneBegins, Moves, Working, SaveSession
  <2>2. \A s \in Ids : cache'[StateKey(s)] = cache[StateKey(s)]
    BY <1>12, PutSession DEF StoreSession, StoreFails, SessionIds, FreshIds, SaveSession
  <2> QED BY <2>1, <2>2, MintedFrame
<1>13. ASSUME NEW r \in Requests, Logout(r) PROVE Minted' /\ NoReplayAfterConsume'
  <2>1. NoneBegins /\ UNCHANGED <<flow, wins>>
    BY <1>13, RespondMoves DEF Logout, NoneBegins, Moves, Working, EndSession
  <2>2. job[r].cookie \in Ids \cup {None}
    BY <1>13 DEF Logout, Formed, WellFormed, Job, EndSession
  <2>3. \A s \in Ids : cache'[StateKey(s)] = cache[StateKey(s)]
    <3>1. CASE UNCHANGED cache
      BY <3>1
    <3>2. CASE /\ job[r].cookie \in Ids
               /\ cache' = Forget(cache, SessionKey(job[r].cookie))
      BY <3>2, ForgetSession
    <3> QED BY <1>13, <2>2, <3>1, <3>2 DEF Logout, EndSession
  <2> QED BY <2>1, <2>3, MintedFrame
<1>14. ASSUME NEW r \in Requests, AttachSession(r)
       PROVE  Minted' /\ NoReplayAfterConsume'
  <2>1. UNCHANGED <<job, cache, flow, wins>>
    BY <1>14 DEF AttachSession, history, SessionStored
  <2>2. CASE Respond(r, "session required", Keep, Keep)
    <3>1. NoneBegins
      BY <2>1, <2>2, RespondMoves DEF NoneBegins, Moves, Working
    <3> QED BY <2>1, <3>1, MintedFrame
  <2>3. ASSUME NEW record, Continue(r, "using", record)
        PROVE  Minted' /\ NoReplayAfterConsume'
    <3>1. NoneBegins
      BY <2>1, <2>3, ContinueMoves DEF NoneBegins, Moves, Working
    <3> QED BY <2>1, <3>1, MintedFrame
  <2> QED BY <1>14, <2>2, <2>3 DEF AttachSession, SessionStored
<1>15. ASSUME NEW r \in Requests, UseSession(r) PROVE Minted' /\ NoReplayAfterConsume'
  <2>1. NoneBegins
    BY <1>15, RespondMoves DEF UseSession, NoneBegins, Moves, Working
  <2>2. UNCHANGED <<cache, flow, wins>>
    BY <1>15 DEF UseSession, history
  <2> QED BY <2>1, <2>2, MintedFrame
<1>16. ASSUME NEW r \in Requests, Deliver(r) PROVE Minted' /\ NoReplayAfterConsume'
  <2>1. NoneBegins
    BY <1>16, RetireMoves DEF Deliver, NoneBegins, Moves, Working
  <2>2. UNCHANGED <<cache, flow, wins>>
    BY <1>16 DEF Deliver, Retire, history
  <2> QED BY <2>1, <2>2, MintedFrame
<1>17. ASSUME NEW r \in Requests, LoseAnswer(r) PROVE Minted' /\ NoReplayAfterConsume'
  <2>1. NoneBegins
    BY <1>17, RetireMoves DEF LoseAnswer, NoneBegins, Moves, Working
  <2>2. UNCHANGED <<cache, flow, wins>>
    BY <1>17 DEF LoseAnswer, Retire, history
  <2> QED BY <2>1, <2>2, MintedFrame
<1>18. ASSUME NEW b \in Browsers, LoseCookie(b) PROVE Minted' /\ NoReplayAfterConsume'
  <2>1. NoneBegins
    BY <1>18 DEF LoseCookie, NoneBegins, server
  <2>2. UNCHANGED <<cache, flow, wins>>
    BY <1>18 DEF LoseCookie, server, history
  <2> QED BY <2>1, <2>2, MintedFrame
<1>19. ASSUME NEW s \in Ids, NEW c \in Codes, Authorize(s, c)
       PROVE  Minted' /\ NoReplayAfterConsume'
  <2>1. NoneBegins
    BY <1>19 DEF Authorize, NoneBegins, server
  <2>2. UNCHANGED <<cache, flow, wins>>
    BY <1>19 DEF Authorize, server, history
  <2> QED BY <2>1, <2>2, MintedFrame
<1>20. ASSUME NEW k \in Keys, Expire(k) PROVE Minted' /\ NoReplayAfterConsume'
  <2>1. NoneBegins /\ UNCHANGED <<flow, wins>>
    BY <1>20 DEF Expire, NoneBegins, history
  <2>2. \A s \in Ids : cache'[StateKey(s)] \in {cache[StateKey(s)], None}
    BY <1>20, KeyFacts DEF Expire, Forget, WorldTyped
  <2> QED BY <2>1, <2>2, MintedFrame
<1>21. ASSUME Restart PROVE Minted' /\ NoReplayAfterConsume'
  <2>1. NoneBegins /\ UNCHANGED <<flow, wins>>
    BY <1>21 DEF Restart, NoneBegins, Working, history
  <2>2. \A s \in Ids : cache'[StateKey(s)] \in {cache[StateKey(s)], None}
    BY <1>21, KeyFacts DEF Restart, EmptyCache
  <2> QED BY <2>1, <2>2, MintedFrame
<1>22. CASE UNCHANGED vars
  BY <1>22, MintedFrame DEF NoneBegins, vars, server, jars, provider, history
<1> QED
  BY <1>1, <1>2, <1>3, <1>4, <1>5, <1>6, <1>7, <1>8, <1>9, <1>10, <1>11,
     <1>12, <1>13, <1>14, <1>15, <1>16, <1>17, <1>18, <1>19, <1>20, <1>21,
     <1>22
  DEF Next, Handle, Browse

-----------------------------------------------------------------------------
(* Steps of requests, as the cookies see them                              *)

\* The handlers that mint no id.
PlainHandle(r) ==
  \/ CallbackDenied(r) \/ CallbackMismatch(r)
  \/ ConsumeGet(r) \/ ConsumeDelete(r)
  \/ Exchange(r) \/ Identify(r)
  \/ Logout(r)
  \/ AttachSession(r) \/ UseSession(r)

\* Nothing but the handler of r moves; if it answers, with the given cookies.
Handled(r, st, se) ==
  /\ UNCHANGED <<job, stateCookie, sessionCookie>>
  /\ pc[r] \notin {"idle", "answered"}
  /\ pc'[r] # "idle"
  /\ pc'[r] = "answered" => answer'[r].state \in st /\ answer'[r].session \in se
  /\ \A q \in Requests \ {r} :
       pc'[q] = pc[q] /\ held'[q] = held[q] /\ answer'[q] = answer[q]

\* A response is a handler step that may hand out ids in its Set-Cookie headers,
LEMMA RespondHandled ==
  ASSUME RequestsTyped, NEW r \in Requests, NEW outcome, NEW st, NEW se,
         Respond(r, outcome, st, se), UNCHANGED <<job, jars>>,
         pc[r] \notin {"idle", "answered"}
  PROVE  Handled(r, {st}, {se})
<1> DEFINE a == [outcome |-> outcome, state |-> st, session |-> se]
<1>1. Moves(r, "answered", job[r], None, a)
  BY RespondMoves
<1>2. a.state = st /\ a.session = se
  OBVIOUS
<1> HIDE DEF a
<1> QED BY <1>1, <1>2 DEF Handled, Moves, jars

\* and a handler that goes on hands out none.
LEMMA ContinueHandled ==
  ASSUME RequestsTyped, NEW r \in Requests, NEW label, NEW record, NEW st, NEW se,
         Continue(r, label, record), UNCHANGED <<job, jars>>,
         pc[r] \notin {"idle", "answered"}, label \notin {"idle", "answered"}
  PROVE  Handled(r, st, se)
BY ContinueMoves DEF Handled, Moves, jars

\* A plain handler hands out no id.
LEMMA PlainHandled ==
  ASSUME RequestsTyped, NEW r \in Requests, PlainHandle(r)
  PROVE  Handled(r, {None, Keep}, {None, Keep})
<1>1. pc[r] \notin {"idle", "answered"} /\ UNCHANGED <<job, jars>>
  BY DEF PlainHandle, CallbackDenied, CallbackMismatch, ConsumeGet, ConsumeDelete,
         Exchange, Identify, Logout, AttachSession, UseSession, Known, EndSession, SessionStored
<1>2. ASSUME NEW outcome, NEW st \in {None, Keep}, NEW se \in {None, Keep},
             Respond(r, outcome, st, se)
      PROVE  Handled(r, {None, Keep}, {None, Keep})
  BY <1>1, <1>2, RespondHandled DEF Handled
<1>3. ASSUME NEW label \in {"consume", "exchange", "identity", "store", "using"},
             NEW record, Continue(r, label, record)
      PROVE  Handled(r, {None, Keep}, {None, Keep})
  BY <1>1, <1>3, ContinueHandled
<1>4. CASE CallbackDenied(r) \/ CallbackMismatch(r)
  BY <1>2, <1>4 DEF CallbackDenied, CallbackMismatch, CallbackFails
<1>5. CASE ConsumeGet(r)
  BY <1>2, <1>3, <1>5 DEF ConsumeGet, CallbackFails
<1>6. CASE ConsumeDelete(r)
  BY <1>2, <1>3, <1>6 DEF ConsumeDelete, CallbackFails, Known
<1>7. CASE Exchange(r)
  BY <1>2, <1>3, <1>7 DEF Exchange, CallbackFails
<1>8. CASE Identify(r)
  BY <1>2, <1>3, <1>8 DEF Identify, CallbackFails
<1>9. CASE Logout(r)
  BY <1>2, <1>9 DEF Logout, EndSession
<1>10. CASE AttachSession(r)
  BY <1>2, <1>3, <1>10 DEF AttachSession, SessionStored
<1>11. CASE UseSession(r)
  BY <1>2, <1>11 DEF UseSession
<1> QED BY <1>4, <1>5, <1>6, <1>7, <1>8, <1>9, <1>10, <1>11 DEF PlainHandle

\* Start answers with the state it has minted,
LEMMA StartHandled ==
  ASSUME RequestsTyped, NEW r \in Requests, Start(r)
  PROVE  \/ /\ Handled(r, {Keep}, {Keep})
            /\ UNCHANGED <<cache, flow>>
         \/ \E s \in FreshIds :
              /\ Handled(r, {s}, {Keep})
              /\ cache' = Put(cache, StateKey(s), NewRecord(job[r].provider, s))
              /\ flow' = [flow EXCEPT ![s] = [provider |-> job[r].provider,
                                              browser |-> job[r].browser]]
<1>1. pc[r] \notin {"idle", "answered"} /\ UNCHANGED <<job, jars>>
  BY DEF Start, StartFails, SaveState, Known
<1>2. ASSUME NEW outcome, NEW st, Respond(r, outcome, st, Keep)
      PROVE  Handled(r, {st}, {Keep})
  BY <1>1, <1>2, RespondHandled
<1> QED BY <1>2 DEF Start, StartFails, SaveState, Known

\* and StoreSession with the session it has stored.
LEMMA StoreHandled ==
  ASSUME RequestsTyped, NEW r \in Requests, StoreSession(r)
  PROVE  \/ /\ Handled(r, {None}, {Keep})
            /\ UNCHANGED <<cache, origin>>
         \/ \E i \in FreshIds :
              /\ Handled(r, {None}, {i})
              /\ cache' = Put(cache, SessionKey(i),
                              [provider |-> job[r].provider, token |-> job[r].code])
              /\ origin' = [origin EXCEPT ![i] = job[r].code]
<1>1. pc[r] \notin {"idle", "answered"} /\ UNCHANGED <<job, jars>>
  BY DEF StoreSession, SaveSession
<1>2. ASSUME NEW outcome, NEW se, Respond(r, outcome, None, se)
      PROVE  Handled(r, {None}, {se})
  BY <1>1, <1>2, RespondHandled
<1> QED BY <1>2 DEF StoreSession, StoreFails, CallbackFails, SessionIds, SaveSession

-----------------------------------------------------------------------------
(* Flows and browsers                                                      *)

BoundTo(s, b) == flow[s] # None /\ flow[s].browser = b

\* A state value travels only between the server and the browser it was
\* minted for: in a Set-Cookie, in the jar, in the Cookie of a request.
Bound ==
  /\ \A b \in Browsers : stateCookie[b] # None => BoundTo(stateCookie[b], b)
  /\ \A r \in Requests :
       pc[r] # "idle" /\ job[r].kind = "callback" /\ job[r].cookie # None
         => BoundTo(job[r].cookie, job[r].browser)
  /\ \A r \in Requests :
       pc[r] = "answered" /\ answer[r].state \in Ids
         => BoundTo(answer[r].state, job[r].browser)

\* A minted flow is never changed.
LEMMA FlowFixed ==
  ASSUME WorldTyped, [Next]_vars, NEW s \in Ids, flow[s] # None
  PROVE  flow'[s] = flow[s]
<1>1. CASE UNCHANGED flow
  BY <1>1
<1>2. ASSUME NEW r \in Requests, Start(r) PROVE flow'[s] = flow[s]
  <2>1. CASE UNCHANGED flow
    BY <2>1
  <2>2. ASSUME NEW i \in FreshIds,
               flow' = [flow EXCEPT ![i] = [provider |-> job[r].provider,
                                            browser |-> job[r].browser]]
        PROVE  flow'[s] = flow[s]
    BY <2>2 DEF FreshIds, WorldTyped
  <2> QED BY <1>2, <2>1, <2>2 DEF Start, StartFails, SaveState, Known
<1>3. ASSUME NEW r \in Requests, Browse(r) \/ Deliver(r) \/ LoseAnswer(r)
      PROVE  UNCHANGED flow
  BY <1>3 DEF Browse, SendStart, SendCallback, SendDenied, SendWithSession, Send,
              Deliver, LoseAnswer, Retire, history
<1>4. ASSUME NEW r \in Requests, Handle(r), ~Start(r) PROVE UNCHANGED flow
  BY <1>4 DEF Handle, CallbackDenied, CallbackMismatch, ConsumeGet, ConsumeDelete,
              Exchange, Identify, StoreSession, Logout, AttachSession, UseSession, history, Known, SaveSession, EndSession, SessionStored
<1>5. ASSUME NEW b \in Browsers, LoseCookie(b) PROVE UNCHANGED flow
  BY <1>5 DEF LoseCookie, history
<1>6. ASSUME NEW t \in Ids, NEW c \in Codes, Authorize(t, c) PROVE UNCHANGED flow
  BY <1>6 DEF Authorize, history
<1>7. ASSUME NEW k \in Keys, Expire(k) PROVE UNCHANGED flow
  BY <1>7 DEF Expire, history
<1>8. CASE Restart \/ UNCHANGED vars
  BY <1>8 DEF Restart, history, vars
<1> QED BY <1>1, <1>2, <1>3, <1>4, <1>5, <1>6, <1>7, <1>8 DEF Next

\* The inductive step.
LEMMA BoundInductive ==
  ASSUME RequestsTyped, WorldTyped, Formed, Bound, [Next]_vars
  PROVE  Bound'
<1> USE DEF Bound, BoundTo
<1>1. ASSUME NEW r \in Requests, NEW b \in Browsers, NEW p \in Providers, SendStart(r, b, p)
      PROVE  Bound'
  <2>1. UNCHANGED <<stateCookie, flow>>
    BY <1>1 DEF SendStart, Send, jars, history
  <2> QED BY <1>1, <2>1, SendMoves DEF SendStart, Moves
<1>2. ASSUME NEW r \in Requests, NEW b \in Browsers, NEW p \in Providers,
             NEW s \in KnownStates, NEW c \in KnownCodes,
             SendCallback(r, b, p, s, c)
      PROVE  Bound'
  <2>1. Send(r, [kind |-> "callback", browser |-> b, provider |-> p,
                state |-> s, code |-> c, cookie |-> stateCookie[b]])
    BY <1>2 DEF SendCallback
  <2> DEFINE j == [kind |-> "callback", browser |-> b, provider |-> p,
                    state |-> s, code |-> c, cookie |-> stateCookie[b]]
  <2>2. Moves(r, "called", j, held[r], answer[r])
    BY <2>1, SendMoves
  <2>3. j.browser = b /\ j.cookie = stateCookie[b]
    OBVIOUS
  <2>4. UNCHANGED <<stateCookie, flow>>
    BY <2>1 DEF Send, jars, history
  <2> HIDE DEF j
  <2>5. stateCookie[b] # None => BoundTo(stateCookie[b], b)
    OBVIOUS
  <2>6. \A q \in Requests :
          pc'[q] # "idle" /\ job'[q].kind = "callback" /\ job'[q].cookie # None
            => BoundTo(job'[q].cookie, job'[q].browser)
    BY <2>2, <2>3, <2>5 DEF Moves
  <2>7. \A q \in Requests : pc'[q] = "answered" /\ answer'[q].state \in Ids
            => BoundTo(answer'[q].state, job'[q].browser)
    BY <2>2 DEF Moves
  <2> QED BY <2>4, <2>6, <2>7
<1>3. ASSUME NEW r \in Requests, NEW b \in Browsers, SendDenied(r, b) PROVE Bound'
  <2>1. UNCHANGED <<stateCookie, flow>>
    BY <1>3 DEF SendDenied, Send, jars, history
  <2> QED BY <1>3, <2>1, SendMoves DEF SendDenied, Moves
<1>4. ASSUME NEW r \in Requests, NEW b \in Browsers, NEW k \in {"logout", "profile"},
             SendWithSession(r, b, k)
      PROVE  Bound'
  <2>1. UNCHANGED <<stateCookie, flow>>
    BY <1>4 DEF SendWithSession, Send, jars, history
  <2> QED BY <1>4, <2>1, SendMoves DEF SendWithSession, Moves
<1>5. ASSUME NEW r \in Requests, Start(r) PROVE Bound'
  <2>1. CASE Handled(r, {Keep}, {Keep}) /\ UNCHANGED flow
    BY <2>1, ConstantsOK DEF Handled
  <2>2. ASSUME NEW s \in FreshIds, Handled(r, {s}, {Keep}),
               flow' = [flow EXCEPT ![s] = [provider |-> job[r].provider,
                                            browser |-> job[r].browser]]
        PROVE  Bound'
    <3>1. s \in Ids /\ flow[s] = None
      BY DEF FreshIds
    <3>2. [provider |-> job[r].provider, browser |-> job[r].browser] # None
      <4>1. job[r].provider \in Providers /\ job[r].browser \in Browsers
        BY <1>5 DEF Start, Formed, WellFormed, Job, StartFails, SaveState, Known
      <4> QED BY <4>1, ConstantsOK DEF Flow
    <3>3. /\ flow'[s] # None /\ flow'[s].browser = job[r].browser
          /\ \A t \in Ids : t # s => flow'[t] = flow[t]
      BY <2>2, <3>1, <3>2 DEF WorldTyped
    <3>4. \A t \in Ids, b \in Browsers : BoundTo(t, b) => BoundTo(t, b)'
      BY <3>1, <3>3
    <3>5. \A b \in Browsers : stateCookie'[b] # None => BoundTo(stateCookie[b], b)'
      BY <2>2, <3>4 DEF Handled, WorldTyped
    <3>6. \A q \in Requests : pc[q] # "idle" =>
            /\ job[q].browser \in Browsers /\ job[q].cookie \in Ids \cup {None}
      BY DEF Formed, WellFormed, Job
    <3>7. \A q \in Requests : q # r => pc'[q] = pc[q] /\ answer'[q] = answer[q]
      BY <2>2 DEF Handled
    <3>8. \A q \in Requests :
            pc'[q] # "idle" /\ job'[q].kind = "callback" /\ job'[q].cookie # None
              => BoundTo(job[q].cookie, job[q].browser)'
      BY <2>2, <3>4, <3>6, <3>7 DEF Handled
    <3>9. ASSUME NEW q \in Requests, pc'[q] = "answered", answer'[q].state \in Ids
          PROVE  BoundTo(answer[q].state, job[q].browser)'
      <4>1. CASE q = r
        BY <2>2, <3>3, <3>9, <4>1 DEF Handled
      <4>2. CASE q # r
        BY <2>2, <3>4, <3>6, <3>7, <3>9, <4>2 DEF Handled
      <4> QED BY <4>1, <4>2
    <3> QED BY <2>2, <3>5, <3>8, <3>9 DEF Handled
  <2> QED BY <1>5, <2>1, <2>2, StartHandled
<1>6. ASSUME NEW r \in Requests, PlainHandle(r) PROVE Bound'
  <2>1. UNCHANGED flow
    BY <1>6 DEF PlainHandle, CallbackDenied, CallbackMismatch, ConsumeGet, ConsumeDelete,
           Exchange, Identify, Logout, AttachSession, UseSession, history, Known, EndSession, SessionStored
  <2>2. Handled(r, {None, Keep}, {None, Keep})
    BY <1>6, PlainHandled
  <2> QED BY <2>1, <2>2, ConstantsOK DEF Handled
<1>7. ASSUME NEW r \in Requests, StoreSession(r) PROVE Bound'
  <2>1. UNCHANGED flow
    BY <1>7 DEF StoreSession, SaveSession
  <2>2. ASSUME NEW i, Handled(r, {None}, {i}) PROVE Bound'
    BY <2>1, <2>2, ConstantsOK DEF Handled
  <2> QED BY <1>7, <2>2, StoreHandled
<1>8. ASSUME NEW r \in Requests, Deliver(r) PROVE Bound'
  <2>1. UNCHANGED flow /\ Moves(r, "idle", None, held[r], None)
    BY <1>8, RetireMoves DEF Deliver, history
  <2>2. \A b \in Browsers : stateCookie'[b] # None => BoundTo(stateCookie'[b], b)
    <3>1. job[r].browser \in Browsers /\ answer[r].state \in Ids \cup {None, Keep}
      BY <1>8 DEF Deliver, Formed, WellFormed, Job, Answer
    <3>2. stateCookie' = SetCookie(stateCookie, job[r].browser, answer[r].state)
      BY <1>8 DEF Deliver
    <3>3. pc[r] = "answered"
      BY <1>8 DEF Deliver
    <3> QED BY <2>1, <3>1, <3>2, <3>3 DEF SetCookie, WorldTyped
  <2> QED BY <2>1, <2>2 DEF Moves
<1>9. ASSUME NEW r \in Requests, LoseAnswer(r) PROVE Bound'
  <2>1. UNCHANGED <<flow, stateCookie>> /\ Moves(r, "idle", None, held[r], None)
    BY <1>9, RetireMoves DEF LoseAnswer, history, jars
  <2> QED BY <2>1 DEF Moves
<1>10. ASSUME NEW b \in Browsers, LoseCookie(b) PROVE Bound'
  BY <1>10 DEF LoseCookie, server, history, WorldTyped
<1>11. ASSUME NEW s \in Ids, NEW c \in Codes, Authorize(s, c) PROVE Bound'
  BY <1>11 DEF Authorize, server, jars, history
<1>12. ASSUME NEW k \in Keys, Expire(k) PROVE Bound'
  BY <1>12 DEF Expire, jars, history
<1>13. ASSUME Restart PROVE Bound'
  BY <1>13 DEF Restart, jars, history
<1>14. CASE UNCHANGED vars
  BY <1>14 DEF vars, server, jars, history
<1> QED
  BY <1>1, <1>2, <1>3, <1>4, <1>5, <1>6, <1>7, <1>8, <1>9, <1>10, <1>11,
     <1>12, <1>13, <1>14
  DEF Next, Handle, PlainHandle, Browse

\* With what a callback has checked, its record and its cookie agree.
LEMMA BindingFollows ==
  ASSUME WorldTyped, Formed, Minted, Bound
  PROVE  FlowBinding
<1> SUFFICES ASSUME NEW r \in Requests, pc[r] \in {"exchange", "identity", "store"}
             PROVE  /\ flow[job[r].state] = [provider |-> job[r].provider,
                                             browser |-> job[r].browser]
                    /\ held[r].verifier = job[r].state
  BY DEF FlowBinding
<1>1. /\ job[r].state \in Ids /\ job[r].state = job[r].cookie
      /\ job[r].kind = "callback" /\ job[r].cookie # None
  BY DEF Formed, WellFormed, Working, StateMatches, Job
<1>2. /\ flow[job[r].state] # None
      /\ flow[job[r].state].provider = job[r].provider
      /\ held[r].verifier = job[r].state
  BY DEF Minted, Working
<1>3. flow[job[r].state].browser = job[r].browser
  BY <1>1 DEF Bound, BoundTo
<1>4. flow[job[r].state] \in Flow
  BY <1>1, <1>2 DEF WorldTyped
<1> QED BY <1>2, <1>3, <1>4 DEF Flow

-----------------------------------------------------------------------------
(* Sessions                                                                *)

\* A session id is stored before it is handed out, and until its answer has
\* arrived nobody but that answer has it.
Born(i) == origin[i] # None

Carries(r, i) ==
  pc[r] # "idle" /\ job[r].kind \in {"logout", "profile"} /\ job[r].cookie = i

Sessions ==
  /\ \A i \in Ids : Found(cache, SessionKey(i)) => Born(i)
  /\ \A i \in loggedOut : Born(i) /\ ~Found(cache, SessionKey(i))
  /\ \A b \in Browsers : sessionCookie[b] # None => Born(sessionCookie[b])
  /\ \A r \in Requests, i \in Ids : Carries(r, i) => Born(i)
  /\ \A r \in Requests, i \in Ids : pc[r] = "answered" /\ answer[r].session = i =>
       /\ Born(i) /\ i \notin loggedOut
       /\ \A b \in Browsers : sessionCookie[b] # i
       /\ \A q \in Requests : ~Carries(q, i)
       /\ \A q \in Requests : pc[q] = "answered" /\ answer[q].session = i => q = r

\* Steps that neither make a session nor let an id travel.
SessionsKept ==
  /\ UNCHANGED <<origin, loggedOut>>
  /\ \A i \in Ids : cache'[SessionKey(i)] \in {cache[SessionKey(i)], None}
  /\ \A b \in Browsers : sessionCookie'[b] \in {sessionCookie[b], None}
  /\ \A q \in Requests, i \in Ids : Carries(q, i)' => Carries(q, i)
  /\ \A q \in Requests, i \in Ids :
       pc'[q] = "answered" /\ answer'[q].session = i => pc[q] = "answered" /\ answer[q].session = i

\* Steps that leave sessions and their holders alone keep Sessions.
LEMMA SessionsFrame ==
  ASSUME WorldTyped, Sessions, SessionsKept
  PROVE  Sessions'
<1>1. \A i \in Ids : /\ Found(cache, SessionKey(i))' => Found(cache, SessionKey(i))
                     /\ Born(i)' <=> Born(i)
  BY DEF SessionsKept, Found, Born
<1>2. loggedOut \subseteq Ids /\ loggedOut' = loggedOut
  BY DEF WorldTyped, SessionsKept
<1>3. \A b \in Browsers : sessionCookie'[b] # None => origin'[sessionCookie'[b]] # None
  BY DEF SessionsKept, Sessions, Born
<1>4. \A r \in Requests, i \in Ids : Carries(r, i)' => Born(i)'
  BY <1>1 DEF SessionsKept, Sessions
<1>5. ASSUME NEW r \in Requests, NEW i \in Ids,
             pc'[r] = "answered", answer'[r].session = i
      PROVE  /\ Born(i)' /\ i \notin loggedOut'
             /\ \A b \in Browsers : sessionCookie'[b] # i
             /\ \A q \in Requests : ~Carries(q, i)'
             /\ \A q \in Requests : pc'[q] = "answered" /\ answer'[q].session = i => q = r
  <2>1. pc[r] = "answered" /\ answer[r].session = i /\ i # None
    BY <1>5, ConstantsOK DEF SessionsKept
  <2>2. /\ Born(i) /\ i \notin loggedOut
        /\ \A b \in Browsers : sessionCookie[b] # i
        /\ \A q \in Requests : ~Carries(q, i)
        /\ \A q \in Requests : pc[q] = "answered" /\ answer[q].session = i => q = r
    BY <2>1 DEF Sessions
  <2> QED BY <1>1, <1>2, <2>1, <2>2 DEF SessionsKept
<1>6. \A i \in loggedOut' : Born(i)' /\ ~Found(cache, SessionKey(i))'
  BY <1>1, <1>2 DEF Sessions
<1>7. \A i \in Ids : Found(cache, SessionKey(i))' => Born(i)'
  BY <1>1 DEF Sessions
<1>8. \A b \in Browsers : sessionCookie'[b] # None => Born(sessionCookie[b])'
  BY <1>3 DEF Born
<1> QED BY <1>4, <1>5, <1>6, <1>7, <1>8 DEF Sessions

\* The inductive step.
LEMMA SessionsInductive ==
  ASSUME RequestsTyped, WorldTyped, Formed, Sessions, [Next]_vars
  PROVE  Sessions'
<1>1. ASSUME NEW r \in Requests, NEW b \in Browsers, NEW p \in Providers, SendStart(r, b, p)
      PROVE  Sessions'
  <2> DEFINE j == [kind |-> "start", browser |-> b, provider |-> p,
                    state |-> None, code |-> None, cookie |-> None]
  <2>1. Send(r, j) /\ j.kind \notin {"logout", "profile"}
    BY <1>1 DEF SendStart
  <2> HIDE DEF j
  <2>2. Moves(r, "called", j, held[r], answer[r])
    BY <2>1, SendMoves
  <2>3. UNCHANGED <<cache, sessionCookie, origin, loggedOut>>
    BY <2>1 DEF Send, jars, history
  <2>4. SessionsKept
    BY <2>1, <2>2, <2>3 DEF SessionsKept, Moves, Carries
  <2> QED BY <2>4, SessionsFrame
<1>2. ASSUME NEW r \in Requests, NEW b \in Browsers, NEW p \in Providers,
             NEW s \in KnownStates, NEW c \in KnownCodes,
             SendCallback(r, b, p, s, c)
      PROVE  Sessions'
  <2>1. Send(r, [kind |-> "callback", browser |-> b, provider |-> p,
                state |-> s, code |-> c, cookie |-> stateCookie[b]])
    BY <1>2 DEF SendCallback
  <2> DEFINE j == [kind |-> "callback", browser |-> b, provider |-> p,
                    state |-> s, code |-> c, cookie |-> stateCookie[b]]
  <2>2. Send(r, j) /\ j.kind \notin {"logout", "profile"}
    BY <2>1
  <2> HIDE DEF j
  <2>3. Moves(r, "called", j, held[r], answer[r])
    BY <2>2, SendMoves
  <2>4. UNCHANGED <<cache, sessionCookie, origin, loggedOut>>
    BY <2>2 DEF Send, jars, history
  <2>5. SessionsKept
    BY <2>2, <2>3, <2>4 DEF SessionsKept, Moves, Carries
  <2> QED BY <2>5, SessionsFrame
<1>3. ASSUME NEW r \in Requests, NEW b \in Browsers, SendDenied(r, b) PROVE Sessions'
  <2> DEFINE j == [kind |-> "denied", browser |-> b, provider |-> None,
                    state |-> None, code |-> None, cookie |-> None]
  <2>1. Send(r, j) /\ j.kind \notin {"logout", "profile"}
    BY <1>3 DEF SendDenied
  <2> HIDE DEF j
  <2>2. Moves(r, "called", j, held[r], answer[r])
    BY <2>1, SendMoves
  <2>3. UNCHANGED <<cache, sessionCookie, origin, loggedOut>>
    BY <2>1 DEF Send, jars, history
  <2>4. SessionsKept
    BY <2>1, <2>2, <2>3 DEF SessionsKept, Moves, Carries
  <2> QED BY <2>4, SessionsFrame
<1>4. ASSUME NEW r \in Requests, NEW b \in Browsers, NEW k \in {"logout", "profile"},
             SendWithSession(r, b, k)
      PROVE  Sessions'
  <2> DEFINE j == [kind |-> k, browser |-> b, provider |-> None,
                    state |-> None, code |-> None, cookie |-> sessionCookie[b]]
  <2>1. Send(r, j) /\ j.cookie = sessionCookie[b]
    BY <1>4 DEF SendWithSession
  <2> HIDE DEF j
  <2>2. Moves(r, "called", j, held[r], answer[r])
    BY <2>1, SendMoves
  <2>3. UNCHANGED <<cache, sessionCookie, origin, loggedOut>>
    BY <2>1 DEF Send, jars, history
  <2>4. \A q \in Requests, i \in Ids : Carries(q, i)' => Carries(q, i) \/ i = sessionCookie[b]
    BY <2>1, <2>2 DEF Moves, Carries
  <2>5. \A q \in Requests, i \in Ids : Carries(q, i)' => Born(i)
    BY <2>4, ConstantsOK DEF Sessions
  <2>6. \A q \in Requests, i \in Ids : pc'[q] = "answered" /\ answer'[q].session = i
          => pc[q] = "answered" /\ answer[q].session = i
    BY <2>2 DEF Moves
  <2>7. ASSUME NEW q \in Requests, NEW i \in Ids,
               pc'[q] = "answered", answer'[q].session = i
        PROVE  /\ Born(i) /\ i \notin loggedOut
               /\ \A bb \in Browsers : sessionCookie[bb] # i
               /\ \A o \in Requests : ~Carries(o, i)'
               /\ \A o \in Requests : pc'[o] = "answered" /\ answer'[o].session = i => o = q
    BY <2>4, <2>6, <2>7 DEF Sessions
  <2> QED BY <2>3, <2>5, <2>7 DEF Sessions, Born, Found
<1>5. ASSUME NEW r \in Requests, Start(r) PROVE Sessions'
  <2>1. UNCHANGED <<origin, loggedOut>>
    BY <1>5 DEF Start, StartFails, SaveState, Known
  <2>2. ASSUME NEW st, Handled(r, st, {Keep}),
               \A i \in Ids : cache'[SessionKey(i)] = cache[SessionKey(i)]
        PROVE  Sessions'
    <3>1. SessionsKept
      BY <2>1, <2>2, ConstantsOK DEF SessionsKept, Handled, Carries
    <3> QED BY <3>1, SessionsFrame
  <2>3. CASE Handled(r, {Keep}, {Keep}) /\ UNCHANGED cache
    BY <2>2, <2>3
  <2>4. ASSUME NEW s \in FreshIds, Handled(r, {s}, {Keep}),
               cache' = Put(cache, StateKey(s), NewRecord(job[r].provider, s))
        PROVE  Sessions'
    BY <2>2, <2>4, PutState DEF FreshIds
  <2> QED BY <1>5, <2>3, <2>4, StartHandled
<1>6. ASSUME NEW r \in Requests, Logout(r) PROVE Sessions'
  <2>1. Handled(r, {None, Keep}, {None, Keep}) /\ UNCHANGED origin
    BY <1>6, PlainHandled DEF PlainHandle, Logout, EndSession
  <2>2. \A q \in Requests, i \in Ids : /\ Carries(q, i)' => Carries(q, i)
                                       /\ pc'[q] = "answered" /\ answer'[q].session = i
                                            => pc[q] = "answered" /\ answer[q].session = i
    BY <2>1, ConstantsOK DEF Handled, Carries
  <2>3. CASE UNCHANGED <<cache, loggedOut>>
    <3>1. SessionsKept
      BY <2>1, <2>2, <2>3 DEF SessionsKept, Handled
    <3> QED BY <3>1, SessionsFrame
  <2>4. ASSUME job[r].cookie # None,
               cache' = Forget(cache, SessionKey(job[r].cookie)),
               loggedOut' = loggedOut \cup {job[r].cookie}
        PROVE  Sessions'
    <3> DEFINE i == job[r].cookie
    <3>1. i \in Ids /\ Carries(r, i)
      BY <1>6, <2>4 DEF Logout, Formed, WellFormed, Job, Carries, EndSession
    <3>2. Born(i) /\ \A q \in Requests : ~(pc[q] = "answered" /\ answer[q].session = i)
      BY <3>1 DEF Sessions
    <3>3. \A j \in Ids : cache'[SessionKey(j)] = IF j = i THEN None ELSE cache[SessionKey(j)]
      BY <2>4, <3>1, ForgetSession
    <3> HIDE DEF i
    <3>4. \A j \in Ids : Found(cache, SessionKey(j))' => Found(cache, SessionKey(j)) /\ j # i
      BY <3>3 DEF Found
    <3>5. loggedOut' = loggedOut \cup {i} /\ loggedOut \subseteq Ids
      BY <2>4 DEF i, WorldTyped
    <3>6. \A j \in loggedOut' : Born(j)' /\ ~Found(cache, SessionKey(j))'
      BY <2>1, <3>1, <3>2, <3>4, <3>5 DEF Sessions, Born
    <3>7. ASSUME NEW q \in Requests, NEW j \in Ids,
                 pc'[q] = "answered", answer'[q].session = j
          PROVE  /\ Born(j) /\ j \notin loggedOut'
                 /\ \A b \in Browsers : sessionCookie[b] # j
                 /\ \A o \in Requests : ~Carries(o, j)'
                 /\ \A o \in Requests : pc'[o] = "answered" /\ answer'[o].session = j => o = q
      BY <2>2, <3>2, <3>5, <3>7 DEF Sessions
    <3>8. UNCHANGED <<origin, sessionCookie>>
      BY <2>1 DEF Handled
    <3>9. \A j \in Ids : Found(cache, SessionKey(j))' => Born(j)
      BY <3>4 DEF Sessions
    <3>10. \A q \in Requests, j \in Ids : Carries(q, j)' => Born(j)
      BY <2>2 DEF Sessions
    <3> QED BY <3>6, <3>7, <3>8, <3>9, <3>10 DEF Sessions, Born
  <2> QED BY <1>6, <2>3, <2>4 DEF Logout, EndSession
<1>7. ASSUME NEW r \in Requests, PlainHandle(r) PROVE Sessions'
  <2>1. CASE Logout(r)
    BY <1>6, <2>1
  <2>2. CASE ~Logout(r)
    <3>1. Handled(r, {None, Keep}, {None, Keep})
      BY <1>7, PlainHandled
    <3>2. UNCHANGED <<origin, loggedOut>>
      BY <1>7, <2>2 DEF PlainHandle, CallbackDenied, CallbackMismatch, ConsumeGet,
             ConsumeDelete, Exchange, Identify, AttachSession, UseSession, history, Known, SessionStored
    <3>3. \A i \in Ids : cache'[SessionKey(i)] = cache[SessionKey(i)]
      <4>1. CASE ConsumeDelete(r)
        <5>1. job[r].state \in Ids
          BY <4>1 DEF ConsumeDelete, Formed, WellFormed, Working, StateMatches, Job, Known
        <5>2. cache' \in {cache, Forget(cache, StateKey(job[r].state))}
          BY <4>1 DEF ConsumeDelete, Known
        <5> QED BY <5>1, <5>2, ForgetState
      <4>2. CASE ~ConsumeDelete(r)
        BY <1>7, <2>2, <4>2 DEF PlainHandle, CallbackDenied, CallbackMismatch, ConsumeGet,
           Exchange, Identify, AttachSession, UseSession, SessionStored
      <4> QED BY <4>1, <4>2
    <3>4. SessionsKept
      BY <3>1, <3>2, <3>3, ConstantsOK DEF SessionsKept, Handled, Carries
    <3> QED BY <3>4, SessionsFrame
  <2> QED BY <2>1, <2>2
<1>8. ASSUME NEW r \in Requests, StoreSession(r) PROVE Sessions'
  <2>1. UNCHANGED loggedOut
    BY <1>8 DEF StoreSession, SaveSession
  <2>2. CASE Handled(r, {None}, {Keep}) /\ UNCHANGED <<cache, origin>>
    <3>1. SessionsKept
      BY <2>1, <2>2, ConstantsOK DEF SessionsKept, Handled, Carries
    <3> QED BY <3>1, SessionsFrame
  <2>3. ASSUME NEW i \in FreshIds, Handled(r, {None}, {i}),
               cache' = Put(cache, SessionKey(i),
                            [provider |-> job[r].provider, token |-> job[r].code]),
               origin' = [origin EXCEPT ![i] = job[r].code]
        PROVE  Sessions'
    <3>1. i \in Ids /\ ~Born(i)
      BY DEF FreshIds, Born
    <3>2. job[r].code \in Codes
      BY <1>8 DEF StoreSession, Formed, WellFormed, Working, SaveSession
    <3>3. Born(i)' /\ \A j \in Ids : Born(j) => Born(j)'
      BY <2>3, <3>1, <3>2, ConstantsOK DEF Born, WorldTyped
    <3>4. \A j \in Ids : Found(cache, SessionKey(j))' => Found(cache, SessionKey(j)) \/ j = i
      BY <2>3, <3>1, PutSession DEF Found
    <3>5. UNCHANGED <<job, sessionCookie>>
      BY <2>3 DEF Handled
    <3>6. \A q \in Requests, j \in Ids : Carries(q, j)' => Carries(q, j)
      BY <2>3 DEF Handled, Carries
    <3>7. /\ i \notin loggedOut
          /\ \A b \in Browsers : sessionCookie[b] # i
          /\ \A q \in Requests : ~Carries(q, i)
          /\ \A q \in Requests : ~(pc[q] = "answered" /\ answer[q].session = i)
      BY <3>1, ConstantsOK DEF Sessions
    <3>8. \A q \in Requests, j \in Ids : pc'[q] = "answered" /\ answer'[q].session = j
            => \/ q = r /\ j = i
               \/ pc[q] = "answered" /\ answer[q].session = j /\ j # i
      BY <2>3, <3>7 DEF Handled
    <3>9. ASSUME NEW q \in Requests, NEW j \in Ids,
                 pc'[q] = "answered", answer'[q].session = j
          PROVE  /\ Born(j)' /\ j \notin loggedOut
                 /\ \A b \in Browsers : sessionCookie[b] # j
                 /\ \A o \in Requests : ~Carries(o, j)'
                 /\ \A o \in Requests : pc'[o] = "answered" /\ answer'[o].session = j => o = q
      <4>1. CASE q = r /\ j = i
        BY <3>3, <3>6, <3>7, <3>8, <4>1
      <4>2. CASE pc[q] = "answered" /\ answer[q].session = j /\ j # i
        BY <3>3, <3>6, <3>8, <4>2 DEF Sessions
      <4> QED BY <3>8, <3>9, <4>1, <4>2
    <3>10. \A j \in loggedOut : Born(j)' /\ ~Found(cache, SessionKey(j))'
      BY <3>3, <3>4, <3>7 DEF Sessions, WorldTyped
    <3>11. \A b \in Browsers : sessionCookie'[b] # None => Born(sessionCookie[b])'
      <4>1. \A b \in Browsers : sessionCookie[b] # None =>
              sessionCookie[b] \in Ids /\ origin[sessionCookie[b]] # None
        BY DEF Sessions, WorldTyped, Born
      <4>2. \A j \in Ids : origin[j] # None => origin'[j] # None
        BY <3>3 DEF Born
      <4> QED BY <3>5, <4>1, <4>2 DEF Born
    <3>12. \A q \in Requests, j \in Ids : Carries(q, j)' => Born(j)'
      BY <3>3, <3>6 DEF Sessions
    <3>13. \A j \in Ids : Found(cache, SessionKey(j))' => Born(j)'
      BY <3>3, <3>4 DEF Sessions
    <3> QED BY <2>1, <3>5, <3>9, <3>10, <3>11, <3>12, <3>13 DEF Sessions, Born
  <2> QED BY <1>8, <2>2, <2>3, StoreHandled
<1>9. ASSUME NEW r \in Requests, Deliver(r) PROVE Sessions'
  <2>1. UNCHANGED <<cache, origin, loggedOut>> /\ pc[r] = "answered"
    BY <1>9 DEF Deliver, Retire, history
  <2>2. Moves(r, "idle", None, held[r], None)
    BY <1>9, RetireMoves DEF Deliver
  <2>3. job[r].browser \in Browsers /\ answer[r].session \in Ids \cup {None, Keep}
    BY <2>1 DEF Formed, WellFormed, Job, Answer
  <2>4. \A b \in Browsers :
          \/ sessionCookie'[b] \in {sessionCookie[b], None}
          \/ sessionCookie'[b] \in Ids /\ sessionCookie'[b] = answer[r].session
    <3>1. sessionCookie' = SetCookie(sessionCookie, job[r].browser, answer[r].session)
      BY <1>9 DEF Deliver
    <3> QED BY <2>3, <3>1 DEF SetCookie, WorldTyped
  <2>5. \A q \in Requests, i \in Ids : /\ Carries(q, i)' => Carries(q, i)
                                       /\ pc'[q] = "answered" /\ answer'[q].session = i
                                            => q # r /\ pc[q] = "answered" /\ answer[q].session = i
    BY <2>2 DEF Moves, Carries
  <2>6. \A b \in Browsers : sessionCookie'[b] # None => Born(sessionCookie'[b])
    BY <2>1, <2>4 DEF Sessions
  <2>7. ASSUME NEW q \in Requests, NEW i \in Ids,
               pc'[q] = "answered", answer'[q].session = i
        PROVE  /\ Born(i) /\ i \notin loggedOut
               /\ \A b \in Browsers : sessionCookie'[b] # i
               /\ \A o \in Requests : ~Carries(o, i)'
               /\ \A o \in Requests : pc'[o] = "answered" /\ answer'[o].session = i => o = q
    <3>1. q # r /\ pc[q] = "answered" /\ answer[q].session = i /\ i # None
      BY <2>5, <2>7, ConstantsOK
    <3>2. answer[r].session # i
      BY <2>1, <3>1 DEF Sessions
    <3>3. \A b \in Browsers : sessionCookie'[b] # i
      BY <2>4, <3>1, <3>2 DEF Sessions
    <3> QED BY <2>5, <3>1, <3>3 DEF Sessions
  <2>8. \A q \in Requests, i \in Ids : Carries(q, i)' => Born(i)
    BY <2>5 DEF Sessions
  <2> QED BY <2>1, <2>6, <2>7, <2>8 DEF Sessions, Born, Found
<1>10. ASSUME NEW r \in Requests, LoseAnswer(r) PROVE Sessions'
  <2>1. UNCHANGED <<cache, sessionCookie, origin, loggedOut>>
    BY <1>10 DEF LoseAnswer, Retire, jars, history
  <2>2. Moves(r, "idle", None, held[r], None)
    BY <1>10, RetireMoves DEF LoseAnswer
  <2>3. SessionsKept
    BY <2>1, <2>2 DEF SessionsKept, Moves, Carries
  <2> QED BY <2>3, SessionsFrame
<1>11. ASSUME NEW b \in Browsers, LoseCookie(b) PROVE Sessions'
  <2>1. SessionsKept
    BY <1>11 DEF LoseCookie, SessionsKept, Carries, WorldTyped, server, history
  <2> QED BY <2>1, SessionsFrame
<1>12. ASSUME NEW s \in Ids, NEW c \in Codes, Authorize(s, c) PROVE Sessions'
  <2>1. SessionsKept
    BY <1>12 DEF Authorize, SessionsKept, Carries, server, jars, history
  <2> QED BY <2>1, SessionsFrame
<1>13. ASSUME NEW k \in Keys, Expire(k) PROVE Sessions'
  <2>1. \A i \in Ids : cache'[SessionKey(i)] \in {cache[SessionKey(i)], None}
    BY <1>13, KeyFacts DEF Expire, Forget, WorldTyped
  <2>2. SessionsKept
    BY <1>13, <2>1 DEF Expire, SessionsKept, Carries, jars, history
  <2> QED BY <2>2, SessionsFrame
<1>14. ASSUME Restart PROVE Sessions'
  <2>1. \A i \in Ids : cache'[SessionKey(i)] \in {cache[SessionKey(i)], None}
    BY <1>14, KeyFacts DEF Restart, EmptyCache
  <2>2. SessionsKept
    BY <1>14, <2>1 DEF Restart, SessionsKept, Carries, jars, history
  <2> QED BY <2>2, SessionsFrame
<1>15. CASE UNCHANGED vars
  <2>1. SessionsKept
    BY <1>15 DEF SessionsKept, Carries, vars, server, jars, history
  <2> QED BY <2>1, SessionsFrame
<1> QED
  BY <1>1, <1>2, <1>3, <1>4, <1>5, <1>6, <1>7, <1>8, <1>9, <1>10, <1>11,
     <1>12, <1>13, <1>14, <1>15
  DEF Next, Handle, PlainHandle, Browse

-----------------------------------------------------------------------------
(* The sessions of AuthFlow are tickets of TicketLife                      *)

Life == [i \in Ids |-> IF Found(cache, SessionKey(i)) THEN "live"
                       ELSE IF origin[i] = None THEN "unborn" ELSE "ended"]

\* A step that at most removes sessions from the cache ends them.
LEMMA EndStep ==
  ASSUME WorldTyped, Sessions, UNCHANGED <<origin, sessionCookie>>,
         \A i \in Ids : cache'[SessionKey(i)] \in {cache[SessionKey(i)], None}
  PROVE  [SL!Next]_(SL!vars)
<1>1. \A i \in Ids : /\ Found(cache, SessionKey(i))' => Found(cache, SessionKey(i))
                     /\ Found(cache, SessionKey(i)) => origin[i] # None
  BY DEF Found, Sessions, Born
<1>2. PICK S \in SUBSET Ids :
        \A i \in Ids : i \in S <=> Found(cache, SessionKey(i)) /\ ~Found(cache, SessionKey(i))'
  <2> DEFINE T == {i \in Ids : Found(cache, SessionKey(i)) /\ ~Found(cache, SessionKey(i))'}
  <2>1. /\ T \in SUBSET Ids
        /\ \A i \in Ids : i \in T <=> Found(cache, SessionKey(i)) /\ ~Found(cache, SessionKey(i))'
    OBVIOUS
  <2> HIDE DEF T
  <2> QED BY <2>1
<1>3. Life' = [i \in Ids |-> IF i \in S THEN "ended" ELSE Life[i]]
  BY <1>1, <1>2 DEF Life
<1>4. \A i \in S : Life[i] = "live"
  BY <1>2 DEF Life
<1>5. sessionCookie' = [b \in Browsers |-> IF b \in {} THEN None ELSE sessionCookie[b]]
  BY DEF WorldTyped
<1>6. SL!Lapse(S, {})
  BY <1>3, <1>4, <1>5 DEF SL!Lapse, Life
<1> QED BY <1>2, <1>6 DEF SL!Next

\* A step that writes the cookie of one browser hands it a born id, or drops
\* what it had.
LEMMA JarStep ==
  ASSUME WorldTyped, UNCHANGED <<cache, origin>>, NEW b \in Browsers, NEW v,
         v = None \/ (v \in Ids /\ origin[v] # None),
         sessionCookie' = [sessionCookie EXCEPT ![b] = v]
  PROVE  [SL!Next]_(SL!vars)
<1>1. Life' = Life
  BY DEF Life, Found
<1>2. CASE v = None
  <2>1. sessionCookie' = [d \in Browsers |-> IF d \in {b} THEN None ELSE sessionCookie[d]]
    BY <1>2 DEF WorldTyped
  <2>2. Life' = [i \in Ids |-> IF i \in {} THEN "ended" ELSE Life[i]]
    BY <1>1 DEF Life
  <2>3. SL!Lapse({}, {b})
    BY <2>1, <2>2 DEF SL!Lapse, Life
  <2> QED BY <2>3 DEF SL!Next
<1>3. CASE v \in Ids /\ origin[v] # None
  <2>1. Life[v] # "unborn"
    BY <1>3 DEF Life
  <2>2. SL!Hand(b, v)
    BY <1>1, <2>1 DEF SL!Hand, Life
  <2> QED BY <1>3, <2>2 DEF SL!Next
<1> QED BY <1>2, <1>3

\* Every step of the login is a step of TicketLife or leaves it alone.
LEMMA StepSimulation ==
  ASSUME RequestsTyped, WorldTyped, Formed, Sessions, [Next]_vars
  PROVE  [SL!Next]_(SL!vars)
<1>1. ASSUME NEW r \in Requests, NEW b \in Browsers, NEW p \in Providers, SendStart(r, b, p)
      PROVE  [SL!Next]_(SL!vars)
  <2>1. UNCHANGED <<cache, origin, sessionCookie>>
    BY <1>1 DEF SendStart, Send, jars, history
  <2> QED BY <2>1, EndStep
<1>2. ASSUME NEW r \in Requests, NEW b \in Browsers, NEW p \in Providers,
             NEW s \in KnownStates, NEW c \in KnownCodes,
             SendCallback(r, b, p, s, c)
      PROVE  [SL!Next]_(SL!vars)
  <2>1. UNCHANGED <<cache, origin, sessionCookie>>
    BY <1>2 DEF SendCallback, Send, jars, history
  <2> QED BY <2>1, EndStep
<1>3. ASSUME NEW r \in Requests, NEW b \in Browsers, SendDenied(r, b)
      PROVE  [SL!Next]_(SL!vars)
  <2>1. UNCHANGED <<cache, origin, sessionCookie>>
    BY <1>3 DEF SendDenied, Send, jars, history
  <2> QED BY <2>1, EndStep
<1>4. ASSUME NEW r \in Requests, NEW b \in Browsers, NEW k \in {"logout", "profile"},
             SendWithSession(r, b, k)
      PROVE  [SL!Next]_(SL!vars)
  <2>1. UNCHANGED <<cache, origin, sessionCookie>>
    BY <1>4 DEF SendWithSession, Send, jars, history
  <2> QED BY <2>1, EndStep
<1>5. ASSUME NEW r \in Requests, Start(r) PROVE [SL!Next]_(SL!vars)
  <2>1. UNCHANGED <<origin, sessionCookie>>
    BY <1>5 DEF Start, jars, StartFails, SaveState, Known
  <2>2. \A i \in Ids : cache'[SessionKey(i)] = cache[SessionKey(i)]
    BY <1>5, StartHandled, PutState DEF FreshIds
  <2> QED BY <2>1, <2>2, EndStep
<1>6. ASSUME NEW r \in Requests, Logout(r) PROVE [SL!Next]_(SL!vars)
  <2>1. UNCHANGED <<origin, sessionCookie>>
    BY <1>6 DEF Logout, jars, EndSession
  <2>2. \A i \in Ids : cache'[SessionKey(i)] \in {cache[SessionKey(i)], None}
    <3>1. job[r].cookie \in Ids \cup {None}
      BY <1>6 DEF Logout, Formed, WellFormed, Job, EndSession
    <3>2. CASE UNCHANGED cache
      BY <3>2
    <3>3. CASE /\ job[r].cookie \in Ids
               /\ cache' = Forget(cache, SessionKey(job[r].cookie))
      BY <3>3, ForgetSession
    <3> QED BY <1>6, <3>1, <3>2, <3>3 DEF Logout, EndSession
  <2> QED BY <2>1, <2>2, EndStep
<1>7. ASSUME NEW r \in Requests, PlainHandle(r) PROVE [SL!Next]_(SL!vars)
  <2>1. UNCHANGED <<origin, sessionCookie>>
    BY <1>7 DEF PlainHandle, CallbackDenied, CallbackMismatch, ConsumeGet, ConsumeDelete,
       Exchange, Identify, Logout, AttachSession, UseSession, jars, history, Known, EndSession, SessionStored
  <2>2. CASE ConsumeDelete(r)
    <3>1. job[r].state \in Ids
      BY <2>2 DEF ConsumeDelete, Formed, WellFormed, Working, StateMatches, Job, Known
    <3>2. cache' \in {cache, Forget(cache, StateKey(job[r].state))}
      BY <2>2 DEF ConsumeDelete, Known
    <3>3. \A i \in Ids : cache'[SessionKey(i)] = cache[SessionKey(i)]
      BY <3>1, <3>2, ForgetState
    <3> QED BY <2>1, <3>3, EndStep
  <2>3. CASE ~ConsumeDelete(r) /\ ~Logout(r)
    <3>1. UNCHANGED cache
      BY <1>7, <2>3 DEF PlainHandle, CallbackDenied, CallbackMismatch, ConsumeGet,
         Exchange, Identify, AttachSession, UseSession, SessionStored
    <3> QED BY <2>1, <3>1, EndStep
  <2> QED BY <1>6, <2>2, <2>3
<1>8. ASSUME NEW r \in Requests, StoreSession(r) PROVE [SL!Next]_(SL!vars)
  <2>1. UNCHANGED sessionCookie
    BY <1>8 DEF StoreSession, jars, SaveSession
  <2>2. CASE UNCHANGED <<cache, origin>>
    BY <2>1, <2>2, EndStep
  <2>3. ASSUME NEW i \in FreshIds,
               cache' = Put(cache, SessionKey(i),
                            [provider |-> job[r].provider, token |-> job[r].code]),
               origin' = [origin EXCEPT ![i] = job[r].code]
        PROVE  [SL!Next]_(SL!vars)
    <3>1. i \in Ids /\ origin[i] = None /\ ~Found(cache, SessionKey(i))
      BY DEF FreshIds, Sessions, Born
    <3>2. [provider |-> job[r].provider, token |-> job[r].code] # None
      <4>1. job[r].provider \in Providers /\ job[r].code \in Codes
        BY <1>8 DEF StoreSession, Formed, WellFormed, Working, SaveSession
      <4> QED BY <4>1, ConstantsOK DEF SessionRecord
    <3>3. \A j \in Ids : Found(cache, SessionKey(j))' <=> Found(cache, SessionKey(j)) \/ j = i
      BY <2>3, <3>1, <3>2, PutSession DEF Found
    <3>4. \A j \in Ids : j # i => origin'[j] = origin[j]
      BY <2>3 DEF WorldTyped
    <3>5. Life' = [Life EXCEPT ![i] = "live"]
      BY <3>1, <3>3, <3>4 DEF Life
    <3>6. Life[i] = "unborn"
      BY <3>1 DEF Life
    <3>7. SL!Create(i)
      BY <2>1, <3>5, <3>6 DEF SL!Create, Life
    <3> QED BY <3>1, <3>7 DEF SL!Next
  <2> QED BY <1>8, <2>2, <2>3, StoreHandled
<1>9. ASSUME NEW r \in Requests, Deliver(r) PROVE [SL!Next]_(SL!vars)
  <2>1. UNCHANGED <<cache, origin>> /\ pc[r] = "answered"
    BY <1>9 DEF Deliver, Retire, history
  <2>2. job[r].browser \in Browsers /\ answer[r].session \in Ids \cup {None, Keep}
    BY <2>1 DEF Formed, WellFormed, Job, Answer
  <2>3. sessionCookie' = SetCookie(sessionCookie, job[r].browser, answer[r].session)
    BY <1>9 DEF Deliver
  <2>4. CASE answer[r].session = Keep
    BY <2>1, <2>3, <2>4, EndStep DEF SetCookie
  <2>5. CASE answer[r].session # Keep
    <3>1. sessionCookie' = [sessionCookie EXCEPT ![job[r].browser] = answer[r].session]
      BY <2>3, <2>5 DEF SetCookie
    <3>2. answer[r].session = None \/ (answer[r].session \in Ids /\ origin[answer[r].session] # None)
      BY <2>1, <2>2, <2>5 DEF Sessions, Born
    <3> QED BY <2>1, <2>2, <3>1, <3>2, JarStep
  <2> QED BY <2>4, <2>5
<1>10. ASSUME NEW r \in Requests, LoseAnswer(r) PROVE [SL!Next]_(SL!vars)
  <2>1. UNCHANGED <<cache, origin, sessionCookie>>
    BY <1>10 DEF LoseAnswer, Retire, jars, history
  <2> QED BY <2>1, EndStep
<1>11. ASSUME NEW b \in Browsers, LoseCookie(b) PROVE [SL!Next]_(SL!vars)
  <2>1. UNCHANGED <<cache, origin>>
    BY <1>11 DEF LoseCookie, server, history
  <2>2. CASE UNCHANGED sessionCookie
    BY <2>1, <2>2, EndStep
  <2>3. CASE sessionCookie' = [sessionCookie EXCEPT ![b] = None]
    BY <2>1, <2>3, JarStep
  <2> QED BY <1>11, <2>2, <2>3 DEF LoseCookie
<1>12. ASSUME NEW s \in Ids, NEW c \in Codes, Authorize(s, c) PROVE [SL!Next]_(SL!vars)
  <2>1. UNCHANGED <<cache, origin, sessionCookie>>
    BY <1>12 DEF Authorize, server, jars, history
  <2> QED BY <2>1, EndStep
<1>13. ASSUME NEW k \in Keys, Expire(k) PROVE [SL!Next]_(SL!vars)
  <2>1. \A i \in Ids : cache'[SessionKey(i)] \in {cache[SessionKey(i)], None}
    BY <1>13, KeyFacts DEF Expire, Forget, WorldTyped
  <2>2. UNCHANGED <<origin, sessionCookie>>
    BY <1>13 DEF Expire, jars, history
  <2> QED BY <2>1, <2>2, EndStep
<1>14. ASSUME Restart PROVE [SL!Next]_(SL!vars)
  <2>1. \A i \in Ids : cache'[SessionKey(i)] \in {cache[SessionKey(i)], None}
    BY <1>14, KeyFacts DEF Restart, EmptyCache
  <2>2. UNCHANGED <<origin, sessionCookie>>
    BY <1>14 DEF Restart, jars, history
  <2> QED BY <2>1, <2>2, EndStep
<1>15. CASE UNCHANGED vars
  <2>1. UNCHANGED <<cache, origin, sessionCookie>>
    BY <1>15 DEF vars, server, jars, history
  <2> QED BY <2>1, EndStep
<1> QED
  BY <1>1, <1>2, <1>3, <1>4, <1>5, <1>6, <1>7, <1>8, <1>9, <1>10, <1>11,
     <1>12, <1>13, <1>14, <1>15
  DEF Next, Handle, PlainHandle, Browse

\* The initial states map to the initial state of TicketLife.
LEMMA InitSimulation == Init => SL!Init
<1> SUFFICES ASSUME Init PROVE SL!Init
  OBVIOUS
<1>1. Life = [i \in Ids |-> "unborn"]
  BY KeyFacts DEF Init, Life, Found, EmptyCache
<1> QED BY <1>1 DEF Init, SL!Init, Life

-----------------------------------------------------------------------------
(* The states of AuthFlow are tickets of TicketLife too                    *)

StateLife == [s \in Ids |-> IF Found(cache, StateKey(s)) THEN "live"
                            ELSE IF flow[s] = None THEN "unborn" ELSE "ended"]

\* A step that at most takes states from the cache and cookies from jars is
\* a lapse.
LEMMA StateLapse ==
  ASSUME WorldTyped, WorldTyped', Minted, UNCHANGED flow,
         \A s \in Ids : cache'[StateKey(s)] \in {cache[StateKey(s)], None},
         \A b \in Browsers : stateCookie'[b] \in {stateCookie[b], None}
  PROVE  [ST!Next]_(ST!vars)
<1>1. \A s \in Ids : /\ Found(cache, StateKey(s))' => Found(cache, StateKey(s))
                     /\ Found(cache, StateKey(s)) => flow[s] # None
  BY DEF Found, Minted
<1>2. PICK T \in SUBSET Ids :
        \A s \in Ids : s \in T <=> Found(cache, StateKey(s)) /\ ~Found(cache, StateKey(s))'
  <2> DEFINE U == {s \in Ids : Found(cache, StateKey(s)) /\ ~Found(cache, StateKey(s))'}
  <2>1. U \in SUBSET Ids
    OBVIOUS
  <2> QED BY <2>1
<1>3. PICK D \in SUBSET Browsers : \A b \in Browsers : b \in D <=> stateCookie'[b] = None
  <2> DEFINE E == {b \in Browsers : stateCookie'[b] = None}
  <2>1. E \in SUBSET Browsers
    OBVIOUS
  <2> QED BY <2>1
<1>4. \A s \in T : StateLife[s] = "live"
  BY <1>2 DEF StateLife
<1>5. StateLife' = [s \in Ids |-> IF s \in T THEN "ended" ELSE StateLife[s]]
  BY <1>1, <1>2 DEF StateLife
<1>6. stateCookie' = [b \in Browsers |-> IF b \in D THEN None ELSE stateCookie[b]]
  BY <1>3 DEF WorldTyped
<1>7. ST!Lapse(T, D)
  BY <1>4, <1>5, <1>6 DEF ST!Lapse, StateLife
<1> QED BY <1>7 DEF ST!Next

\* Only Start stores a state, and only an answer brings a browser its id.
LEMMA StatesOnlyGo ==
  ASSUME RequestsTyped, WorldTyped, Formed, Next,
         \A r \in Requests : ~Start(r) /\ ~Deliver(r)
  PROVE  /\ UNCHANGED flow
         /\ \A s \in Ids : cache'[StateKey(s)] \in {cache[StateKey(s)], None}
         /\ \A b \in Browsers : stateCookie'[b] \in {stateCookie[b], None}
<1> DEFINE Goal == /\ UNCHANGED flow
                   /\ \A s \in Ids : cache'[StateKey(s)] \in {cache[StateKey(s)], None}
                   /\ \A b \in Browsers : stateCookie'[b] \in {stateCookie[b], None}
<1>1. ASSUME NEW r \in Requests, Browse(r) \/ LoseAnswer(r) PROVE Goal
  BY <1>1 DEF Browse, SendStart, SendCallback, SendDenied, SendWithSession, Send,
              LoseAnswer, Retire, jars, history
<1>2. ASSUME NEW r \in Requests, ConsumeDelete(r) PROVE Goal
  <2>1. job[r].state \in Ids /\ UNCHANGED <<flow, stateCookie>>
    BY <1>2 DEF ConsumeDelete, Formed, WellFormed, Working, StateMatches, Job, jars
  <2>2. cache' \in {cache, Forget(cache, StateKey(job[r].state))}
    BY <1>2 DEF ConsumeDelete
  <2> QED BY <2>1, <2>2, ForgetState
<1>3. ASSUME NEW r \in Requests, Logout(r) PROVE Goal
  <2>1. job[r].cookie \in Ids \cup {None} /\ UNCHANGED <<flow, stateCookie>>
    BY <1>3 DEF Logout, Formed, WellFormed, Job, jars
  <2>2. UNCHANGED cache \/ /\ job[r].cookie \in Ids
                           /\ cache' = Forget(cache, SessionKey(job[r].cookie))
    BY <1>3, <2>1 DEF Logout, EndSession
  <2> QED BY <2>1, <2>2, ForgetSession
<1>4. ASSUME NEW r \in Requests, StoreSession(r) PROVE Goal
  <2>1. UNCHANGED <<flow, stateCookie>>
    BY <1>4 DEF StoreSession, jars
  <2>2. UNCHANGED cache \/ \E i \in FreshIds :
           cache' = Put(cache, SessionKey(i), [provider |-> job[r].provider, token |-> job[r].code])
    BY <1>4, StoreHandled
  <2> QED BY <2>1, <2>2, PutSession DEF FreshIds
<1>5. ASSUME NEW r \in Requests, PlainHandle(r), ~ConsumeDelete(r), ~Logout(r) PROVE Goal
  BY <1>5 DEF PlainHandle, CallbackDenied, CallbackMismatch, ConsumeGet, Exchange, Identify,
              AttachSession, UseSession, jars, history
<1>6. ASSUME NEW b \in Browsers, LoseCookie(b) PROVE Goal
  BY <1>6 DEF LoseCookie, server, history, WorldTyped
<1>7. ASSUME NEW s \in Ids, NEW c \in Codes, Authorize(s, c) PROVE Goal
  BY <1>7 DEF Authorize, server, jars, history
<1>8. ASSUME NEW k \in Keys, Expire(k) PROVE Goal
  BY <1>8, KeyFacts DEF Expire, Forget, WorldTyped, jars, history
<1>9. CASE Restart
  BY <1>9, KeyFacts DEF Restart, EmptyCache, jars, history
<1> QED
  BY <1>1, <1>2, <1>3, <1>4, <1>5, <1>6, <1>7, <1>8, <1>9
  DEF Next, Handle, PlainHandle

\* Every step of the login is a step of TicketLife, as its states see it.
LEMMA StateSimulation ==
  ASSUME RequestsTyped, WorldTyped, WorldTyped', Formed, Minted, Bound, [Next]_vars
  PROVE  [ST!Next]_(ST!vars)
<1>1. CASE UNCHANGED vars
  BY <1>1, StateLapse DEF vars, server, jars, history
<1>2. CASE Next /\ \A r \in Requests : ~Start(r) /\ ~Deliver(r)
  BY <1>2, StatesOnlyGo, StateLapse
<1>3. ASSUME NEW r \in Requests, Start(r) PROVE [ST!Next]_(ST!vars)
  <2>1. UNCHANGED stateCookie
    BY <1>3 DEF Start, jars
  <2>2. CASE UNCHANGED <<cache, flow>>
    BY <2>1, <2>2, StateLapse
  <2>3. ASSUME NEW s \in FreshIds,
               cache' = Put(cache, StateKey(s), NewRecord(job[r].provider, s)),
               flow' = [flow EXCEPT ![s] = [provider |-> job[r].provider,
                                            browser |-> job[r].browser]]
        PROVE  [ST!Next]_(ST!vars)
    <3>1. s \in Ids /\ flow[s] = None /\ ~Found(cache, StateKey(s))
      BY DEF FreshIds, Minted
    <3>2. NewRecord(job[r].provider, s) # None
      <4>1. job[r].provider \in Providers
        BY <1>3 DEF Start, Formed, WellFormed
      <4> QED BY <3>1, <4>1, ConstantsOK DEF NewRecord, StateRecord
    <3>3. \A t \in Ids : Found(cache, StateKey(t))' <=> Found(cache, StateKey(t)) \/ t = s
      BY <2>3, <3>1, <3>2, PutState DEF Found
    <3>4. \A t \in Ids : t # s => flow'[t] = flow[t]
      BY <2>3 DEF WorldTyped
    <3>5. StateLife' = [StateLife EXCEPT ![s] = "live"] /\ StateLife[s] = "unborn"
      BY <3>1, <3>3, <3>4 DEF StateLife
    <3>6. ST!Create(s)
      BY <2>1, <3>5 DEF ST!Create, StateLife
    <3> QED BY <3>1, <3>6 DEF ST!Next
  <2> QED BY <1>3, <2>2, <2>3, StartHandled
<1>4. ASSUME NEW r \in Requests, Deliver(r) PROVE [ST!Next]_(ST!vars)
  <2>1. UNCHANGED <<cache, flow>> /\ pc[r] = "answered"
    BY <1>4 DEF Deliver, Retire, history
  <2>2. job[r].browser \in Browsers /\ answer[r].state \in Ids \cup {None, Keep}
    BY <2>1 DEF Formed, WellFormed, Job, Answer
  <2>3. stateCookie' = SetCookie(stateCookie, job[r].browser, answer[r].state)
    BY <1>4 DEF Deliver
  <2>4. CASE answer[r].state \in {None, Keep}
    BY <2>1, <2>2, <2>3, <2>4, StateLapse DEF SetCookie, WorldTyped
  <2>5. CASE answer[r].state \in Ids
    <3>1. flow[answer[r].state] # None
      BY <2>1, <2>5 DEF Bound, BoundTo
    <3>2. StateLife[answer[r].state] # "unborn" /\ StateLife' = StateLife
      BY <2>1, <2>5, <3>1 DEF StateLife, Found
    <3>3. stateCookie' = [stateCookie EXCEPT ![job[r].browser] = answer[r].state]
      BY <2>3, <2>5, ConstantsOK DEF SetCookie
    <3>4. ST!Hand(job[r].browser, answer[r].state)
      BY <3>2, <3>3 DEF ST!Hand, StateLife
    <3> QED BY <2>2, <2>5, <3>4 DEF ST!Next
  <2> QED BY <2>2, <2>4, <2>5
<1> QED BY <1>1, <1>2, <1>3, <1>4

\* The initial states map to the initial state of TicketLife.
LEMMA StateInit == Init => ST!Init
<1> SUFFICES ASSUME Init PROVE ST!Init
  OBVIOUS
<1>1. StateLife = [s \in Ids |-> "unborn"]
  BY KeyFacts DEF Init, StateLife, Found, EmptyCache
<1> QED BY <1>1 DEF Init, ST!Init, StateLife

-----------------------------------------------------------------------------
(* Codes, and whose login a session is                                     *)

Redeemed == {"identity", "store"}

\* A code is burned before a session is made from it, by one request only.
Spent ==
  /\ \A i \in Ids : Born(i) => origin[i] \in burned
  /\ \A r \in Requests : pc[r] \in Redeemed =>
       /\ job[r].code \in burned
       /\ \A i \in Ids : origin[i] # job[r].code
       /\ \A q \in Requests : pc[q] \in Redeemed /\ job[q].code = job[r].code => q = r

\* Code c was issued for a flow that browser b, or provider p, is part of.
By(c, b)   == issued[c] \in Ids /\ flow[issued[c]] # None /\ flow[issued[c]].browser = b
From(c, p) == issued[c] \in Ids /\ flow[issued[c]] # None /\ flow[issued[c]].provider = p

\* A session id is only with the browser whose login made the session, on
\* every stage of its way.
Logins ==
  /\ \A r \in Requests : pc[r] \in Redeemed => issued[job[r].code] = job[r].state
  /\ \A i \in Ids : Found(cache, SessionKey(i)) =>
       /\ cache[SessionKey(i)].token = origin[i]
       /\ From(origin[i], cache[SessionKey(i)].provider)
  /\ \A b \in Browsers : sessionCookie[b] # None => By(origin[sessionCookie[b]], b)
  /\ \A r \in Requests, i \in Ids : Carries(r, i) => By(origin[i], job[r].browser)
  /\ \A r \in Requests, i \in Ids : pc[r] = "answered" /\ answer[r].session = i =>
       By(origin[i], job[r].browser)
  /\ \A r \in Requests : pc[r] = "using" =>
       By(held[r].token, job[r].browser) /\ From(held[r].token, held[r].provider)

\* The flow of an issued code never changes.
LEMMA IssuedFixed ==
  ASSUME WorldTyped, [Next]_vars, NEW c \in Codes, issued[c] # None
  PROVE  issued'[c] = issued[c]
<1>1. ASSUME NEW r \in Requests, Browse(r) \/ Deliver(r) \/ LoseAnswer(r)
      PROVE  UNCHANGED issued
  BY <1>1 DEF Browse, SendStart, SendCallback, SendDenied, SendWithSession, Send,
              Deliver, LoseAnswer, Retire, provider
<1>2. ASSUME NEW r \in Requests, Handle(r) PROVE UNCHANGED issued
  BY <1>2 DEF Handle, Start, CallbackDenied, CallbackMismatch, ConsumeGet, ConsumeDelete,
              Exchange, Identify, StoreSession, Logout, AttachSession, UseSession, provider, StartFails, SaveState, Known, SaveSession, EndSession, SessionStored
<1>3. ASSUME NEW b \in Browsers, LoseCookie(b) PROVE UNCHANGED issued
  BY <1>3 DEF LoseCookie, provider
<1>4. ASSUME NEW s \in Ids, NEW d \in Codes, Authorize(s, d)
      PROVE  issued'[c] = issued[c]
  BY <1>4 DEF Authorize, WorldTyped
<1>5. ASSUME NEW k \in Keys, Expire(k) PROVE UNCHANGED issued
  BY <1>5 DEF Expire, provider
<1>6. CASE Restart \/ UNCHANGED vars
  BY <1>6 DEF Restart, provider, vars
<1> QED BY <1>1, <1>2, <1>3, <1>4, <1>5, <1>6 DEF Next

\* Whose login a code belongs to never changes, once it has been issued.
LEMMA LoginFixed ==
  ASSUME WorldTyped, [Next]_vars, NEW c \in Codes
  PROVE  /\ \A b \in Browsers : By(c, b) => By(c, b)'
         /\ \A p \in Providers : From(c, p) => From(c, p)'
<1>1. CASE issued[c] \in Ids /\ flow[issued[c]] # None
  <2>1. issued'[c] = issued[c]
    BY <1>1, IssuedFixed, ConstantsOK
  <2>2. flow'[issued[c]] = flow[issued[c]]
    BY <1>1, FlowFixed
  <2> QED BY <2>1, <2>2 DEF By, From
<1>2. CASE ~(issued[c] \in Ids /\ flow[issued[c]] # None)
  BY <1>2 DEF By, From
<1> QED BY <1>1, <1>2

\* Most steps redeem no code and let no session id travel.
LoginsKept ==
  /\ UNCHANGED origin
  /\ burned \subseteq burned'
  /\ \A i \in Ids : cache'[SessionKey(i)] \in {cache[SessionKey(i)], None}
  /\ \A b \in Browsers : sessionCookie'[b] \in {sessionCookie[b], None}
  /\ \A q \in Requests : pc'[q] \in Redeemed => pc[q] \in Redeemed /\ job'[q] = job[q]
  /\ \A q \in Requests : pc'[q] = "using" =>
       pc[q] = "using" /\ job'[q] = job[q] /\ held'[q] = held[q]
  /\ \A q \in Requests, i \in Ids : Carries(q, i)' => Carries(q, i) /\ job'[q] = job[q]
  /\ \A q \in Requests, i \in Ids : pc'[q] = "answered" /\ answer'[q].session = i =>
       pc[q] = "answered" /\ answer[q].session = i /\ job'[q] = job[q]

\* Steps that burn no code and make no session keep Spent.
LEMMA SpentFrame ==
  ASSUME Spent, LoginsKept
  PROVE  Spent'
BY DEF Spent, LoginsKept, Born

\* The types that the facts about logins need.
LEMMA LoginTypes ==
  ASSUME RequestsTyped, WorldTyped, Formed, Sessions
  PROVE  /\ \A i \in Ids : Born(i) => origin[i] \in Codes
         /\ \A r \in Requests : pc[r] # "idle" => job[r].browser \in Browsers
         /\ \A r \in Requests : pc[r] \in Redeemed =>
              job[r].code \in Codes /\ job[r].state \in Ids
         /\ \A r \in Requests : pc[r] = "using" =>
              held[r].token \in Codes /\ held[r].provider \in Providers
         /\ \A i \in Ids : Found(cache, SessionKey(i)) =>
              Born(i) /\ cache[SessionKey(i)].provider \in Providers
<1>1. \A i \in Ids : Born(i) => origin[i] \in Codes
  BY DEF Born, WorldTyped
<1>2. \A r \in Requests : pc[r] # "idle" => job[r].browser \in Browsers
  BY DEF Formed, WellFormed, Job
<1>3. \A r \in Requests : pc[r] \in Redeemed => job[r].code \in Codes /\ job[r].state \in Ids
  BY DEF Formed, WellFormed, Job, Redeemed, Working, StateMatches
<1>4. \A r \in Requests : pc[r] = "using" =>
        held[r].token \in Codes /\ held[r].provider \in Providers
  BY DEF Formed, WellFormed, SessionRecord
<1>5. \A i \in Ids : Found(cache, SessionKey(i)) =>
        Born(i) /\ cache[SessionKey(i)].provider \in Providers
  BY DEF Sessions, WorldTyped, Found, SessionRecord
<1> QED BY <1>1, <1>2, <1>3, <1>4, <1>5

\* Steps that hand out nothing new keep Logins.
LEMMA LoginsFrame ==
  ASSUME RequestsTyped, WorldTyped, Formed, Sessions, Logins, LoginsKept, [Next]_vars
  PROVE  Logins'
<1> USE LoginTypes
<1>1. \A r \in Requests : pc'[r] \in Redeemed => issued'[job'[r].code] = job'[r].state
  <2> SUFFICES ASSUME NEW r \in Requests, pc'[r] \in Redeemed
               PROVE  issued'[job[r].code] = job[r].state /\ job'[r] = job[r]
    OBVIOUS
  <2>1. pc[r] \in Redeemed /\ job'[r] = job[r]
    BY DEF LoginsKept
  <2>2. issued[job[r].code] = job[r].state /\ job[r].state # None
    BY <2>1, ConstantsOK DEF Logins
  <2> QED BY <2>1, <2>2, IssuedFixed
<1>2. \A i \in Ids : Found(cache, SessionKey(i))' =>
        /\ cache'[SessionKey(i)].token = origin'[i]
        /\ From(origin[i], cache[SessionKey(i)].provider)'
  <2> SUFFICES ASSUME NEW i \in Ids, Found(cache, SessionKey(i))'
               PROVE  /\ cache'[SessionKey(i)].token = origin'[i]
                      /\ From(origin[i], cache[SessionKey(i)].provider)'
    OBVIOUS
  <2>1. /\ cache'[SessionKey(i)] = cache[SessionKey(i)] /\ origin' = origin
        /\ Found(cache, SessionKey(i))
    BY DEF LoginsKept, Found
  <2>2. origin[i] \in Codes /\ cache[SessionKey(i)].provider \in Providers
    BY <2>1
  <2>3. cache[SessionKey(i)].token = origin[i] /\ From(origin[i], cache[SessionKey(i)].provider)
    BY <2>1 DEF Logins
  <2> DEFINE c == origin[i]
             p == cache[SessionKey(i)].provider
  <2>4. issued'[c] = issued[c] /\ flow'[issued[c]] = flow[issued[c]]
    BY <2>2, <2>3, IssuedFixed, FlowFixed, ConstantsOK DEF From
  <2> QED BY <2>1, <2>3, <2>4 DEF From
<1>3. \A b \in Browsers : sessionCookie'[b] # None => By(origin[sessionCookie[b]], b)'
  <2> SUFFICES ASSUME NEW b \in Browsers, sessionCookie'[b] # None
               PROVE  By(origin[sessionCookie[b]], b)'
    OBVIOUS
  <2>1. sessionCookie'[b] = sessionCookie[b] /\ origin' = origin /\ sessionCookie[b] \in Ids
    BY DEF LoginsKept, WorldTyped
  <2> DEFINE c == origin[sessionCookie[b]]
  <2>2. c \in Codes /\ By(c, b)
    BY <2>1 DEF Logins, Sessions
  <2>3. issued'[c] = issued[c] /\ flow'[issued[c]] = flow[issued[c]]
    BY <2>2, IssuedFixed, FlowFixed, ConstantsOK DEF By
  <2> QED BY <2>1, <2>2, <2>3 DEF By
<1>4. \A r \in Requests, i \in Ids : Carries(r, i)' => By(origin[i], job[r].browser)'
  <2> SUFFICES ASSUME NEW r \in Requests, NEW i \in Ids, Carries(r, i)'
               PROVE  By(origin[i], job[r].browser)'
    OBVIOUS
  <2>1. Carries(r, i) /\ job'[r] = job[r] /\ origin' = origin
    BY DEF LoginsKept
  <2>2. origin[i] \in Codes /\ By(origin[i], job[r].browser)
    BY <2>1 DEF Logins, Sessions
  <2>3. issued'[origin[i]] = issued[origin[i]] /\ flow'[issued[origin[i]]] = flow[issued[origin[i]]]
    BY <2>2, IssuedFixed, FlowFixed, ConstantsOK DEF By
  <2> QED BY <2>1, <2>2, <2>3 DEF By
<1>5. \A r \in Requests, i \in Ids : pc'[r] = "answered" /\ answer'[r].session = i =>
        By(origin[i], job[r].browser)'
  <2> SUFFICES ASSUME NEW r \in Requests, NEW i \in Ids,
                      pc'[r] = "answered", answer'[r].session = i
               PROVE  By(origin[i], job[r].browser)'
    OBVIOUS
  <2>1. /\ pc[r] = "answered" /\ answer[r].session = i
        /\ job'[r] = job[r] /\ origin' = origin
    BY DEF LoginsKept
  <2>2. origin[i] \in Codes /\ By(origin[i], job[r].browser)
    BY <2>1 DEF Logins, Sessions
  <2>3. issued'[origin[i]] = issued[origin[i]] /\ flow'[issued[origin[i]]] = flow[issued[origin[i]]]
    BY <2>2, IssuedFixed, FlowFixed, ConstantsOK DEF By
  <2> QED BY <2>1, <2>2, <2>3 DEF By
<1>6. \A r \in Requests : pc'[r] = "using" =>
        By(held[r].token, job[r].browser)' /\ From(held[r].token, held[r].provider)'
  <2> SUFFICES ASSUME NEW r \in Requests, pc'[r] = "using"
               PROVE  By(held[r].token, job[r].browser)' /\ From(held[r].token, held[r].provider)'
    OBVIOUS
  <2>1. pc[r] = "using" /\ job'[r] = job[r] /\ held'[r] = held[r]
    BY DEF LoginsKept
  <2> DEFINE c == held[r].token
  <2>2. c \in Codes /\ By(c, job[r].browser) /\ From(c, held[r].provider)
    BY <2>1 DEF Logins
  <2>3. issued'[c] = issued[c] /\ flow'[issued[c]] = flow[issued[c]]
    BY <2>2, IssuedFixed, FlowFixed, ConstantsOK DEF By
  <2> QED BY <2>1, <2>2, <2>3 DEF By, From
<1> QED BY <1>1, <1>2, <1>3, <1>4, <1>5, <1>6 DEF Logins

\* LoginsKept is enough for the three invariants about logins.
LEMMA KeptSuffices ==
  ASSUME RequestsTyped, WorldTyped, Formed, Sessions, Spent, OneSessionPerCode, Logins,
         LoginsKept, [Next]_vars
  PROVE  Spent' /\ OneSessionPerCode' /\ Logins'
<1>1. OneSessionPerCode'
  BY DEF OneSessionPerCode, LoginsKept
<1> QED BY <1>1, SpentFrame, LoginsFrame

\* The inductive step.
LEMMA LoginsInductive ==
  ASSUME RequestsTyped, WorldTyped, Formed, Minted, Bound, Sessions,
         Spent, OneSessionPerCode, Logins, [Next]_vars
  PROVE  Spent' /\ OneSessionPerCode' /\ Logins'
<1>1. ASSUME NEW r \in Requests, NEW b \in Browsers, NEW p \in Providers, SendStart(r, b, p)
      PROVE  Spent' /\ OneSessionPerCode' /\ Logins'
  <2> DEFINE j == [kind |-> "start", browser |-> b, provider |-> p,
                    state |-> None, code |-> None, cookie |-> None]
  <2>1. Send(r, j) /\ j.kind \notin {"logout", "profile"}
    BY <1>1 DEF SendStart
  <2> HIDE DEF j
  <2>2. Moves(r, "called", j, held[r], answer[r]) /\ pc[r] = "idle"
    BY <2>1, SendMoves
  <2>3. UNCHANGED <<cache, sessionCookie, origin, burned>>
    BY <2>1 DEF Send, jars, provider, history
  <2>4. LoginsKept
    BY <2>1, <2>2, <2>3 DEF LoginsKept, Moves, Carries, Redeemed
  <2> QED BY <2>4, KeptSuffices
<1>2. ASSUME NEW r \in Requests, NEW b \in Browsers, NEW p \in Providers,
             NEW s \in KnownStates, NEW c \in KnownCodes,
             SendCallback(r, b, p, s, c)
      PROVE  Spent' /\ OneSessionPerCode' /\ Logins'
  <2>0. Send(r, [kind |-> "callback", browser |-> b, provider |-> p,
                state |-> s, code |-> c, cookie |-> stateCookie[b]])
    BY <1>2 DEF SendCallback
  <2> DEFINE j == [kind |-> "callback", browser |-> b, provider |-> p,
                    state |-> s, code |-> c, cookie |-> stateCookie[b]]
  <2>1. Send(r, j) /\ j.kind \notin {"logout", "profile"}
    BY <2>0
  <2> HIDE DEF j
  <2>2. Moves(r, "called", j, held[r], answer[r]) /\ pc[r] = "idle"
    BY <2>1, SendMoves
  <2>3. UNCHANGED <<cache, sessionCookie, origin, burned>>
    BY <2>1 DEF Send, jars, provider, history
  <2>4. LoginsKept
    BY <2>1, <2>2, <2>3 DEF LoginsKept, Moves, Carries, Redeemed
  <2> QED BY <2>4, KeptSuffices
<1>3. ASSUME NEW r \in Requests, NEW b \in Browsers, SendDenied(r, b)
      PROVE  Spent' /\ OneSessionPerCode' /\ Logins'
  <2> DEFINE j == [kind |-> "denied", browser |-> b, provider |-> None,
                    state |-> None, code |-> None, cookie |-> None]
  <2>1. Send(r, j) /\ j.kind \notin {"logout", "profile"}
    BY <1>3 DEF SendDenied
  <2> HIDE DEF j
  <2>2. Moves(r, "called", j, held[r], answer[r]) /\ pc[r] = "idle"
    BY <2>1, SendMoves
  <2>3. UNCHANGED <<cache, sessionCookie, origin, burned>>
    BY <2>1 DEF Send, jars, provider, history
  <2>4. LoginsKept
    BY <2>1, <2>2, <2>3 DEF LoginsKept, Moves, Carries, Redeemed
  <2> QED BY <2>4, KeptSuffices
<1>4. ASSUME NEW r \in Requests, NEW b \in Browsers, NEW k \in {"logout", "profile"},
             SendWithSession(r, b, k)
      PROVE  Spent' /\ OneSessionPerCode' /\ Logins'
  <2> DEFINE j == [kind |-> k, browser |-> b, provider |-> None,
                    state |-> None, code |-> None, cookie |-> sessionCookie[b]]
  <2>1. Send(r, j) /\ j.cookie = sessionCookie[b] /\ j.browser = b
    BY <1>4 DEF SendWithSession
  <2> HIDE DEF j
  <2>2. Moves(r, "called", j, held[r], answer[r]) /\ pc[r] = "idle"
    BY <2>1, SendMoves
  <2>3. UNCHANGED <<cache, sessionCookie, origin, burned, issued, flow>>
    BY <2>1 DEF Send, jars, provider, history
  <2>4. Spent' /\ OneSessionPerCode'
    BY <2>2, <2>3 DEF Spent, OneSessionPerCode, Moves, Redeemed, Born
  <2>5. \A q \in Requests, i \in Ids : Carries(q, i)' => By(origin[i], job'[q].browser)
    <3> SUFFICES ASSUME NEW q \in Requests, NEW i \in Ids, Carries(q, i)'
                 PROVE  By(origin[i], job'[q].browser)
      OBVIOUS
    <3>1. CASE q = r
      <4>1. job'[q].browser = b /\ i = sessionCookie[b]
        BY <2>1, <2>2, <3>1 DEF Carries, Moves
      <4> QED BY <4>1, ConstantsOK DEF Logins
    <3>2. CASE q # r
      BY <2>2, <3>2 DEF Carries, Moves, Logins
    <3> QED BY <3>1, <3>2
  <2>6. \A q \in Requests, i \in Ids : pc'[q] = "answered" /\ answer'[q].session = i
          => By(origin[i], job'[q].browser)
    BY <2>2 DEF Moves, Logins
  <2>7. \A q \in Requests : /\ pc'[q] \in Redeemed \cup {"using"} =>
                                 pc'[q] = pc[q] /\ job'[q] = job[q] /\ held'[q] = held[q]
    BY <2>2 DEF Moves, Redeemed
  <2>8. \A q \in Requests : pc'[q] \in Redeemed => issued[job'[q].code] = job'[q].state
    BY <2>7 DEF Logins
  <2>9. \A q \in Requests : pc'[q] = "using" =>
          By(held'[q].token, job'[q].browser) /\ From(held'[q].token, held'[q].provider)
    BY <2>7 DEF Logins
  <2>10. Logins'
    BY <2>3, <2>5, <2>6, <2>8, <2>9 DEF Logins, Found, By, From
  <2> QED BY <2>4, <2>10
<1>5. ASSUME NEW r \in Requests, Start(r) PROVE Spent' /\ OneSessionPerCode' /\ Logins'
  <2>1. /\ UNCHANGED <<origin, burned>>
        /\ pc'[r] = "answered"
    BY <1>5 DEF Start, Respond, RequestsTyped, provider, StartFails, SaveState, Known
  <2>2. ASSUME NEW st, Handled(r, st, {Keep}),
               \A i \in Ids : cache'[SessionKey(i)] = cache[SessionKey(i)]
        PROVE  Spent' /\ OneSessionPerCode' /\ Logins'
    <3>1. LoginsKept
      BY <2>1, <2>2, ConstantsOK DEF LoginsKept, Handled, Carries, Redeemed
    <3> QED BY <3>1, KeptSuffices
  <2>3. CASE Handled(r, {Keep}, {Keep}) /\ UNCHANGED cache
    BY <2>2, <2>3
  <2>4. ASSUME NEW s \in FreshIds, Handled(r, {s}, {Keep}),
               cache' = Put(cache, StateKey(s), NewRecord(job[r].provider, s))
        PROVE  Spent' /\ OneSessionPerCode' /\ Logins'
    BY <2>2, <2>4, PutState DEF FreshIds
  <2> QED BY <1>5, <2>3, <2>4, StartHandled
<1>6. ASSUME NEW r \in Requests, Exchange(r)
      PROVE  Spent' /\ OneSessionPerCode' /\ Logins'
  <2>1. /\ pc[r] = "exchange" /\ UNCHANGED <<cache, job, jars, origin, issued, flow>>
        /\ Handled(r, {None, Keep}, {None, Keep})
    BY <1>6, PlainHandled DEF PlainHandle, Exchange, history
  <2>2. ASSUME NEW outcome, CallbackFails(r, outcome), burned \subseteq burned'
        PROVE  Spent' /\ OneSessionPerCode' /\ Logins'
    <3>1. pc'[r] = "answered"
      BY <2>2 DEF CallbackFails, Respond, RequestsTyped
    <3>2. LoginsKept
      BY <2>1, <2>2, <3>1, ConstantsOK DEF LoginsKept, Handled, Carries, Redeemed
    <3> QED BY <3>2, KeptSuffices
  <2>3. ASSUME CodeAccepted(r), burned' = burned \cup {job[r].code},
               Continue(r, "identity", held[r])
        PROVE  Spent' /\ OneSessionPerCode' /\ Logins'
    <3>1. pc'[r] = "identity" /\ Moves(r, "identity", job[r], held[r], answer[r])
      BY <2>1, <2>3, ContinueMoves DEF Moves
    <3>2. /\ job[r].code \notin burned
          /\ issued[job[r].code] = job[r].state
      BY <2>1, <2>3 DEF CodeAccepted, Minted, Working
    <3>3. \A q \in Requests : pc'[q] \in Redeemed => q = r \/ pc[q] \in Redeemed
      BY <3>1 DEF Moves
    <3>4. /\ \A q \in Requests : pc[q] \in Redeemed => job[q].code # job[r].code
          /\ \A i \in Ids : origin[i] # job[r].code
      <4>1. job[r].code # None
        BY <2>3 DEF CodeAccepted
      <4>2. \A q \in Requests : pc[q] \in Redeemed => job[q].code # job[r].code
        BY <3>2 DEF Spent
      <4>3. \A i \in Ids : origin[i] # job[r].code
        BY <3>2, <4>1 DEF Spent, Born
      <4> QED BY <4>2, <4>3
    <3>5. Spent'
      BY <2>1, <2>3, <3>3, <3>4 DEF Spent, Born
    <3>6. OneSessionPerCode'
      BY <2>1 DEF OneSessionPerCode
    <3>7. \A q \in Requests : pc'[q] \in Redeemed => issued'[job'[q].code] = job'[q].state
      BY <2>1, <3>2, <3>3 DEF Logins
    <3>8. \A q \in Requests : pc'[q] = "using" \/ pc'[q] = "answered" =>
            q # r /\ pc'[q] = pc[q] /\ held'[q] = held[q] /\ answer'[q] = answer[q]
      BY <3>1 DEF Moves
    <3>9. \A q \in Requests, i \in Ids : Carries(q, i)' => Carries(q, i)
      BY <2>1 DEF Handled, Carries
    <3>10. \A q \in Requests : pc'[q] = "using" =>
             By(held'[q].token, job[q].browser) /\ From(held'[q].token, held'[q].provider)
      BY <3>8 DEF Logins
    <3>11. \A q \in Requests, i \in Ids : pc'[q] = "answered" /\ answer'[q].session = i =>
             By(origin[i], job[q].browser)
      BY <3>8 DEF Logins
    <3>12. Logins'
      BY <2>1, <3>7, <3>9, <3>10, <3>11 DEF Logins, By, From, Found, jars
    <3> QED BY <3>5, <3>6, <3>12
  <2>4. CASE CodeAccepted(r) /\ Continue(r, "identity", held[r])
             /\ burned' = burned \cup ({job[r].code} \ {None})
    <3>1. burned' = burned \cup {job[r].code}
      BY <2>4 DEF CodeAccepted
    <3> QED BY <2>3, <2>4, <3>1
  <2>5. CASE CallbackFails(r, "callback failed")
             /\ burned' \in {burned, burned \cup ({job[r].code} \ {None})}
    BY <2>2, <2>5
  <2> QED BY <1>6, <2>4, <2>5 DEF Exchange
<1>7. ASSUME NEW r \in Requests, AttachSession(r)
      PROVE  Spent' /\ OneSessionPerCode' /\ Logins'
  <2>1. /\ pc[r] = "called" /\ job[r].kind = "profile"
        /\ UNCHANGED <<cache, job, jars, origin, issued, flow, burned>>
        /\ Handled(r, {None, Keep}, {None, Keep})
    BY <1>7, PlainHandled DEF PlainHandle, AttachSession, provider, history, SessionStored
  <2>2. CASE Respond(r, "session required", Keep, Keep)
    <3>1. pc'[r] = "answered"
      BY <2>2 DEF Respond, RequestsTyped
    <3>2. LoginsKept
      BY <2>1, <3>1, ConstantsOK DEF LoginsKept, Handled, Carries, Redeemed
    <3> QED BY <3>2, KeptSuffices
  <2>3. ASSUME job[r].cookie # None, Found(cache, SessionKey(job[r].cookie)),
               Continue(r, "using", cache[SessionKey(job[r].cookie)])
        PROVE  Spent' /\ OneSessionPerCode' /\ Logins'
    <3> DEFINE i == job[r].cookie
               record == cache[SessionKey(i)]
    <3>1. Moves(r, "using", job[r], record, answer[r])
      BY <2>1, <2>3, ContinueMoves
    <3>2. i \in Ids /\ Carries(r, i)
      BY <2>1, <2>3 DEF Formed, WellFormed, Job, Carries
    <3>3. By(record.token, job[r].browser) /\ From(record.token, record.provider)
      BY <2>3, <3>2 DEF Logins
    <3> HIDE DEF record, i
    <3>4. \A q \in Requests : pc'[q] \in Redeemed => pc[q] \in Redeemed
      BY <3>1 DEF Moves, Redeemed
    <3>5. Spent' /\ OneSessionPerCode'
      BY <2>1, <3>4 DEF Spent, OneSessionPerCode, Born
    <3>6. \A q \in Requests : pc'[q] = "using" =>
             By(held'[q].token, job[q].browser) /\ From(held'[q].token, held'[q].provider)
      BY <3>1, <3>3 DEF Moves, Logins
    <3>7. \A q \in Requests, j \in Ids : pc'[q] = "answered" /\ answer'[q].session = j =>
             By(origin[j], job[q].browser)
      BY <3>1 DEF Moves, Logins
    <3>8. \A q \in Requests, j \in Ids : Carries(q, j)' => Carries(q, j)
      BY <2>1 DEF Handled, Carries
    <3>9. Logins'
      BY <2>1, <3>4, <3>6, <3>7, <3>8 DEF Logins, By, From, Found, jars
    <3> QED BY <3>5, <3>9
  <2> QED BY <1>7, <2>2, <2>3 DEF AttachSession, SessionStored
<1>8. ASSUME NEW r \in Requests, PlainHandle(r)
      PROVE  Spent' /\ OneSessionPerCode' /\ Logins'
  <2>1. CASE Exchange(r) \/ AttachSession(r)
    BY <2>1, <1>6, <1>7
  <2>2. CASE ~Exchange(r) /\ ~AttachSession(r)
    <3>1. Handled(r, {None, Keep}, {None, Keep})
      BY <1>8, PlainHandled
    <3>2. UNCHANGED <<origin, burned>>
      BY <1>8, <2>2 DEF PlainHandle, CallbackDenied, CallbackMismatch, ConsumeGet,
             ConsumeDelete, Identify, Logout, UseSession, provider, history, Known, EndSession
    <3>3. \A i \in Ids : cache'[SessionKey(i)] \in {cache[SessionKey(i)], None}
      <4>1. CASE ConsumeDelete(r)
        <5>1. job[r].state \in Ids
          BY <4>1 DEF ConsumeDelete, Formed, WellFormed, Working, StateMatches, Job, Known
        <5>2. cache' \in {cache, Forget(cache, StateKey(job[r].state))}
          BY <4>1 DEF ConsumeDelete, Known
        <5> QED BY <5>1, <5>2, ForgetState
      <4>2. CASE Logout(r)
        <5>1. job[r].cookie \in Ids \cup {None}
          BY <4>2 DEF Logout, Formed, WellFormed, Job, EndSession
        <5>2. CASE UNCHANGED cache
          BY <5>2
        <5>3. CASE /\ job[r].cookie \in Ids
                   /\ cache' = Forget(cache, SessionKey(job[r].cookie))
          BY <5>3, ForgetSession
        <5> QED BY <4>2, <5>1, <5>2, <5>3 DEF Logout, EndSession
      <4>3. CASE ~ConsumeDelete(r) /\ ~Logout(r)
        BY <1>8, <2>2, <4>3 DEF PlainHandle, CallbackDenied, CallbackMismatch, ConsumeGet,
           Identify, UseSession
      <4> QED BY <4>1, <4>2, <4>3
    <3>4. (pc'[r] \in Redeemed => pc[r] \in Redeemed) /\ pc'[r] # "using"
      BY <1>8, <2>2 DEF PlainHandle, CallbackDenied, CallbackMismatch, ConsumeGet,
         ConsumeDelete, Identify, Logout, UseSession, CallbackFails, Respond, Continue,
         RequestsTyped, Redeemed, Known, EndSession
    <3>5. LoginsKept
      BY <3>1, <3>2, <3>3, <3>4, ConstantsOK DEF LoginsKept, Handled, Carries
    <3> QED BY <3>5, KeptSuffices
  <2> QED BY <2>1, <2>2
<1>9. ASSUME NEW r \in Requests, StoreSession(r)
      PROVE  Spent' /\ OneSessionPerCode' /\ Logins'
  <2>1. /\ pc[r] = "store" /\ UNCHANGED <<job, burned, issued, flow>>
        /\ pc'[r] = "answered"
    BY <1>9 DEF StoreSession, StoreFails, CallbackFails, Respond, RequestsTyped, provider, SaveSession
  <2>2. CASE Handled(r, {None}, {Keep}) /\ UNCHANGED <<cache, origin>>
    <3>1. LoginsKept
      BY <2>1, <2>2, ConstantsOK DEF LoginsKept, Handled, Carries, Redeemed
    <3> QED BY <3>1, KeptSuffices
  <2>3. ASSUME NEW i \in FreshIds, Handled(r, {None}, {i}),
               cache' = Put(cache, SessionKey(i),
                            [provider |-> job[r].provider, token |-> job[r].code]),
               origin' = [origin EXCEPT ![i] = job[r].code]
        PROVE  Spent' /\ OneSessionPerCode' /\ Logins'
    <3> DEFINE c == job[r].code
               p == job[r].provider
    <3>1. i \in Ids /\ ~Born(i)
      BY DEF FreshIds, Born
    <3>2. c \in Codes /\ p \in Providers /\ job[r].state \in Ids
      BY <2>1 DEF Formed, WellFormed, Working, StateMatches, Job
    <3>3. By(c, job[r].browser) /\ From(c, p)
      <4>1. issued[c] = job[r].state
        BY <2>1 DEF Logins, Redeemed
      <4>2. flow[job[r].state] = [provider |-> p, browser |-> job[r].browser]
        BY <2>1, BindingFollows DEF FlowBinding
      <4>3. flow[job[r].state] # None
        BY <2>1 DEF Minted, Working
      <4> QED BY <3>2, <4>1, <4>2, <4>3 DEF By, From
    <3>4. /\ c \in burned
          /\ \A j \in Ids : origin[j] # c
          /\ \A q \in Requests : pc[q] \in Redeemed /\ job[q].code = c => q = r
      BY <2>1 DEF Spent, Redeemed
    <3>5. origin'[i] = c /\ \A j \in Ids : j # i => origin'[j] = origin[j]
      BY <2>3, <3>1 DEF WorldTyped
    <3>6. /\ cache'[SessionKey(i)] = [provider |-> p, token |-> c]
          /\ \A j \in Ids : j # i => cache'[SessionKey(j)] = cache[SessionKey(j)]
      BY <2>3, <3>1, PutSession
    <3>7. UNCHANGED <<job, sessionCookie>>
      BY <2>3 DEF Handled
    <3> HIDE DEF c, p
    <3>8. \A q \in Requests : pc'[q] \in Redeemed \cup {"using"} =>
            q # r /\ pc'[q] = pc[q] /\ held'[q] = held[q]
      BY <2>1, <2>3 DEF Handled, Redeemed
    <3>9. Spent'
      <4>1. \A j \in Ids : Born(j)' => origin'[j] \in burned
        BY <3>4, <3>5 DEF Spent, Born
      <4>2. ASSUME NEW q \in Requests, pc'[q] \in Redeemed
            PROVE  /\ job[q].code \in burned
                   /\ \A j \in Ids : origin'[j] # job[q].code
                   /\ \A o \in Requests : pc'[o] \in Redeemed /\ job[o].code = job[q].code => o = q
        BY <3>4, <3>5, <3>8, <4>2 DEF Spent
      <4> QED BY <2>1, <4>1, <4>2 DEF Spent
    <3>10. OneSessionPerCode'
      BY <3>2, <3>4, <3>5, ConstantsOK DEF OneSessionPerCode, c
    <3>11. \A j \in Ids : Found(cache, SessionKey(j))' =>
             /\ cache'[SessionKey(j)].token = origin'[j]
             /\ From(origin'[j], cache'[SessionKey(j)].provider)
      BY <3>3, <3>5, <3>6 DEF Logins, Found
    <3>12. \A b \in Browsers : sessionCookie[b] # None =>
             sessionCookie[b] # i /\ By(origin'[sessionCookie[b]], b)
      BY <3>1, <3>5 DEF Logins, Sessions, WorldTyped
    <3>13. \A q \in Requests, j \in Ids : Carries(q, j)' => By(origin'[j], job[q].browser)
      <4>1. \A q \in Requests, j \in Ids : Carries(q, j)' => Carries(q, j)
        BY <2>3 DEF Handled, Carries
      <4> QED BY <3>1, <3>5, <4>1 DEF Logins, Sessions
    <3>14. \A q \in Requests, j \in Ids : pc'[q] = "answered" /\ answer'[q].session = j =>
             By(origin'[j], job[q].browser)
      <4> SUFFICES ASSUME NEW q \in Requests, NEW j \in Ids,
                          pc'[q] = "answered", answer'[q].session = j
                   PROVE  By(origin'[j], job[q].browser)
        OBVIOUS
      <4>1. CASE q = r
        BY <2>3, <3>3, <3>5, <4>1 DEF Handled
      <4>2. CASE q # r
        <5>1. pc[q] = "answered" /\ answer[q].session = j
          BY <2>3, <4>2 DEF Handled
        <5> QED BY <3>1, <3>5, <5>1 DEF Logins, Sessions
      <4> QED BY <4>1, <4>2
    <3>15. \A q \in Requests : pc'[q] = "using" =>
             By(held'[q].token, job[q].browser) /\ From(held'[q].token, held'[q].provider)
      BY <3>8 DEF Logins
    <3>16. \A q \in Requests : pc'[q] \in Redeemed => issued[job[q].code] = job[q].state
      BY <3>8 DEF Logins
    <3>17. Logins'
      BY <2>1, <3>7, <3>11, <3>12, <3>13, <3>14, <3>15, <3>16 DEF Logins, By, From
    <3> QED BY <3>9, <3>10, <3>17
  <2> QED BY <1>9, <2>2, <2>3, StoreHandled
<1>10. ASSUME NEW r \in Requests, Deliver(r)
      PROVE  Spent' /\ OneSessionPerCode' /\ Logins'
  <2>1. /\ UNCHANGED <<cache, origin, burned, issued, flow>> /\ pc[r] = "answered"
    BY <1>10 DEF Deliver, Retire, history
  <2>2. Moves(r, "idle", None, held[r], None)
    BY <1>10, RetireMoves DEF Deliver
  <2>3. job[r].browser \in Browsers /\ answer[r].session \in Ids \cup {None, Keep}
    BY <2>1 DEF Formed, WellFormed, Job, Answer
  <2>4. sessionCookie' = SetCookie(sessionCookie, job[r].browser, answer[r].session)
    BY <1>10 DEF Deliver
  <2>5. \A b \in Browsers : sessionCookie'[b] # None => By(origin[sessionCookie'[b]], b)
    <3>1. ASSUME NEW b \in Browsers, b # job[r].browser \/ answer[r].session = Keep
          PROVE  sessionCookie'[b] = sessionCookie[b]
      BY <2>3, <2>4, <3>1 DEF SetCookie, WorldTyped
    <3>2. CASE answer[r].session # Keep
      <4>1. sessionCookie'[job[r].browser] = answer[r].session
        BY <2>3, <2>4, <3>2 DEF SetCookie, WorldTyped
      <4>2. answer[r].session # None => By(origin[answer[r].session], job[r].browser)
        BY <2>1, <2>3, <3>2 DEF Logins
      <4> QED BY <3>1, <4>1, <4>2 DEF Logins
    <3>3. CASE answer[r].session = Keep
      BY <3>1, <3>3 DEF Logins
    <3> QED BY <3>2, <3>3
  <2>6. \A q \in Requests : pc'[q] # "idle" =>
          pc'[q] = pc[q] /\ job'[q] = job[q] /\ held'[q] = held[q] /\ answer'[q] = answer[q]
    BY <2>2 DEF Moves
  <2>7. Spent' /\ OneSessionPerCode'
    BY <2>1, <2>6 DEF Spent, OneSessionPerCode, Redeemed, Born
  <2>8. \A q \in Requests, i \in Ids : Carries(q, i)' => By(origin[i], job'[q].browser)
    BY <2>6 DEF Logins, Carries
  <2>9. \A q \in Requests, i \in Ids : pc'[q] = "answered" /\ answer'[q].session = i =>
          By(origin[i], job'[q].browser)
    BY <2>6 DEF Logins
  <2>10. \A q \in Requests :
           /\ pc'[q] \in Redeemed => issued[job'[q].code] = job'[q].state
           /\ pc'[q] = "using" =>
                By(held'[q].token, job'[q].browser) /\ From(held'[q].token, held'[q].provider)
    BY <2>6 DEF Logins, Redeemed
  <2>11. Logins'
    BY <2>1, <2>5, <2>8, <2>9, <2>10 DEF Logins, Found, By, From
  <2> QED BY <2>7, <2>11
<1>11. ASSUME NEW r \in Requests, LoseAnswer(r)
      PROVE  Spent' /\ OneSessionPerCode' /\ Logins'
  <2>1. UNCHANGED <<cache, sessionCookie, origin, burned>>
    BY <1>11 DEF LoseAnswer, Retire, jars, provider, history
  <2>2. Moves(r, "idle", None, held[r], None)
    BY <1>11, RetireMoves DEF LoseAnswer
  <2>3. LoginsKept
    BY <2>1, <2>2 DEF LoginsKept, Moves, Carries, Redeemed
  <2> QED BY <2>3, KeptSuffices
<1>12. ASSUME NEW b \in Browsers, LoseCookie(b)
      PROVE  Spent' /\ OneSessionPerCode' /\ Logins'
  <2>1. LoginsKept
    BY <1>12 DEF LoseCookie, LoginsKept, Carries, WorldTyped, server, provider, history
  <2> QED BY <2>1, KeptSuffices
<1>13. ASSUME NEW s \in Ids, NEW c \in Codes, Authorize(s, c)
      PROVE  Spent' /\ OneSessionPerCode' /\ Logins'
  <2>1. LoginsKept
    BY <1>13 DEF Authorize, LoginsKept, Carries, server, jars, history
  <2> QED BY <2>1, KeptSuffices
<1>14. ASSUME NEW k \in Keys, Expire(k) PROVE Spent' /\ OneSessionPerCode' /\ Logins'
  <2>1. \A i \in Ids : cache'[SessionKey(i)] \in {cache[SessionKey(i)], None}
    BY <1>14, KeyFacts DEF Expire, Forget, WorldTyped
  <2>2. LoginsKept
    BY <1>14, <2>1 DEF Expire, LoginsKept, Carries, jars, provider, history
  <2> QED BY <2>2, KeptSuffices
<1>15. ASSUME Restart PROVE Spent' /\ OneSessionPerCode' /\ Logins'
  <2>1. \A i \in Ids : cache'[SessionKey(i)] \in {cache[SessionKey(i)], None}
    BY <1>15, KeyFacts DEF Restart, EmptyCache
  <2>2. LoginsKept
    BY <1>15, <2>1 DEF Restart, LoginsKept, Carries, Redeemed, jars, provider, history
  <2> QED BY <2>2, KeptSuffices
<1>16. CASE UNCHANGED vars
  <2>1. LoginsKept
    BY <1>16 DEF LoginsKept, Carries, vars, server, jars, provider, history
  <2> QED BY <2>1, KeptSuffices
<1> QED
  BY <1>1, <1>2, <1>3, <1>4, <1>5, <1>6, <1>7, <1>8, <1>9, <1>10, <1>11,
     <1>12, <1>13, <1>14, <1>15, <1>16
  DEF Next, Handle, PlainHandle, Browse

\* What the facts about logins say of a browser that is signed in.
LEMMA OwnLoginFollows ==
  ASSUME WorldTyped, Logins
  PROVE  OwnLogin
<1>1. \A b \in Browsers : sessionCookie[b] # None =>
        LoginOf(origin[sessionCookie[b]]).browser = b
  BY DEF Logins, By, LoginOf
<1>2. ASSUME NEW r \in Requests, pc[r] = "using"
      PROVE  LoginOf(held[r].token) = [provider |-> held[r].provider, browser |-> job[r].browser]
  <2>1. By(held[r].token, job[r].browser) /\ From(held[r].token, held[r].provider)
    BY <1>2 DEF Logins
  <2>2. flow[issued[held[r].token]] \in Flow
    BY <2>1 DEF By, WorldTyped
  <2> QED BY <2>1, <2>2 DEF By, From, LoginOf, Flow
<1> QED BY <1>1, <1>2 DEF OwnLogin

-----------------------------------------------------------------------------
(* The theorems                                                            *)

Shaped == RequestsTyped /\ WorldTyped /\ Formed

Inv ==
  /\ Shaped
  /\ Minted /\ NoReplayAfterConsume
  /\ Bound
  /\ Sessions
  /\ Spent /\ OneSessionPerCode /\ Logins

\* The initial states satisfy the invariant,
LEMMA InvInit == Init => Inv
<1> SUFFICES ASSUME Init PROVE Inv
  OBVIOUS
<1>1. RequestsTyped /\ Formed
  BY DEF Init, RequestsTyped, Formed, WellFormed, Working, Labels
<1>2. WorldTyped
  BY KeyFacts DEF Init, WorldTyped, EmptyCache
<1>3. \A k \in Keys : ~Found(cache, k)
  BY DEF Init, Found, EmptyCache
<1>4. Minted /\ NoReplayAfterConsume
  BY <1>3, KeyFacts DEF Init, Minted, NoReplayAfterConsume, Working
<1>5. Bound
  BY DEF Init, Bound
<1>6. Sessions
  BY <1>3, KeyFacts DEF Init, Sessions, Born, Carries
<1>7. Spent /\ OneSessionPerCode /\ Logins
  BY <1>3, KeyFacts DEF Init, Spent, OneSessionPerCode, Logins, Born, Carries, Redeemed
<1> QED BY <1>1, <1>2, <1>4, <1>5, <1>6, <1>7 DEF Inv, Shaped

\* and every step keeps it.
LEMMA InvInductive == Inv /\ [Next]_vars => Inv'
BY RequestsInductive, WorldInductive, MintedInductive, BoundInductive,
   SessionsInductive, LoginsInductive DEF Inv, Shaped

\* The inductive invariant holds in every reachable state.
THEOREM Invariance == Spec => []Inv
BY InvInit, InvInductive, PTL DEF Spec

\* Type correctness.
THEOREM TypeCorrect == Spec => []TypeOK
<1>1. Inv => TypeOK
  BY TypeParts DEF Inv, Shaped
<1> QED BY Invariance, <1>1, PTL

\* Once a Consume of a state has finished, nobody finds the state again
\* (store/cached/state.go), also when Consumes overlap.
THEOREM NoReplay == Spec => []NoReplayAfterConsume
BY Invariance, PTL DEF Inv

\* A callback that has passed HandleCallback's checks works for the browser,
\* the provider and the verifier its flow was started with.
THEOREM Binding == Spec => []FlowBinding
<1>1. Inv => FlowBinding
  BY BindingFollows DEF Inv, Shaped
<1> QED BY Invariance, <1>1, PTL

\* However callbacks are repeated or overlap, a code makes one session.
THEOREM SingleSession == Spec => []OneSessionPerCode
BY Invariance, PTL DEF Inv

\* A browser is signed in by its own login only.
THEOREM SignedInBySelf == Spec => []OwnLogin
<1>1. Inv => OwnLogin
  BY OwnLoginFollows DEF Inv, Shaped
<1> QED BY Invariance, <1>1, PTL

\* A session that a logout has deleted does not come back.
THEOREM LogoutIsFinal == Spec => []LogoutFinal
<1>1. Inv => LogoutFinal
  BY DEF Inv, Shaped, WorldTyped, Sessions, LogoutFinal
<1> QED BY Invariance, <1>1, PTL

\* The handlers, the stores and the browsers together implement the life of
\* a session that TicketLife promises.
THEOREM Implementation == Spec => SessionLifeSpec
<1>1. Inv /\ [Next]_vars => [SL!Next]_(SL!vars)
  BY StepSimulation DEF Inv, Shaped
<1> QED BY InitSimulation, Invariance, <1>1, PTL DEF Spec, SL!Spec, SessionLifeSpec

\* Neither does a state come back once it has been consumed or has expired,
\* and no browser holds a state that was never stored.
THEOREM StateImplementation == Spec => StateLifeSpec
<1>1. Inv /\ Inv' /\ [Next]_vars => [ST!Next]_(ST!vars)
  BY StateSimulation DEF Inv, Shaped
<1> QED BY StateInit, Invariance, <1>1, PTL DEF Spec, ST!Spec, StateLifeSpec
=============================================================================
