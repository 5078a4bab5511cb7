------------------------------ MODULE AuthFlow ------------------------------
(***************************************************************************)
(* The login of the connector: GET /auth/{provider}, its callback, POST    *)
(* /logout, and what GET /profile does before it calls out.  The module    *)
(* composes the HTTP handlers (transport/httpapi), the auth use case       *)
(* (usecase/auth) and the two cached stores (adapter/store/cached) with    *)
(* the browsers' cookie jars and an OAuth provider.                        *)
(*                                                                         *)
(* Every request runs in a goroutine of its own.  One step of a request is *)
(* one access to something shared: the cache, the provider, the wire.  A   *)
(* request takes the cookies with it when it leaves the browser, and its   *)
(* answer changes the cookie jar only when it arrives, so two requests of  *)
(* one browser may be answered in either order.                            *)
(*                                                                         *)
(* Data.  A PKCE verifier is represented by the flow it was generated for, *)
(* and an access token by the code it was exchanged for.  The redirect URI *)
(* is a function of the provider (callbackURI), so the provider stands for *)
(* both.  Timestamps, scopes and display names are left out.               *)
(***************************************************************************)
EXTENDS Naturals, FiniteSets, MemoryCache

CONSTANTS Browsers,
          Requests,    \* the requests that can be in flight at a time
          Providers,   \* the names that occur in /auth/{provider}
          Registered,  \* the names the registry was frozen with
          Ids,         \* the ids RandomURLSafeID can return
          Codes,       \* the authorization codes the provider can issue
          MaxFlows,    \* bound on the logins started in a behaviour
          Faults,      \* what may go wrong in a behaviour
          Keep         \* in an answer: leave the cookie as it is

StateRecord   == [provider : Providers, verifier : Ids]
SessionRecord == [provider : Providers, token : Codes]
Flow          == [provider : Providers, browser : Browsers]

ASSUME ConstantsOK ==
  /\ Registered \subseteq Providers
  /\ IsFiniteSet(Requests)
  /\ MaxFlows \in Nat
  /\ Faults \subseteq {"rand", "cache", "provider", "network", "expiry", "restart"}
  /\ None \notin Ids \cup Codes \cup Providers
  /\ None \notin StateRecord \cup SessionRecord \cup Flow
  /\ Keep \notin Ids \cup {None}

VARIABLES
  cache,          \* the one cache of the process, shared by both stores
  pc,             \* pc[r]: where the handler of request r is
  job,            \* job[r]: what request r brought with it
  held,           \* held[r]: the record its handler has read from the cache
  answer,         \* answer[r]: the response, until it arrives or is lost
  stateCookie,    \* the oauth_state cookie of each browser
  sessionCookie,  \* the session_id cookie of each browser
  visited,        \* flows whose authorization URL has reached a browser
  issued,         \* issued[c]: the flow the provider issued code c for
  burned,         \* codes the provider has exchanged
  flow,           \* history: flow[s] is what state s was minted for
  wins,           \* history: how often Consume has succeeded on a state
  origin,         \* history: origin[i] is the code session i was made from
  loggedOut       \* history: sessions a logout has deleted

server   == <<cache, pc, job, held, answer>>
jars     == <<stateCookie, sessionCookie>>
provider == <<visited, issued, burned>>
history  == <<flow, wins, origin, loggedOut>>
vars     == <<server, jars, provider, history>>

-----------------------------------------------------------------------------
(* Keys and values                                                         *)

Prefixes == {"oauth:state:", "session:"}
Keys     == Prefixes \X Ids

StateKey(s)   == <<"oauth:state:", s>>
SessionKey(i) == <<"session:", i>>

Kinds == {"start", "callback", "denied", "logout", "profile"}

\* cookie is the value of the one cookie that the route looks at.
Job == [kind : Kinds, browser : Browsers, provider : Providers \cup {None},
        state : Ids \cup {None}, code : Codes \cup {None}, cookie : Ids \cup {None}]

Outcomes ==
  {"to provider", "unknown provider", "start failed", "provider error",
   "invalid state", "state expired or already used", "callback failed",
   "signed in", "logged out", "session required", "profile"}

\* None clears a cookie, Keep sends no Set-Cookie for it.
Answer == [outcome : Outcomes,
           state   : Ids \cup {None, Keep},
           session : Ids \cup {None, Keep}]

Labels == {"idle", "called", "consume", "exchange", "identity", "store",
           "using", "answered"}

TypeOK ==
  /\ cache \in [Keys -> StateRecord \cup SessionRecord \cup {None}]
  /\ \A i \in Ids : /\ cache[StateKey(i)] \in StateRecord \cup {None}
                    /\ cache[SessionKey(i)] \in SessionRecord \cup {None}
  /\ pc \in [Requests -> Labels]
  /\ job \in [Requests -> Job \cup {None}]
  /\ held \in [Requests -> StateRecord \cup SessionRecord \cup {None}]
  /\ answer \in [Requests -> Answer \cup {None}]
  /\ stateCookie \in [Browsers -> Ids \cup {None}]
  /\ sessionCookie \in [Browsers -> Ids \cup {None}]
  /\ visited \subseteq Ids
  /\ issued \in [Codes -> Ids \cup {None}]
  /\ burned \subseteq Codes
  /\ flow \in [Ids -> Flow \cup {None}]
  /\ wins \in [Ids -> Nat]
  /\ origin \in [Ids -> Codes \cup {None}]
  /\ loggedOut \subseteq Ids

Init ==
  /\ cache = EmptyCache(Keys)
  /\ pc = [r \in Requests |-> "idle"]
  /\ job = [r \in Requests |-> None]
  /\ held = [r \in Requests |-> None]
  /\ answer = [r \in Requests |-> None]
  /\ stateCookie = [b \in Browsers |-> None]
  /\ sessionCookie = [b \in Browsers |-> None]
  /\ visited = {}
  /\ issued = [c \in Codes |-> None]
  /\ burned = {}
  /\ flow = [i \in Ids |-> None]
  /\ wins = [i \in Ids |-> 0]
  /\ origin = [i \in Ids |-> None]
  /\ loggedOut = {}

-----------------------------------------------------------------------------
(* Browsers                                                                *)

Send(r, j) ==
  /\ pc[r] = "idle"
  /\ pc' = [pc EXCEPT ![r] = "called"]
  /\ job' = [job EXCEPT ![r] = j]
  /\ UNCHANGED <<cache, held, answer, jars, provider, history>>

FlowsBegun == {s \in Ids : flow[s] # None}
Starting   == {r \in Requests : pc[r] = "called" /\ job[r].kind = "start"}

SendStart(r, b, p) ==
  /\ Cardinality(FlowsBegun) + Cardinality(Starting) < MaxFlows
  /\ Send(r, [kind |-> "start", browser |-> b, provider |-> p,
              state |-> None, code |-> None, cookie |-> None])

\* What can be known outside the connector and the provider.
KnownStates == visited \cup {None}
KnownCodes  == {c \in Codes : issued[c] # None} \cup {None}

\* The redirect back from the provider.  State and code are two parameters of
\* a URL: any browser can follow it, any number of times, with the path of
\* any provider, with the state of one flow and the code of another, and
\* without the one or the other.
SendCallback(r, b, p, s, c) ==
  Send(r, [kind |-> "callback", browser |-> b, provider |-> p,
           state |-> s, code |-> c, cookie |-> stateCookie[b]])

\* The redirect back with an error parameter: the user said no.  Nothing
\* else of the request is read.
SendDenied(r, b) ==
  /\ visited # {}
  /\ Send(r, [kind |-> "denied", browser |-> b, provider |-> None,
              state |-> None, code |-> None, cookie |-> None])

SendWithSession(r, b, k) ==
  Send(r, [kind |-> k, browser |-> b, provider |-> None,
           state |-> None, code |-> None, cookie |-> sessionCookie[b]])

\* A browser drops a cookie: Max-Age, or the user clears it.
LoseCookie(b) ==
  /\ "expiry" \in Faults
  /\ \/ stateCookie' = [stateCookie EXCEPT ![b] = None] /\ UNCHANGED sessionCookie
     \/ sessionCookie' = [sessionCookie EXCEPT ![b] = None] /\ UNCHANGED stateCookie
  /\ UNCHANGED <<server, provider, history>>

\* How Set-Cookie changes the jar.
SetCookie(jar, b, value) ==
  IF value = Keep THEN jar ELSE [jar EXCEPT ![b] = value]

Retire(r) ==
  /\ pc' = [pc EXCEPT ![r] = "idle"]
  /\ job' = [job EXCEPT ![r] = None]
  /\ answer' = [answer EXCEPT ![r] = None]
  /\ UNCHANGED <<cache, held>>

Deliver(r) ==
  /\ pc[r] = "answered"
  /\ LET b == job[r].browser
         a == answer[r]
     IN /\ stateCookie' = SetCookie(stateCookie, b, a.state)
        /\ sessionCookie' = SetCookie(sessionCookie, b, a.session)
        /\ visited' = IF a.outcome = "to provider" THEN visited \cup {a.state} ELSE visited
  /\ Retire(r)
  /\ UNCHANGED <<issued, burned, history>>

\* The browser has gone away, or the response is written after the write
\* deadline of the server: the handler has run, its answer is lost.
LoseAnswer(r) ==
  /\ "network" \in Faults
  /\ pc[r] = "answered"
  /\ Retire(r)
  /\ UNCHANGED <<jars, provider, history>>

-----------------------------------------------------------------------------
(* The OAuth provider (outside the repository)                             *)

\* The user approves a flow, perhaps not for the first time: a new code.
Authorize(s, c) ==
  /\ s \in visited
  /\ issued[c] = None
  /\ issued' = [issued EXCEPT ![c] = s]
  /\ UNCHANGED <<server, jars, visited, burned, history>>

\* Mutant: the connector leaves PKCE out, the challenge and the verifier.
AcceptedWithoutPKCE(r) ==
  LET c == job[r].code
  IN c # None /\ c \notin burned /\ flow[issued[c]].provider = job[r].provider

\* A code can be exchanged once, at the provider that issued it, with the
\* PKCE verifier whose challenge was in the authorization URL.
CodeAccepted(r) ==
  LET c == job[r].code
      s == issued[c]
  IN /\ c # None
     /\ c \notin burned
     /\ flow[s].provider = job[r].provider
     /\ held[r].verifier = s

-----------------------------------------------------------------------------
(* What the handlers share                                                 *)

\* Ids that were never a state or a session id.  RandomURLSafeID draws 32
\* random bytes; that two draws never meet is the one assumption about them.
FreshIds == {i \in Ids : flow[i] = None /\ origin[i] = None}

\* Mutant: the state value is used again as the session id.
StateAsSessionId(r) == {job[r].state}

\* The ids HandleCallback may draw for the session it makes.
SessionIds(r) == FreshIds

RandFails  == "rand" \in Faults \/ FreshIds = {}
CacheFails == "cache" \in Faults

\* The handler returns: st and se are its Set-Cookie headers.
Respond(r, outcome, st, se) ==
  /\ pc' = [pc EXCEPT ![r] = "answered"]
  /\ held' = [held EXCEPT ![r] = None]
  /\ answer' = [answer EXCEPT ![r] = [outcome |-> outcome, state |-> st, session |-> se]]

Continue(r, label, record) ==
  /\ pc' = [pc EXCEPT ![r] = label]
  /\ held' = [held EXCEPT ![r] = record]
  /\ UNCHANGED answer

\* Callback clears the oauth_state cookie before it calls the use case.
CallbackFails(r, outcome) == Respond(r, outcome, None, Keep)

\* Mutant: the cookie is not compared with the query parameter.
StatePresent(j) == j.state # None

\* HandleCallback's first check, on the query parameter and the cookie.
StateMatches(j) == j.state # None /\ j.cookie # None /\ j.state = j.cookie

\* Registry.Get finds a provider: the registry is frozen at startup.
Known(p) == p \in Registered

\* The consumed record must be of the provider in the path.
ProviderMatches(j, record) == record.provider = j.provider

-----------------------------------------------------------------------------
(* GET /auth/{provider}                                                    *)

\* Mutant: the verifier is generated twice, for the URL and for the record.
OtherVerifier(p, s) == [provider |-> p, verifier |-> CHOOSE i \in Ids : i # s]

\* Mutant: the verifier is left out of the record.
NoVerifier(p, s) == [provider |-> p, verifier |-> None]

\* The verifier in the record is the one whose challenge is in the URL.
NewRecord(p, s) == [provider |-> p, verifier |-> s]

\* Mutant: StartFlow goes on when the Put has failed.
StateErrorIgnored(p, s) ==
  \/ cache' = Put(cache, StateKey(s), NewRecord(p, s))
  \/ CacheFails /\ UNCHANGED cache

\* StateStore.Put.
SaveState(p, s) == cache' = Put(cache, StateKey(s), NewRecord(p, s))

\* No state can be drawn, or its record cannot be saved.
StartFails == RandFails \/ CacheFails

Start(r) ==
  /\ pc[r] = "called" /\ job[r].kind = "start"
  /\ LET p == job[r].provider IN
     \/ /\ ~Known(p)
        /\ Respond(r, "unknown provider", Keep, Keep)
        /\ UNCHANGED <<cache, flow>>
     \/ /\ Known(p)
        /\ StartFails
        /\ Respond(r, "start failed", Keep, Keep)
        /\ UNCHANGED <<cache, flow>>
     \/ /\ Known(p)
        /\ \E s \in FreshIds :
             /\ SaveState(p, s)
             /\ flow' = [flow EXCEPT ![s] = [provider |-> p, browser |-> job[r].browser]]
             /\ Respond(r, "to provider", s, Keep)
  /\ UNCHANGED <<job, jars, provider, wins, origin, loggedOut>>

-----------------------------------------------------------------------------
(* GET /auth/{provider}/callback                                           *)

CallbackDenied(r) ==
  /\ pc[r] = "called" /\ job[r].kind = "denied"
  /\ CallbackFails(r, "provider error")
  /\ UNCHANGED <<cache, job, jars, provider, history>>

CallbackMismatch(r) ==
  /\ pc[r] = "called" /\ job[r].kind = "callback"
  /\ ~StateMatches(job[r])
  /\ CallbackFails(r, "invalid state")
  /\ UNCHANGED <<cache, job, jars, provider, history>>

\* The first half of StateStore.Consume: Cache.Get.
ConsumeGet(r) ==
  /\ pc[r] = "called" /\ job[r].kind = "callback"
  /\ StateMatches(job[r])
  /\ LET key == StateKey(job[r].state) IN
     \/ /\ CacheFails
        /\ CallbackFails(r, "callback failed")
     \/ /\ ~Found(cache, key)
        /\ CallbackFails(r, "state expired or already used")
     \/ /\ Found(cache, key)
        /\ Continue(r, "consume", cache[key])
  /\ UNCHANGED <<cache, job, jars, provider, history>>

\* The second half: Cache.Delete, which succeeds whether or not the key is
\* still there, and the checks on the record that was read.
ConsumeDelete(r) ==
  /\ pc[r] = "consume"
  /\ LET s == job[r].state IN
     \/ /\ CacheFails
        /\ CallbackFails(r, "callback failed")
        /\ UNCHANGED <<cache, wins>>
     \/ /\ cache' = Forget(cache, StateKey(s))
        /\ wins' = [wins EXCEPT ![s] = @ + 1]
        /\ IF ProviderMatches(job[r], held[r]) /\ Known(job[r].provider)
           THEN Continue(r, "exchange", held[r])
           ELSE CallbackFails(r, IF ProviderMatches(job[r], held[r])
                                 THEN "unknown provider" ELSE "invalid state")
  /\ UNCHANGED <<job, jars, provider, flow, origin, loggedOut>>

\* Provider.ExchangeCode, with whatever code the URL had.  It can fail after
\* the provider has burned the code: the answer is lost, or it comes after the
\* HTTP timeout, or the provider takes back a code that it has refused.
Exchange(r) ==
  /\ pc[r] = "exchange"
  /\ LET spent == burned \cup ({job[r].code} \ {None}) IN
     \/ /\ CodeAccepted(r)
        /\ burned' = spent
        /\ Continue(r, "identity", held[r])
     \/ /\ "provider" \in Faults \/ ~CodeAccepted(r)
        /\ burned' \in IF "provider" \in Faults THEN {burned, spent} ELSE {burned}
        /\ CallbackFails(r, "callback failed")
  /\ UNCHANGED <<cache, job, jars, visited, issued, history>>

\* Provider.GetIdentity.
Identify(r) ==
  /\ pc[r] = "identity"
  /\ \/ Continue(r, "store", held[r])
     \/ "provider" \in Faults /\ CallbackFails(r, "callback failed")
  /\ UNCHANGED <<cache, job, jars, provider, history>>

\* SessionStore.Put of a session with the token of the code.
SaveSession(i, p, c) == cache' = Put(cache, SessionKey(i), [provider |-> p, token |-> c])

\* Mutant: an error of SessionStore.Put is ignored.
StoreErrorIgnored(r) ==
  /\ CacheFails
  /\ \E i \in SessionIds(r) : Respond(r, "signed in", None, i)
  /\ UNCHANGED <<cache, origin>>

\* Mutant: a Put that was applied but reported an error is tried again.
StoreRetried(r) ==
  /\ CacheFails
  /\ \E i \in SessionIds(r) :
       /\ SaveSession(i, job[r].provider, job[r].code)
       /\ origin' = [origin EXCEPT ![i] = job[r].code]
  /\ Continue(r, "store", held[r])

\* A session id is drawn and SessionStore.Put called: the login is complete.
StoreFails(r) ==
  /\ RandFails \/ CacheFails
  /\ CallbackFails(r, "callback failed")
  /\ UNCHANGED <<cache, origin>>

StoreSession(r) ==
  /\ pc[r] = "store"
  /\ \/ StoreFails(r)
     \/ \E i \in SessionIds(r) :
          /\ SaveSession(i, job[r].provider, job[r].code)
          /\ origin' = [origin EXCEPT ![i] = job[r].code]
          /\ Respond(r, "signed in", None, i)
  /\ UNCHANGED <<job, jars, provider, flow, wins, loggedOut>>

-----------------------------------------------------------------------------
(* POST /logout and the session middleware of GET /profile                 *)

\* UseCase.Logout and SessionStore.Delete.
EndSession(i) ==
  \/ /\ i = None \/ CacheFails
     /\ UNCHANGED <<cache, loggedOut>>
  \/ /\ i # None
     /\ cache' = Forget(cache, SessionKey(i))
     /\ loggedOut' = loggedOut \cup {i}

\* An error of the store is logged; cookie and status are the same.
Logout(r) ==
  /\ pc[r] = "called" /\ job[r].kind = "logout"
  /\ EndSession(job[r].cookie)
  /\ Respond(r, "logged out", Keep, None)
  /\ UNCHANGED <<job, jars, provider, flow, wins, origin>>

\* SessionStore.Get has a session to return.
SessionStored(i) == Found(cache, SessionKey(i))

\* WithSession resolves the cookie, RequireSession answers 401 if it could
\* not.  The other routes resolve the cookie too and do not use the result.
AttachSession(r) ==
  /\ pc[r] = "called" /\ job[r].kind = "profile"
  /\ LET i == job[r].cookie IN
     \/ /\ \/ i = None
           \/ i # None /\ (CacheFails \/ ~SessionStored(i))
        /\ Respond(r, "session required", Keep, Keep)
     \/ /\ i # None
        /\ SessionStored(i)
        /\ Continue(r, "using", cache[SessionKey(i)])
  /\ UNCHANGED <<cache, job, jars, provider, history>>

\* GetProfile runs on the copy of the session that the middleware attached.
UseSession(r) ==
  /\ pc[r] = "using"
  /\ Respond(r, "profile", Keep, Keep)
  /\ UNCHANGED <<cache, job, jars, provider, history>>

-----------------------------------------------------------------------------
(* The process                                                             *)

\* The TTL of a record runs out.
Expire(k) ==
  /\ "expiry" \in Faults
  /\ Found(cache, k)
  /\ cache' = Forget(cache, k)
  /\ UNCHANGED <<pc, job, held, answer, jars, provider, history>>

\* The process dies and is started again: the cache and every request in
\* flight are gone, cookies and the provider are not.
Restart ==
  /\ "restart" \in Faults
  /\ cache' = EmptyCache(Keys)
  /\ pc' = [r \in Requests |-> "idle"]
  /\ job' = [r \in Requests |-> None]
  /\ held' = [r \in Requests |-> None]
  /\ answer' = [r \in Requests |-> None]
  /\ UNCHANGED <<jars, provider, history>>

Handle(r) ==
  \/ Start(r)
  \/ CallbackDenied(r) \/ CallbackMismatch(r)
  \/ ConsumeGet(r) \/ ConsumeDelete(r)
  \/ Exchange(r) \/ Identify(r) \/ StoreSession(r)
  \/ Logout(r)
  \/ AttachSession(r) \/ UseSession(r)

Browse(r) ==
  \E b \in Browsers :
    \/ \E p \in Providers : SendStart(r, b, p)
    \/ \E p \in Providers, s \in KnownStates, c \in KnownCodes : SendCallback(r, b, p, s, c)
    \/ SendDenied(r, b)
    \/ \E k \in {"logout", "profile"} : SendWithSession(r, b, k)

Next ==
  \/ \E r \in Requests : Browse(r) \/ Handle(r) \/ Deliver(r) \/ LoseAnswer(r)
  \/ \E b \in Browsers : LoseCookie(b)
  \/ \E s \in Ids, c \in Codes : Authorize(s, c)
  \/ \E k \in Keys : Expire(k)
  \/ Restart

Spec == Init /\ [][Next]_vars

\* A goroutine that can run does run, and every call it makes to the
\* provider ends: the HTTP client has a timeout.
FairSpec == Spec /\ \A r \in Requests : WF_vars(Handle(r))

-----------------------------------------------------------------------------
(* Properties                                                              *)

\* StateStore.Consume is single-use: no two callbacks ever obtain the record
\* of one state.  (internal/port/store/state.go: "Consume MUST be atomic".)
SingleUse == \A s \in Ids : wins[s] <= 1

\* The part of it that survives the get-then-delete of the cached store:
\* once one Consume of a state has finished, a callback that looks the state
\* up finds nothing, whatever else is in flight.
NoReplayAfterConsume ==
  \A s \in Ids : wins[s] > 0 => ~Found(cache, StateKey(s))

\* From the exchange on, a callback works for the browser that started the
\* flow, at the provider the flow was started with, and with the verifier of
\* that flow and no other.
FlowBinding ==
  \A r \in Requests : pc[r] \in {"exchange", "identity", "store"} =>
    LET s == job[r].state
    IN /\ flow[s] = [provider |-> job[r].provider, browser |-> job[r].browser]
       /\ held[r].verifier = s

\* A browser is only ever signed in by a login it started itself: whether
\* the session id is in its cookie jar or its session has been attached to a
\* /profile request.
LoginOf(code) == flow[issued[code]]

OwnLogin ==
  /\ \A b \in Browsers : sessionCookie[b] # None =>
       LoginOf(origin[sessionCookie[b]]).browser = b
  /\ \A r \in Requests : pc[r] = "using" =>
       LoginOf(held[r].token) = [provider |-> held[r].provider, browser |-> job[r].browser]

\* However often a callback is repeated or retried, one authorization code
\* makes at most one session.
OneSessionPerCode ==
  \A i, j \in Ids : origin[i] # None /\ origin[i] = origin[j] => i = j

\* Logout is final: the session it deleted is never in the cache again, and
\* no answer still on its way hands its id out.
LogoutFinal ==
  \A i \in loggedOut :
    /\ ~Found(cache, SessionKey(i))
    /\ \A r \in Requests : pc[r] = "answered" => answer[r].session # i

\* What the race of two Consumes can cost at most: a state is consumed no
\* more often than there are requests in flight at once, however often its
\* callback is followed.
ConsumesBounded == \A s \in Ids : wins[s] <= Cardinality(Requests)

\* Every session made from a state has been paid for with a Consume of its
\* own, also if the user has approved the login more than once and the
\* provider has issued several codes for it.
SessionsOf(s) == {i \in Ids : origin[i] # None /\ issued[origin[i]] = s}

SessionsPaidFor == \A s \in Ids : Cardinality(SessionsOf(s)) <= wins[s]

\* A callback that looks its state up after a Consume of it has finished is
\* refused at once: it asks the provider nothing and hands out no session.
ReplayRefused ==
  [][\A r \in Requests :
       /\ pc[r] = "called" /\ pc'[r] \notin {"called", "idle"}
       /\ job[r].kind = "callback"
       /\ job[r].state # None /\ wins[job[r].state] > 0
       => /\ pc'[r] = "answered" /\ answer'[r].session = Keep
          /\ answer'[r].outcome \in
               {"invalid state", "state expired or already used", "callback failed"}]_vars

\* The sessions of this module live as TicketLife promises,
SL == INSTANCE TicketLife WITH
        life <- [i \in Ids |-> IF Found(cache, SessionKey(i)) THEN "live"
                               ELSE IF origin[i] = None THEN "unborn" ELSE "ended"],
        held <- sessionCookie

SessionLifeSpec == SL!Spec

\* and so do the states of its logins.
ST == INSTANCE TicketLife WITH
        life <- [s \in Ids |-> IF Found(cache, StateKey(s)) THEN "live"
                               ELSE IF flow[s] = None THEN "unborn" ELSE "ended"],
        held <- stateCookie

StateLifeSpec == ST!Spec

\* The parts of a callback belong together: it is at its flow's provider, and
\* its code was issued for its state.
OfOneFlow(j) ==
  /\ flow[j.state].provider = j.provider
  /\ j.code # None /\ issued[j.code] = j.state

\* A callback whose state is still stored, whose cookie matches and whose
\* code is good.
GoodCallback(r) ==
  /\ pc[r] = "called" /\ job[r].kind = "callback"
  /\ StateMatches(job[r])
  /\ Found(cache, StateKey(job[r].state))
  /\ OfOneFlow(job[r])
  /\ job[r].code \notin burned

\* A callback in flight that takes state s, with a code or a path that was
\* not meant for it.
Spoiled(s) ==
  \E r \in Requests :
    /\ pc[r] # "idle" /\ job[r].kind = "callback"
    /\ job[r].state = s /\ StateMatches(job[r])
    /\ ~OfOneFlow(job[r])

\* With nothing going wrong outside, a good callback leads to a session for
\* its flow, also when the browser sends it twice at once: the duplicates
\* may fail, but never all of them, unless the state was taken by a callback
\* that could not use it.
DuplicatesOneWins ==
  \A s \in Ids :
    (\E r \in Requests : GoodCallback(r) /\ job[r].state = s)
      ~> \/ \E i \in Ids : origin[i] # None /\ issued[origin[i]] = s
         \/ Spoiled(s)

\* README.md, "Edge cases considered": a replayed state is answered with
\* "state expired or already used".
ReplayAnswer ==
  [][\A r \in Requests :
       /\ pc[r] = "called" /\ pc'[r] = "answered"
       /\ job[r].kind = "callback"
       /\ job[r].state # None
       /\ wins[job[r].state] > 0
       => answer'[r].outcome = "state expired or already used"]_vars
=============================================================================
