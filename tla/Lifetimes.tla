----------------------------- MODULE Lifetimes -----------------------------
(***************************************************************************)
(* What has a lifetime: the records in the one cache of the process, each  *)
(* with the TTL it was set with; the cookies that name the state and       *)
(* session records, each with the Max-Age the handler gave it; and the     *)
(* user records that GET /profile serves, which grow old in the cache.     *)
(*                                                                         *)
(* AuthFlow and ProfileFanout let a record expire at any moment.  Here     *)
(* time is discrete and relative: what is left of a lifetime is counted    *)
(* down, the age of data up, so nothing grows without bound.  A step of    *)
(* the process takes no time; time passes (Tick) when none is due.         *)
(*                                                                         *)
(* A ticket is a state or a session: a record and the cookie with its key. *)
(***************************************************************************)
EXTENDS Integers

CONSTANTS Tickets, Users, Requests,
          TTLs,             \* of tickets: auth.state_ttl, auth.session_ttl
          CacheTTL,         \* of user records: internal.cache_ttl
          Second,           \* in units of time
          MaxDelay,         \* bound on the way of an answer to its browser
          InternalTimeout,  \* internal.http_timeout
          OutboundTimeout   \* of the GitHub client, providers.go

\* A TTL of 0 means no expiry; the one of user records has a bound to prove.
ASSUME ConstantsOK ==
  /\ Tickets \cap Users = {}
  /\ TTLs \subseteq Nat
  /\ {CacheTTL, Second, InternalTimeout, OutboundTimeout} \subseteq Nat \ {0}
  /\ MaxDelay \in Nat

VARIABLES
  inCache,   \* inCache[k]: the cache has an item for key k, expired or not
  ttl,       \* ttl[k]: the TTL it was set with
  left,      \* left[k]: what is left of it
  cookie,    \* cookie[t]: where the cookie of ticket t is
  stay,      \* stay[t]: what is left of its Max-Age
  transit,   \* transit[t]: how long the answer with it was on its way
  recordAge, \* recordAge[u]: time since upstream read the cached record of u
  flight,    \* flight[u]: the upstream call for u
  spent,     \* spent[u]: how long it has taken so far
  callAge,   \* callAge[u]: time since upstream read the record it returns
  get,       \* get[r]: the internal-service branch of request r
  user,      \* user[r]: the user it is about
  userAge,   \* userAge[r]: time since upstream read the record it has got
  listing,   \* the requests whose provider call has not ended
  elapsed    \* elapsed[r]: how long it has taken so far

memory  == <<inCache, ttl, left>>
cookies == <<cookie, stay, transit>>
calls   == <<flight, spent, callAge>>
served  == <<get, user, userAge, listing, elapsed>>
vars    == <<memory, cookies, recordAge, calls, served>>

Keys == Tickets \cup Users

TypeOK ==
  /\ inCache \in [Keys -> BOOLEAN]
  /\ ttl \in [Keys -> TTLs \cup {0, CacheTTL}]
  /\ left \in [Keys -> Nat] /\ \A k \in Keys : left[k] <= ttl[k]
  /\ cookie \in [Tickets -> {"none", "coming", "held", "aged out", "lost"}]
  /\ stay \in [Tickets -> Nat]
  /\ transit \in [Tickets -> 0..MaxDelay]
  /\ recordAge \in [Users -> Nat]
  /\ flight \in [Users -> {"none", "asking", "read"}]
  /\ spent \in [Users -> 0..InternalTimeout]
  /\ callAge \in [Users -> 0..InternalTimeout]
  /\ get \in [Requests -> {"idle", "lookup", "missed", "waiting", "done", "failed"}]
  /\ user \in [Requests -> Users \cup {"nobody"}]
  /\ userAge \in [Requests -> Nat]
  /\ listing \subseteq Requests
  /\ elapsed \in [Requests -> 0..OutboundTimeout]

Init ==
  /\ inCache = [k \in Keys |-> FALSE]
  /\ ttl = [k \in Keys |-> 0] /\ left = [k \in Keys |-> 0]
  /\ cookie = [t \in Tickets |-> "none"]
  /\ stay = [t \in Tickets |-> 0] /\ transit = [t \in Tickets |-> 0]
  /\ recordAge = [u \in Users |-> 0]
  /\ flight = [u \in Users |-> "none"]
  /\ spent = [u \in Users |-> 0] /\ callAge = [u \in Users |-> 0]
  /\ get = [r \in Requests |-> "idle"] /\ user = [r \in Requests |-> "nobody"]
  /\ userAge = [r \in Requests |-> 0]
  /\ listing = {} /\ elapsed = [r \in Requests |-> 0]

-----------------------------------------------------------------------------
(* The cache                                                               *)

\* Get hides an expired item, whether or not the janitor has been there.
Hit(k) == inCache[k] /\ (ttl[k] = 0 \/ left[k] > 0)

\* Mutant: a hit extends the TTL, as it does by default.
Touch(k) == [left EXCEPT ![k] = ttl[k]]

\* What a hit does to the TTL: WithDisableTouchOnHit.
AfterHit(k) == left

Set(k, d) ==
  /\ inCache' = [inCache EXCEPT ![k] = TRUE]
  /\ ttl' = [ttl EXCEPT ![k] = d]
  /\ left' = [left EXCEPT ![k] = d]

\* Mutant: the janitor is never started.
NoJanitor(k) == FALSE

\* The janitor removes an expired item.
Expired(k) == inCache[k] /\ ~Hit(k)

Evict(k) ==
  /\ Expired(k)
  /\ inCache' = [inCache EXCEPT ![k] = FALSE]
  /\ UNCHANGED <<ttl, left, cookies, recordAge, calls, served>>

-----------------------------------------------------------------------------
(* Tickets                                                                 *)

\* Mutant: the seconds are rounded up.
MaxAgeUp(d) == ((d + Second - 1) \div Second) * Second

\* int(TTL.Seconds()): whole seconds.
MaxAge(d) == (d \div Second) * Second

\* StartFlow and HandleCallback put a new record; its cookie is in the answer.
Mint(t) ==
  /\ cookie[t] = "none"
  /\ \E d \in TTLs : Set(t, d)
  /\ cookie' = [cookie EXCEPT ![t] = "coming"]
  /\ UNCHANGED <<stay, transit, recordAge, calls, served>>

\* The answer arrives.  net/http leaves a Max-Age of 0 out of Set-Cookie: the
\* browser then keeps the cookie until it is closed.
Arrive(t) ==
  /\ cookie[t] = "coming"
  /\ cookie' = [cookie EXCEPT ![t] = "held"]
  /\ stay' = [stay EXCEPT ![t] = MaxAge(ttl[t])]
  /\ UNCHANGED <<memory, transit, recordAge, calls, served>>

\* The answer is lost, or the cookie is replaced, cleared or forgotten.
Lose(t) ==
  /\ cookie[t] \in {"coming", "held"}
  /\ cookie' = [cookie EXCEPT ![t] = "lost"]
  /\ UNCHANGED <<memory, stay, transit, recordAge, calls, served>>

\* Mutant: Delete lets the item expire at once, but a TTL of 0 means never.
DeleteByTTL(t) ==
  /\ cookie[t] = "held"
  /\ Set(t, 0)
  /\ UNCHANGED <<cookies, recordAge, calls, served>>

\* Logout of a session, Consume of a state.
Delete(t) ==
  /\ cookie[t] = "held"
  /\ inCache' = [inCache EXCEPT ![t] = FALSE]
  /\ UNCHANGED <<ttl, left, cookies, recordAge, calls, served>>

-----------------------------------------------------------------------------
(* GET /profile                                                            *)

\* WithSession finds the session, GetProfile begins its two calls.
Begin(r, t, u) ==
  /\ get[r] = "idle"
  /\ cookie[t] = "held" /\ Hit(t)
  /\ left' = AfterHit(t)
  /\ get' = [get EXCEPT ![r] = "lookup"]
  /\ user' = [user EXCEPT ![r] = u]
  /\ listing' = listing \cup {r}
  /\ UNCHANGED <<inCache, ttl, cookies, recordAge, calls, userAge, elapsed>>

Lookup(r) ==
  /\ get[r] = "lookup"
  /\ IF Hit(user[r])
     THEN /\ left' = AfterHit(user[r])
          /\ get' = [get EXCEPT ![r] = "done"]
          /\ userAge' = [userAge EXCEPT ![r] = recordAge[user[r]]]
     ELSE /\ get' = [get EXCEPT ![r] = "missed"]
          /\ UNCHANGED <<left, userAge>>
  /\ UNCHANGED <<inCache, ttl, cookies, recordAge, calls, user, listing, elapsed>>

\* Lead the flight for the user, or join the one there is.
Do(r) ==
  /\ get[r] = "missed"
  /\ IF flight[user[r]] = "none"
     THEN flight' = [flight EXCEPT ![user[r]] = "asking"]
     ELSE UNCHANGED flight
  /\ get' = [get EXCEPT ![r] = "waiting"]
  /\ UNCHANGED <<memory, cookies, recordAge, spent, callAge, user, userAge, listing, elapsed>>

\* Upstream looks the user up in its table; the answer is on its way.
UpstreamReads(u) ==
  /\ flight[u] = "asking"
  /\ flight' = [flight EXCEPT ![u] = "read"]
  /\ UNCHANGED <<memory, cookies, recordAge, spent, callAge, served>>

\* The flight ends, with the record or an error, for all that wait for it.
Waiting(u) == {r \in Requests : get[r] = "waiting" /\ user[r] = u}

Land(u) ==
  /\ flight[u] # "none"
  /\ flight' = [flight EXCEPT ![u] = "none"]
  /\ \/ /\ flight[u] = "read"
        /\ Set(u, CacheTTL)
        /\ recordAge' = [recordAge EXCEPT ![u] = callAge[u]]
        /\ get' = [r \in Requests |-> IF r \in Waiting(u) THEN "done" ELSE get[r]]
        /\ userAge' = [r \in Requests |-> IF r \in Waiting(u) THEN callAge[u] ELSE userAge[r]]
     \/ /\ get' = [r \in Requests |-> IF r \in Waiting(u) THEN "failed" ELSE get[r]]
        /\ UNCHANGED <<memory, recordAge, userAge>>
  /\ spent' = [spent EXCEPT ![u] = 0] /\ callAge' = [callAge EXCEPT ![u] = 0]
  /\ UNCHANGED <<cookies, user, listing, elapsed>>

\* The provider call ends, with a result or an error.
ListEnds(r) ==
  /\ r \in listing
  /\ listing' = listing \ {r}
  /\ elapsed' = [elapsed EXCEPT ![r] = 0]
  /\ UNCHANGED <<memory, cookies, recordAge, calls, get, user, userAge>>

\* Both branches have returned: the record, if there is one, is served.
Serve(r) ==
  /\ get[r] \in {"done", "failed"} /\ r \notin listing
  /\ get' = [get EXCEPT ![r] = "idle"]
  /\ userAge' = [userAge EXCEPT ![r] = 0]
  /\ UNCHANGED <<memory, cookies, recordAge, calls, user, listing, elapsed>>

-----------------------------------------------------------------------------
(* Time                                                                    *)

\* Mutant: the client of the internal service has no timeout.
CallUnbounded(u) == FALSE

\* A call does not outlive the timeout of its client.
CallDue(u) == flight[u] # "none" /\ spent[u] >= InternalTimeout

Due ==
  \/ \E t \in Tickets : cookie[t] = "coming" /\ transit[t] >= MaxDelay
  \/ \E u \in Users : CallDue(u)
  \/ \E r \in Requests : \/ get[r] \in {"lookup", "missed"}
                         \/ r \in listing /\ elapsed[r] >= OutboundTimeout
                         \/ get[r] \in {"done", "failed"} /\ r \notin listing

Less(n) == IF n > 0 THEN n - 1 ELSE 0

\* A cookie with a Max-Age goes when that has run out.
Tick ==
  /\ ~Due
  /\ left' = [k \in Keys |-> Less(left[k])]
  /\ cookie' = [t \in Tickets |-> IF cookie[t] = "held" /\ stay[t] = 1 THEN "aged out" ELSE cookie[t]]
  /\ stay' = [t \in Tickets |-> Less(stay[t])]
  /\ transit' = [t \in Tickets |-> IF cookie[t] = "coming" THEN transit[t] + 1 ELSE transit[t]]
  /\ recordAge' = [u \in Users |-> IF Hit(u) THEN recordAge[u] + 1 ELSE 0]
  /\ spent' = [u \in Users |-> IF flight[u] # "none" THEN spent[u] + 1 ELSE spent[u]]
  /\ callAge' = [u \in Users |-> IF flight[u] = "read" THEN callAge[u] + 1 ELSE callAge[u]]
  /\ userAge' = [r \in Requests |-> IF get[r] = "done" THEN userAge[r] + 1 ELSE userAge[r]]
  /\ elapsed' = [r \in Requests |-> IF r \in listing THEN elapsed[r] + 1 ELSE elapsed[r]]
  /\ UNCHANGED <<inCache, ttl, flight, get, user, listing>>

Handle(r) == Lookup(r) \/ Do(r) \/ ListEnds(r) \/ Serve(r)

Next ==
  \/ \E k \in Keys : Evict(k)
  \/ \E t \in Tickets : Mint(t) \/ Arrive(t) \/ Lose(t) \/ Delete(t)
  \/ \E r \in Requests : Handle(r)
  \/ \E r \in Requests, t \in Tickets, u \in Users : Begin(r, t, u)
  \/ \E u \in Users : UpstreamReads(u) \/ Land(u)
  \/ Tick

Spec == Init /\ [][Next]_vars

\* The janitor and the handlers run when they can, and calls and answers
\* come to an end.  The clock does not stop because requests keep coming,
\* hence its strong fairness.
FairSpec ==
  /\ Spec
  /\ \A k \in Keys : WF_vars(Evict(k))
  /\ \A t \in Tickets : WF_vars(Arrive(t) \/ Lose(t))
  /\ \A u \in Users : WF_vars(Land(u))
  /\ \A r \in Requests : WF_vars(Handle(r))
  /\ SF_vars(Tick)

-----------------------------------------------------------------------------
(* Properties                                                              *)

\* A cookie and its record live equally long, as far as whole seconds and
\* the network allow: its Max-Age takes a cookie from the browser only in
\* the last second of the record, and the cookie outlives the TTL of the
\* record at most by the time its answer was on its way.  Below one second
\* there is no Max-Age, and the cookie stays.
InStep ==
  \A t \in Tickets :
    /\ cookie[t] = "aged out" => left[t] < Second
    /\ cookie[t] = "held" /\ ttl[t] >= Second => stay[t] <= left[t] + transit[t]

\* With TTLs and Max-Ages that run out, a janitor that is late and cookies
\* that outlive their records, tickets still live as TicketLife promises: a
\* record that could not be found any more is never found again.  Each
\* ticket is in a jar of its own here.
TL == INSTANCE TicketLife WITH
        Ids <- Tickets, Browsers <- Tickets, None <- "nobody",
        life <- [t \in Tickets |-> IF Hit(t) THEN "live"
                                   ELSE IF cookie[t] = "none" THEN "unborn" ELSE "ended"],
        held <- [t \in Tickets |-> IF cookie[t] = "held" THEN t ELSE "nobody"]

TicketLifeSpec == TL!Spec

\* No user that /profile serves was read by upstream longer ago than one call
\* to it, the TTL of the cache and one call to the provider take together: a
\* user that is changed or removed is gone from all answers after that.
Fresh ==
  \A r \in Requests : get[r] = "done" =>
    userAge[r] < InternalTimeout + CacheTTL + OutboundTimeout

\* No ticket with a TTL stays in memory: a login that was begun and given up,
\* or a session that nobody logs out of, costs nothing for ever.
Freed == \A t \in Tickets : inCache[t] /\ ttl[t] > 0 ~> ~inCache[t]
=============================================================================
