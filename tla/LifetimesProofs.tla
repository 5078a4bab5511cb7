-------------------------- MODULE LifetimesProofs --------------------------
(***************************************************************************)
(* Theorems about Lifetimes for any TTLs, timeouts and unit of time, and   *)
(* any number of tickets, users and requests.                              *)
(***************************************************************************)
EXTENDS Lifetimes, TLAPS

\* What a Max-Age is to the TTL it was made from, and what happens to both
\* while the answer is on its way and after it has arrived.
TicketsAged ==
  \A t \in Tickets :
    /\ cookie[t] = "coming" => ttl[t] <= left[t] + transit[t]
    /\ cookie[t] = "held" =>
         left[t] < stay[t] + Second /\ stay[t] <= left[t] + transit[t]
    /\ cookie[t] = "aged out" => left[t] < Second

\* The longest that a record can be old when the cache still returns it.
Oldest == InternalTimeout + CacheTTL - 1

\* A cached user record and what is left of its TTL together never exceed
\* what they were when it was stored.
UsersAged ==
  \A u \in Users :
    /\ inCache[u] => ttl[u] = CacheTTL
    /\ Hit(u) => recordAge[u] + left[u] <= InternalTimeout + CacheTTL
    /\ callAge[u] <= spent[u]

\* A record that waits for the provider ages with the provider's call.
ServedAged ==
  \A r \in Requests :
    /\ get[r] \in {"lookup", "missed"} => user[r] \in Users
    /\ get[r] = "done" => userAge[r] <= Oldest + OutboundTimeout
    /\ get[r] = "done" /\ r \in listing => userAge[r] <= Oldest + elapsed[r]

Inv == TypeOK /\ TicketsAged /\ UsersAged /\ ServedAged

\* The constants are numbers.
LEMMA Numbers ==
  /\ CacheTTL \in Nat /\ CacheTTL > 0 /\ Second \in Nat /\ Second > 0
  /\ InternalTimeout \in Nat /\ InternalTimeout > 0
  /\ OutboundTimeout \in Nat /\ OutboundTimeout > 0
  /\ MaxDelay \in Nat /\ Oldest \in Nat
BY ConstantsOK DEF Oldest

\* Truncating to whole seconds loses less than a second, and adds none.
LEMMA WholeSeconds ==
  ASSUME NEW d \in Nat
  PROVE  MaxAge(d) \in Nat /\ MaxAge(d) <= d /\ d < MaxAge(d) + Second
BY Numbers DEF MaxAge

\* What the types say of one key, ticket, user and request.
LEMMA Counters ==
  ASSUME TypeOK
  PROVE  /\ \A k \in Keys : ttl[k] \in Nat /\ left[k] \in Nat /\ left[k] <= ttl[k]
         /\ \A t \in Tickets : t \in Keys /\ t \notin Users
                               /\ stay[t] \in Nat /\ transit[t] \in Nat /\ transit[t] <= MaxDelay
         /\ \A u \in Users : /\ u \in Keys /\ u \notin Tickets /\ recordAge[u] \in Nat
                             /\ spent[u] \in Nat /\ spent[u] <= InternalTimeout
                             /\ callAge[u] \in Nat /\ callAge[u] <= InternalTimeout
         /\ \A r \in Requests : /\ userAge[r] \in Nat
                                /\ elapsed[r] \in Nat /\ elapsed[r] <= OutboundTimeout
<1>1. \A k \in Keys : ttl[k] \in Nat /\ left[k] \in Nat /\ left[k] <= ttl[k]
  <2>1. TTLs \cup {0, CacheTTL} \subseteq Nat
    BY ConstantsOK, Numbers
  <2>2. \A k \in Keys : ttl[k] \in TTLs \cup {0, CacheTTL}
    BY DEF TypeOK
  <2> QED BY <2>1, <2>2 DEF TypeOK
<1>2. \A t \in Tickets : t \in Keys /\ t \notin Users
  BY ConstantsOK DEF Keys
<1>3. \A t \in Tickets : stay[t] \in Nat /\ transit[t] \in 0..MaxDelay
  BY DEF TypeOK
<1>4. \A u \in Users : u \in Keys /\ u \notin Tickets
  BY ConstantsOK DEF Keys
<1>5. \A u \in Users : recordAge[u] \in Nat /\ spent[u] \in 0..InternalTimeout
                       /\ callAge[u] \in 0..InternalTimeout
  BY DEF TypeOK
<1>6. \A r \in Requests : userAge[r] \in Nat /\ elapsed[r] \in 0..OutboundTimeout
  BY DEF TypeOK
<1> QED BY <1>1, <1>2, <1>3, <1>4, <1>5, <1>6, Numbers

\* Counting down loses one, or nothing at zero.
LEMMA Countdown ==
  ASSUME NEW n \in Nat
  PROVE  /\ Less(n) \in Nat /\ Less(n) <= n /\ n <= Less(n) + 1
         /\ n > 0 => Less(n) = n - 1
         /\ n = 0 => Less(n) = 0
BY DEF Less

\* A bound stays one.
LEMMA Lower ==
  ASSUME NEW l \in Nat, l < Second
  PROVE  Less(l) < Second
BY Numbers DEF Less

\* What is left of a record whose cookie is on its way ...
LEMMA Underway ==
  ASSUME NEW l \in Nat, NEW w \in Nat, NEW d \in Nat, d <= l + w
  PROVE  d <= Less(l) + (w + 1)
BY DEF Less

\* ... and in the browser, where both run down together.
LEMMA Together ==
  ASSUME NEW l \in Nat, NEW s \in Nat, NEW w \in Nat, l < s + Second, s <= l + w
  PROVE  /\ Less(l) < Less(s) + Second /\ Less(s) <= Less(l) + w
         /\ s = 1 => Less(l) < Second
BY Numbers DEF Less

\* Nothing is stored, held or under way in the first state.
LEMMA InvInit == Init => Inv
<1> SUFFICES ASSUME Init PROVE Inv
  OBVIOUS
<1>1. 0 \in 0..MaxDelay /\ 0 \in 0..InternalTimeout /\ 0 \in 0..OutboundTimeout
  BY Numbers
<1>2. TypeOK
  BY <1>1 DEF Init, TypeOK
<1>3. TicketsAged
  BY DEF Init, TicketsAged
<1>4. UsersAged
  BY <1>2, Numbers, Counters DEF Init, UsersAged, Hit
<1>5. ServedAged
  BY DEF Init, ServedAged
<1> QED BY <1>2, <1>3, <1>4, <1>5 DEF Inv

\* What the janitor removes was no hit.
LEMMA EvictInductive ==
  ASSUME Inv, NEW k \in Keys, Evict(k)
  PROVE  Inv'
<1> USE DEF Inv
<1>1. UNCHANGED <<ttl, left, cookies, recordAge, calls, served>>
  BY DEF Evict
<1>2. \A j \in Keys : inCache'[j] \in BOOLEAN /\ (inCache'[j] => inCache[j])
  BY DEF Evict, TypeOK
<1>3. TypeOK'
  BY <1>1 DEF Evict, TypeOK, cookies, calls, served
<1>4. TicketsAged' /\ ServedAged'
  BY <1>1 DEF TicketsAged, ServedAged, cookies, served
<1>5. UsersAged'
  BY <1>1, <1>2, Counters DEF UsersAged, Hit, calls
<1> QED BY <1>3, <1>4, <1>5

\* A ticket is minted, arrives, is lost or deleted.
LEMMA TicketInductive ==
  ASSUME Inv, NEW t \in Tickets, Mint(t) \/ Arrive(t) \/ Lose(t) \/ Delete(t)
  PROVE  Inv'
<1> USE DEF Inv
<1>1. UNCHANGED <<transit, recordAge, calls, served>>
  BY DEF Mint, Arrive, Lose, Delete, cookies
<1>2. ServedAged'
  BY <1>1 DEF ServedAged, served
<1>3. t \in Keys /\ t \notin Users
  BY Counters
<1>4. CASE Mint(t)
  <2>1. PICK d \in TTLs : Set(t, d)
    BY <1>4 DEF Mint
  <2>2. d \in Nat
    BY ConstantsOK
  <2>3. /\ ttl'[t] = d /\ left'[t] = d
        /\ \A k \in Keys : k # t => inCache'[k] = inCache[k] /\ ttl'[k] = ttl[k] /\ left'[k] = left[k]
    BY <1>3, <2>1 DEF Set, TypeOK
  <2>4. TypeOK'
    <3>1. /\ inCache' \in [Keys -> BOOLEAN] /\ ttl' \in [Keys -> TTLs \cup {0, CacheTTL}]
          /\ left' \in [Keys -> Nat]
      BY <2>1, <2>2 DEF Set, TypeOK
    <3>2. \A k \in Keys : left'[k] <= ttl'[k]
      BY <2>2, <2>3, Counters
    <3> QED BY <1>1, <1>4, <3>1, <3>2 DEF Mint, TypeOK, calls, served
  <2>5. TicketsAged'
    <3>1. \A s \in Tickets : s # t =>
            /\ cookie'[s] = cookie[s] /\ stay'[s] = stay[s] /\ transit'[s] = transit[s]
            /\ ttl'[s] = ttl[s] /\ left'[s] = left[s]
      BY <1>1, <1>4, <2>3, Counters DEF Mint, TypeOK
    <3>2. cookie'[t] = "coming" /\ transit'[t] = transit[t]
      BY <1>1, <1>4 DEF Mint, TypeOK
    <3>3. ttl'[t] <= left'[t] + transit'[t]
      BY <2>2, <2>3, <3>2, Counters
    <3> SUFFICES ASSUME NEW s \in Tickets
                 PROVE  /\ cookie'[s] = "coming" => ttl'[s] <= left'[s] + transit'[s]
                        /\ cookie'[s] = "held" =>
                             left'[s] < stay'[s] + Second /\ stay'[s] <= left'[s] + transit'[s]
                        /\ cookie'[s] = "aged out" => left'[s] < Second
      BY DEF TicketsAged
    <3>4. CASE s = t
      BY <3>2, <3>3, <3>4
    <3>5. CASE s # t
      BY <3>1, <3>5 DEF TicketsAged
    <3> QED BY <3>4, <3>5
  <2>6. UsersAged'
    BY <1>1, <1>3, <2>3, Counters DEF UsersAged, Hit, calls
  <2> QED BY <1>2, <2>4, <2>5, <2>6
<1>5. CASE Arrive(t)
  <2>1. UNCHANGED memory /\ cookie[t] = "coming"
    BY <1>5 DEF Arrive
  <2>2. /\ cookie'[t] = "held" /\ stay'[t] = MaxAge(ttl[t])
        /\ \A s \in Tickets : s # t => cookie'[s] = cookie[s] /\ stay'[s] = stay[s]
    BY <1>5 DEF Arrive, TypeOK
  <2>3. /\ MaxAge(ttl[t]) \in Nat /\ MaxAge(ttl[t]) <= ttl[t]
        /\ ttl[t] < MaxAge(ttl[t]) + Second
    BY WholeSeconds, Counters
  <2>4. TypeOK'
    BY <1>1, <1>5, <2>1, <2>3 DEF Arrive, TypeOK, memory, calls, served
  <2>5. left'[t] < stay'[t] + Second /\ stay'[t] <= left'[t] + transit'[t]
    <3>1. ttl[t] <= left[t] + transit[t] /\ left[t] <= ttl[t]
      BY <2>1, Counters DEF TicketsAged
    <3>2. left'[t] = left[t] /\ transit'[t] = transit[t]
      BY <1>1, <2>1 DEF memory
    <3> QED BY <2>2, <2>3, <3>1, <3>2, Counters, Numbers
  <2>6. TicketsAged'
    BY <1>1, <2>1, <2>2, <2>5 DEF TicketsAged, memory
  <2>7. UsersAged'
    BY <1>1, <2>1 DEF UsersAged, Hit, memory, calls
  <2> QED BY <1>2, <2>4, <2>6, <2>7
<1>6. CASE Lose(t)
  <2>1. UNCHANGED <<memory, stay>> /\ \A s \in Tickets : cookie'[s] \in {cookie[s], "lost"}
    BY <1>6 DEF Lose, TypeOK
  <2>2. TypeOK'
    BY <1>1, <1>6 DEF Lose, TypeOK, memory, calls, served
  <2>3. TicketsAged' /\ UsersAged'
    BY <1>1, <2>1 DEF TicketsAged, UsersAged, Hit, memory, calls
  <2> QED BY <1>2, <2>2, <2>3
<1>7. CASE Delete(t)
  <2>1. UNCHANGED <<ttl, left, cookie, stay>>
    BY <1>7 DEF Delete, cookies
  <2>2. TypeOK'
    BY <1>1, <1>7 DEF Delete, TypeOK, cookies, calls, served
  <2>3. \A u \in Users : inCache'[u] = inCache[u]
    BY <1>3, <1>7, Counters DEF Delete, TypeOK
  <2>4. TicketsAged' /\ UsersAged'
    BY <1>1, <2>1, <2>3 DEF TicketsAged, UsersAged, Hit, calls
  <2> QED BY <1>2, <2>2, <2>4
<1> QED BY <1>4, <1>5, <1>6, <1>7

\* A request moves on without a flight landing.
LEMMA RequestInductive ==
  ASSUME Inv, NEW r \in Requests,
         Handle(r) \/ \E t \in Tickets, u \in Users : Begin(r, t, u)
  PROVE  Inv'
<1> USE DEF Inv
<1>1. UNCHANGED <<memory, cookies, recordAge, spent, callAge>>
  BY DEF Handle, Lookup, Do, ListEnds, Serve, Begin, AfterHit, memory, calls
<1>2. TicketsAged' /\ UsersAged'
  BY <1>1 DEF TicketsAged, UsersAged, Hit, memory, cookies
<1>3. ASSUME flight' \in [Users -> {"none", "asking", "read"}],
             get' \in [Requests -> {"idle", "lookup", "missed", "waiting", "done", "failed"}],
             user' \in [Requests -> Users \cup {"nobody"}],
             userAge' \in [Requests -> Nat], listing' \subseteq Requests,
             elapsed' \in [Requests -> 0..OutboundTimeout]
      PROVE  TypeOK'
  BY <1>1, <1>3 DEF TypeOK, memory, cookies
<1>4. ASSUME NEW t \in Tickets, NEW u \in Users, Begin(r, t, u)
      PROVE  Inv'
  <2>1. TypeOK'
    BY <1>3, <1>4 DEF Begin, TypeOK, calls
  <2>2. /\ \A q \in Requests : q # r => /\ get'[q] = get[q] /\ user'[q] = user[q]
                                        /\ (q \in listing' <=> q \in listing)
        /\ get'[r] = "lookup" /\ user'[r] = u /\ UNCHANGED <<userAge, elapsed>>
    BY <1>4 DEF Begin, TypeOK
  <2>3. ServedAged'
    BY <2>2 DEF ServedAged
  <2> QED BY <1>2, <2>1, <2>3
<1>5. CASE Lookup(r)
  <2>1. user[r] \in Users
    BY <1>5 DEF Lookup, ServedAged
  <2>2. UNCHANGED <<flight, user, listing, elapsed>>
    BY <1>5 DEF Lookup, calls
  <2>3. \A q \in Requests : q # r => get'[q] = get[q] /\ userAge'[q] = userAge[q]
    BY <1>5 DEF Lookup, TypeOK
  <2>4. CASE Hit(user[r])
    <3>1. /\ get' = [get EXCEPT ![r] = "done"]
          /\ userAge' = [userAge EXCEPT ![r] = recordAge[user[r]]]
      BY <1>5, <2>4 DEF Lookup
    <3>2. TypeOK'
      BY <1>3, <2>1, <2>2, <3>1, Counters DEF TypeOK
    <3>3. recordAge[user[r]] <= Oldest
      <4>1. ttl[user[r]] = CacheTTL /\ left[user[r]] > 0
        BY <2>1, <2>4, Numbers DEF UsersAged, Hit
      <4>2. recordAge[user[r]] + left[user[r]] <= InternalTimeout + CacheTTL
        BY <2>1, <2>4 DEF UsersAged
      <4> QED BY <2>1, <4>1, <4>2, Counters, Numbers DEF Oldest
    <3>4. get'[r] = "done" /\ userAge'[r] <= Oldest /\ userAge'[r] \in Nat
      BY <2>1, <3>1, <3>3, Counters DEF TypeOK
    <3>5. ServedAged'
      BY <2>2, <2>3, <3>4, Counters, Numbers DEF ServedAged
    <3> QED BY <1>2, <3>2, <3>5
  <2>5. CASE ~Hit(user[r])
    <3>1. get' = [get EXCEPT ![r] = "missed"] /\ UNCHANGED userAge
      BY <1>5, <2>5 DEF Lookup
    <3>2. TypeOK'
      BY <1>3, <2>2, <3>1 DEF TypeOK
    <3>3. ServedAged'
      BY <2>1, <2>2, <2>3, <3>1 DEF ServedAged, TypeOK
    <3> QED BY <1>2, <3>2, <3>3
  <2> QED BY <2>4, <2>5
<1>6. CASE Do(r)
  <2>1. TypeOK'
    BY <1>3, <1>6 DEF Do, TypeOK
  <2>2. ServedAged'
    BY <1>6 DEF Do, ServedAged, TypeOK
  <2> QED BY <1>2, <2>1, <2>2
<1>7. CASE ListEnds(r)
  <2>1. 0 \in 0..OutboundTimeout
    BY Numbers
  <2>2. TypeOK'
    BY <1>3, <1>7, <2>1 DEF ListEnds, TypeOK, calls
  <2>3. ServedAged'
    BY <1>7 DEF ListEnds, ServedAged, TypeOK
  <2> QED BY <1>2, <2>2, <2>3
<1>8. CASE Serve(r)
  <2>1. TypeOK'
    BY <1>3, <1>8 DEF Serve, TypeOK, calls
  <2>2. ServedAged'
    BY <1>8 DEF Serve, ServedAged, TypeOK
  <2> QED BY <1>2, <2>1, <2>2
<1> QED BY <1>4, <1>5, <1>6, <1>7, <1>8 DEF Handle

\* The upstream call for a user: what lands is as old as the call at most.
LEMMA FlightInductive ==
  ASSUME Inv, NEW u \in Users, UpstreamReads(u) \/ Land(u)
  PROVE  Inv'
<1> USE DEF Inv
<1>1. CASE UpstreamReads(u)
  <2>1. UNCHANGED <<memory, cookies, recordAge, spent, callAge, served>>
    BY <1>1 DEF UpstreamReads
  <2>2. TypeOK'
    BY <1>1 DEF UpstreamReads, TypeOK, memory, cookies, served
  <2>3. TicketsAged' /\ UsersAged' /\ ServedAged'
    BY <2>1 DEF TicketsAged, UsersAged, ServedAged, Hit, memory, cookies, served
  <2> QED BY <2>2, <2>3
<1>2. CASE Land(u)
  <2>1. UNCHANGED <<cookies, user, listing, elapsed>>
    BY <1>2 DEF Land
  <2>2. /\ u \in Keys /\ u \notin Tickets
        /\ callAge[u] \in Nat /\ callAge[u] <= InternalTimeout
    BY Counters
  <2>3. /\ flight' \in [Users -> {"none", "asking", "read"}]
        /\ spent' \in [Users -> 0..InternalTimeout] /\ callAge' \in [Users -> 0..InternalTimeout]
        /\ \A v \in Users : callAge'[v] <= spent'[v]
    <3>1. 0 \in 0..InternalTimeout
      BY Numbers
    <3>2. /\ flight' = [flight EXCEPT ![u] = "none"]
          /\ spent' = [spent EXCEPT ![u] = 0] /\ callAge' = [callAge EXCEPT ![u] = 0]
      BY <1>2 DEF Land
    <3>3. flight' \in [Users -> {"none", "asking", "read"}]
      BY <3>2 DEF TypeOK
    <3>4. spent' \in [Users -> 0..InternalTimeout] /\ callAge' \in [Users -> 0..InternalTimeout]
      BY <3>1, <3>2 DEF TypeOK
    <3>5. \A v \in Users : /\ v = u => callAge'[v] = 0 /\ spent'[v] = 0
                           /\ v # u => callAge'[v] = callAge[v] /\ spent'[v] = spent[v]
      BY <3>2 DEF TypeOK
    <3>6. \A v \in Users : callAge'[v] <= spent'[v]
      BY <3>5 DEF UsersAged
    <3> QED BY <3>3, <3>4, <3>6
  <2>4. CASE /\ Set(u, CacheTTL)
             /\ recordAge' = [recordAge EXCEPT ![u] = callAge[u]]
             /\ get' = [r \in Requests |-> IF r \in Waiting(u) THEN "done" ELSE get[r]]
             /\ userAge' = [r \in Requests |-> IF r \in Waiting(u) THEN callAge[u] ELSE userAge[r]]
    <3>1. /\ inCache'[u] = TRUE /\ ttl'[u] = CacheTTL /\ left'[u] = CacheTTL
          /\ \A k \in Keys : k # u => inCache'[k] = inCache[k] /\ ttl'[k] = ttl[k] /\ left'[k] = left[k]
      BY <2>2, <2>4 DEF Set, TypeOK
    <3>2. /\ recordAge'[u] = callAge[u]
          /\ \A v \in Users : v # u => recordAge'[v] = recordAge[v]
      BY <2>4 DEF TypeOK
    <3>3. TypeOK'
      <4>1. /\ inCache' \in [Keys -> BOOLEAN] /\ ttl' \in [Keys -> TTLs \cup {0, CacheTTL}]
            /\ left' \in [Keys -> Nat]
        BY <2>4, Numbers DEF Set, TypeOK
      <4>2. \A k \in Keys : left'[k] <= ttl'[k]
        BY <3>1, Counters, Numbers
      <4>3. recordAge' \in [Users -> Nat]
        BY <2>2, <2>4 DEF TypeOK
      <4>4. /\ get' \in [Requests -> {"idle", "lookup", "missed", "waiting", "done", "failed"}]
            /\ userAge' \in [Requests -> Nat]
        BY <2>2, <2>4, Counters DEF TypeOK
      <4> QED BY <2>1, <2>3, <4>1, <4>2, <4>3, <4>4 DEF TypeOK, cookies
    <3>4. TicketsAged'
      BY <2>1, <2>2, <3>1, Counters DEF TicketsAged, cookies
    <3>5. UsersAged'
      BY <2>2, <2>3, <3>1, <3>2, Counters, Numbers DEF UsersAged, Hit
    <3>6. ServedAged'
      <4> SUFFICES ASSUME NEW r \in Requests
                   PROVE  /\ get'[r] \in {"lookup", "missed"} => user[r] \in Users
                          /\ get'[r] = "done" => userAge'[r] <= Oldest + OutboundTimeout
                          /\ get'[r] = "done" /\ r \in listing => userAge'[r] <= Oldest + elapsed[r]
        BY <2>1 DEF ServedAged
      <4>1. CASE r \in Waiting(u)
        <5>1. get'[r] = "done" /\ userAge'[r] = callAge[u]
          BY <2>4, <4>1
        <5>2. callAge[u] <= Oldest
          BY <2>2, Numbers DEF Oldest
        <5> QED BY <2>2, <5>1, <5>2, Counters, Numbers
      <4>2. CASE r \notin Waiting(u)
        BY <2>4, <4>2 DEF ServedAged
      <4> QED BY <4>1, <4>2
    <3> QED BY <3>3, <3>4, <3>5, <3>6
  <2>5. CASE /\ get' = [r \in Requests |-> IF r \in Waiting(u) THEN "failed" ELSE get[r]]
             /\ UNCHANGED <<memory, recordAge, userAge>>
    <3>1. TypeOK'
      BY <2>1, <2>3, <2>5 DEF TypeOK, memory, cookies
    <3>2. TicketsAged' /\ UsersAged'
      BY <2>1, <2>3, <2>5 DEF TicketsAged, UsersAged, Hit, memory, cookies
    <3>3. ServedAged'
      BY <2>1, <2>5 DEF ServedAged
    <3> QED BY <3>1, <3>2, <3>3
  <2> QED BY <1>2, <2>4, <2>5 DEF Land
<1> QED BY <1>1, <1>2

\* Time: what is left and what has aged change together.
LEMMA TickInductive == Inv /\ Tick => Inv'
<1> SUFFICES ASSUME Inv, Tick PROVE Inv'
  OBVIOUS
<1> USE DEF Inv
<1>1. UNCHANGED <<inCache, ttl, flight, get, user, listing>>
  BY DEF Tick
<1>2. \A k \in Keys : left'[k] = Less(left[k])
  BY DEF Tick
<1>3. \A t \in Tickets :
        /\ cookie'[t] = IF cookie[t] = "held" /\ stay[t] = 1 THEN "aged out" ELSE cookie[t]
        /\ stay'[t] = Less(stay[t])
        /\ transit'[t] = IF cookie[t] = "coming" THEN transit[t] + 1 ELSE transit[t]
        /\ cookie[t] = "coming" => transit[t] < MaxDelay
  <2>1. \A t \in Tickets : ~(cookie[t] = "coming" /\ transit[t] >= MaxDelay)
    BY DEF Tick, Due
  <2>2. \A t \in Tickets : cookie[t] = "coming" => transit[t] < MaxDelay
    BY <2>1, Counters, Numbers
  <2> QED BY <2>2 DEF Tick
<1>4. \A u \in Users :
        /\ recordAge'[u] = IF Hit(u) THEN recordAge[u] + 1 ELSE 0
        /\ spent'[u] = IF flight[u] # "none" THEN spent[u] + 1 ELSE spent[u]
        /\ callAge'[u] = IF flight[u] = "read" THEN callAge[u] + 1 ELSE callAge[u]
        /\ flight[u] # "none" => spent[u] < InternalTimeout
  <2>1. \A u \in Users : ~(flight[u] # "none" /\ spent[u] >= InternalTimeout)
    BY DEF Tick, Due, CallDue
  <2>2. \A u \in Users : flight[u] # "none" => spent[u] < InternalTimeout
    BY <2>1, Counters, Numbers
  <2> QED BY <2>2 DEF Tick
<1>5. \A r \in Requests :
        /\ userAge'[r] = IF get[r] = "done" THEN userAge[r] + 1 ELSE userAge[r]
        /\ elapsed'[r] = IF r \in listing THEN elapsed[r] + 1 ELSE elapsed[r]
        /\ r \in listing => elapsed[r] < OutboundTimeout
        /\ get[r] = "done" => r \in listing
  <2>1. \A r \in Requests : /\ ~(r \in listing /\ elapsed[r] >= OutboundTimeout)
                            /\ get[r] = "done" => r \in listing
    BY DEF Tick, Due
  <2>2. \A r \in Requests : r \in listing => elapsed[r] < OutboundTimeout
    BY <2>1, Counters, Numbers
  <2> QED BY <2>1, <2>2 DEF Tick
<1>6. \A k \in Keys : left'[k] \in Nat /\ left'[k] <= left[k] /\ left[k] <= left'[k] + 1
  BY <1>2, Countdown, Counters
<1>7. TypeOK'
  <2>1. left' \in [Keys -> Nat] /\ \A k \in Keys : left'[k] <= ttl'[k]
    <3>1. left' \in [Keys -> Nat]
      BY <1>2, <1>6 DEF Tick
    <3>2. \A k \in Keys : left'[k] <= ttl'[k]
      BY <1>1, <1>6, Counters
    <3> QED BY <3>1, <3>2
  <2>2. /\ cookie' \in [Tickets -> {"none", "coming", "held", "aged out", "lost"}]
        /\ stay' \in [Tickets -> Nat]
    <3>1. \A t \in Tickets : stay'[t] \in Nat
      BY <1>3, Counters, Countdown
    <3>2. \A t \in Tickets : cookie'[t] \in {"none", "coming", "held", "aged out", "lost"}
      BY <1>3 DEF TypeOK
    <3>3. DOMAIN stay' = Tickets /\ stay' = [t \in Tickets |-> stay'[t]]
      BY DEF Tick
    <3>4. cookie' = [t \in Tickets |-> cookie'[t]]
      BY DEF Tick
    <3> QED BY <3>1, <3>2, <3>3, <3>4
  <2>3. transit' \in [Tickets -> 0..MaxDelay]
    <3>1. \A t \in Tickets : transit'[t] \in 0..MaxDelay
      <4> SUFFICES ASSUME NEW t \in Tickets PROVE transit'[t] \in 0..MaxDelay
        OBVIOUS
      <4>1. transit[t] \in Nat /\ transit[t] <= MaxDelay
        BY Counters
      <4>2. CASE cookie[t] = "coming"
        <5>1. transit'[t] = transit[t] + 1 /\ transit[t] < MaxDelay
          BY <1>3, <4>2
        <5> QED BY <4>1, <5>1, Numbers
      <4>3. CASE cookie[t] # "coming"
        <5>1. transit'[t] = transit[t]
          BY <1>3, <4>3
        <5> QED BY <4>1, <5>1, Numbers
      <4> QED BY <4>2, <4>3
    <3>2. transit' = [t \in Tickets |-> transit'[t]]
      BY DEF Tick
    <3> QED BY <3>1, <3>2
  <2>4. recordAge' \in [Users -> Nat]
    <3>1. \A u \in Users : recordAge'[u] \in Nat
      BY <1>4, Counters
    <3>2. recordAge' = [u \in Users |-> recordAge'[u]]
      BY DEF Tick
    <3> QED BY <3>1, <3>2
  <2>5. spent' \in [Users -> 0..InternalTimeout] /\ callAge' \in [Users -> 0..InternalTimeout]
    <3>1. \A u \in Users : spent'[u] \in 0..InternalTimeout
      BY <1>4, Counters, Numbers
    <3>2. \A u \in Users : callAge'[u] \in 0..InternalTimeout
      BY <1>4, Counters, Numbers DEF UsersAged
    <3>3. spent' = [u \in Users |-> spent'[u]] /\ callAge' = [u \in Users |-> callAge'[u]]
      BY DEF Tick
    <3> QED BY <3>1, <3>2, <3>3
  <2>6. userAge' \in [Requests -> Nat] /\ elapsed' \in [Requests -> 0..OutboundTimeout]
    <3>1. \A r \in Requests : elapsed'[r] \in 0..OutboundTimeout
      BY <1>5, Counters, Numbers
    <3>2. \A r \in Requests : userAge'[r] \in Nat
      BY <1>5, Counters
    <3>3. userAge' = [r \in Requests |-> userAge'[r]] /\ elapsed' = [r \in Requests |-> elapsed'[r]]
      BY DEF Tick
    <3> QED BY <3>1, <3>2, <3>3
  <2> QED BY <1>1, <2>1, <2>2, <2>3, <2>4, <2>5, <2>6 DEF TypeOK
<1>8. TicketsAged'
  <2> SUFFICES ASSUME NEW t \in Tickets
               PROVE  /\ cookie'[t] = "coming" => ttl[t] <= left'[t] + transit'[t]
                      /\ cookie'[t] = "held" =>
                           left'[t] < stay'[t] + Second /\ stay'[t] <= left'[t] + transit'[t]
                      /\ cookie'[t] = "aged out" => left'[t] < Second
    BY <1>1 DEF TicketsAged
  <2>1. /\ left[t] \in Nat /\ stay[t] \in Nat /\ transit[t] \in Nat /\ ttl[t] \in Nat
        /\ left'[t] = Less(left[t]) /\ stay'[t] = Less(stay[t])
    BY <1>2, <1>3, Counters
  <2>2. CASE cookie[t] = "coming"
    <3>1. cookie'[t] = "coming" /\ transit'[t] = transit[t] + 1 /\ ttl[t] <= left[t] + transit[t]
      BY <1>3, <2>2 DEF TicketsAged
    <3>2. ttl[t] <= Less(left[t]) + (transit[t] + 1)
      BY <2>1, <3>1, Underway
    <3> QED BY <2>1, <3>1, <3>2
  <2>3. CASE cookie[t] = "held"
    <3>1. /\ transit'[t] = transit[t]
          /\ left[t] < stay[t] + Second /\ stay[t] <= left[t] + transit[t]
          /\ cookie'[t] = IF stay[t] = 1 THEN "aged out" ELSE "held"
      BY <1>3, <2>3 DEF TicketsAged
    <3>2. /\ Less(left[t]) < Less(stay[t]) + Second /\ Less(stay[t]) <= Less(left[t]) + transit[t]
          /\ stay[t] = 1 => Less(left[t]) < Second
      BY <2>1, <3>1, Together
    <3>3. CASE stay[t] = 1
      BY <2>1, <3>1, <3>2, <3>3
    <3>4. CASE stay[t] # 1
      BY <2>1, <3>1, <3>2, <3>4
    <3> QED BY <3>3, <3>4
  <2>4. CASE cookie[t] = "aged out"
    <3>1. cookie'[t] = "aged out" /\ left[t] < Second
      BY <1>3, <2>4 DEF TicketsAged
    <3>2. Less(left[t]) < Second
      BY <2>1, <3>1, Lower
    <3> QED BY <2>1, <3>1, <3>2
  <2>5. CASE cookie[t] \notin {"coming", "held", "aged out"}
    BY <1>3, <2>5
  <2> QED BY <2>2, <2>3, <2>4, <2>5
<1>9. UsersAged'
  <2> SUFFICES ASSUME NEW u \in Users
               PROVE  /\ inCache'[u] => ttl'[u] = CacheTTL
                      /\ Hit(u)' => recordAge'[u] + left'[u] <= InternalTimeout + CacheTTL
                      /\ callAge'[u] <= spent'[u]
    BY DEF UsersAged
  <2>1. inCache'[u] => ttl'[u] = CacheTTL
    BY <1>1 DEF UsersAged
  <2>2. callAge'[u] <= spent'[u]
    BY <1>4, Counters DEF UsersAged
  <2>3. ASSUME Hit(u)'
        PROVE  recordAge'[u] + left'[u] <= InternalTimeout + CacheTTL
    <3>1. left'[u] > 0 /\ inCache[u]
      BY <1>1, <2>1, <2>3, Numbers DEF Hit
    <3>2. left[u] > 0 /\ left'[u] = left[u] - 1
      BY <1>2, <3>1, Counters DEF Less
    <3>3. Hit(u)
      BY <3>1, <3>2 DEF Hit
    <3>4. recordAge[u] + left[u] <= InternalTimeout + CacheTTL /\ recordAge'[u] = recordAge[u] + 1
      BY <1>4, <3>3 DEF UsersAged
    <3> QED BY <3>2, <3>4, Counters, Numbers
  <2> QED BY <2>1, <2>2, <2>3
<1>10. ServedAged'
  <2> SUFFICES ASSUME NEW r \in Requests
               PROVE  /\ get[r] \in {"lookup", "missed"} => user[r] \in Users
                      /\ get[r] = "done" => userAge'[r] <= Oldest + OutboundTimeout
                      /\ get[r] = "done" /\ r \in listing => userAge'[r] <= Oldest + elapsed'[r]
    BY <1>1 DEF ServedAged
  <2>1. get[r] \in {"lookup", "missed"} => user[r] \in Users
    BY DEF ServedAged
  <2>2. ASSUME get[r] = "done"
        PROVE  userAge'[r] <= Oldest + elapsed'[r] /\ elapsed'[r] <= OutboundTimeout
               /\ elapsed'[r] \in Nat /\ userAge'[r] \in Nat
    BY <1>5, <2>2, Counters, Numbers DEF ServedAged
  <2> QED BY <2>1, <2>2, Numbers
<1> QED BY <1>7, <1>8, <1>9, <1>10

\* The inductive invariant holds in every reachable state.
THEOREM Invariance == Spec => []Inv
<1>1. Inv /\ UNCHANGED vars => Inv'
  <2> SUFFICES ASSUME Inv, UNCHANGED vars PROVE Inv'
    OBVIOUS
  <2>1. TypeOK'
    BY DEF Inv, vars, memory, cookies, calls, served, TypeOK
  <2>2. TicketsAged' /\ UsersAged' /\ ServedAged'
    BY DEF Inv, vars, memory, cookies, calls, served, TicketsAged, UsersAged, ServedAged, Hit
  <2> QED BY <2>1, <2>2 DEF Inv
<1>2. Inv /\ [Next]_vars => Inv'
  BY <1>1, EvictInductive, TicketInductive, RequestInductive, FlightInductive, TickInductive
     DEF Next
<1> QED BY InvInit, <1>2, PTL DEF Spec

\* Type correctness; in particular no call outlives the timeout of its client.
THEOREM TypeCorrect == Spec => []TypeOK
BY Invariance, PTL DEF Inv

\* Whatever the TTL, whole seconds or not, and however slow the network: a
\* cookie and its record live equally long, to a second and the delay.
THEOREM CookiesInStep == Spec => []InStep
<1>1. Inv => InStep
  BY DEF Inv, TicketsAged, InStep
<1> QED BY Invariance, <1>1, PTL

\* No user record is served that upstream read longer ago than its timeout,
\* the TTL of the cache and the provider's timeout together.
THEOREM NothingStale == Spec => []Fresh
<1>1. Inv => Fresh
  <2> SUFFICES ASSUME Inv, NEW r \in Requests, get[r] = "done"
               PROVE  userAge[r] < InternalTimeout + CacheTTL + OutboundTimeout
    BY DEF Fresh
  <2>1. userAge[r] <= Oldest + OutboundTimeout /\ userAge[r] \in Nat
    BY Counters DEF Inv, ServedAged
  <2> QED BY <2>1, Numbers DEF Oldest
<1> QED BY Invariance, <1>1, PTL

-----------------------------------------------------------------------------
(* Tickets live as TicketLife promises.                                    *)

\* A ticket is in the cache only once it has been minted.
Unminted == \A t \in Tickets : cookie[t] = "none" => ~inCache[t]

\* Nothing is found again, no cookie appears and no ticket is unmade: what
\* every step does but minting a ticket and delivering its cookie.
OnlyLapse ==
  \A t \in Tickets :
    /\ inCache'[t] => inCache[t]
    /\ Hit(t)' => Hit(t)
    /\ cookie'[t] = "none" <=> cookie[t] = "none"
    /\ cookie'[t] = "held" => cookie[t] = "held"

\* Tickets whose records and cookies stay as they are.
LEMMA TicketsRest ==
  ASSUME UNCHANGED cookies,
         \A t \in Tickets : inCache'[t] = inCache[t] /\ ttl'[t] = ttl[t] /\ left'[t] = left[t]
  PROVE  OnlyLapse
BY DEF OnlyLapse, Hit, cookies

\* Storing the record of a user leaves the tickets alone.
LEMMA UsersApart ==
  ASSUME TypeOK, NEW u \in Users, NEW d, Set(u, d)
  PROVE  \A t \in Tickets : inCache'[t] = inCache[t] /\ ttl'[t] = ttl[t] /\ left'[t] = left[t]
BY Counters DEF Set, TypeOK

\* Every step of the process mints a ticket, delivers its cookie or lets
\* tickets lapse; the clock and the janitor only let them lapse.
LEMMA TicketSteps ==
  ASSUME TypeOK, [Next]_vars
  PROVE  (\E t \in Tickets : Mint(t) \/ Arrive(t)) \/ OnlyLapse
<1>1. ASSUME NEW k \in Keys, Evict(k) PROVE OnlyLapse
  <2>1. \A t \in Tickets : inCache'[t] => inCache[t]
    BY <1>1, Counters DEF Evict, TypeOK
  <2> QED BY <1>1, <2>1 DEF Evict, OnlyLapse, Hit, cookies
<1>2. ASSUME NEW t \in Tickets, Lose(t) PROVE OnlyLapse
  <2>1. \A s \in Tickets : IF s = t THEN cookie[s] # "none" /\ cookie'[s] = "lost"
                           ELSE cookie'[s] = cookie[s]
    BY <1>2 DEF Lose, TypeOK
  <2>2. UNCHANGED memory
    BY <1>2 DEF Lose
  <2> QED BY <2>1, <2>2 DEF OnlyLapse, Hit, memory
<1>3. ASSUME NEW t \in Tickets, Delete(t) PROVE OnlyLapse
  <2>1. \A s \in Tickets : inCache'[s] => inCache[s]
    BY <1>3, Counters DEF Delete, TypeOK
  <2> QED BY <1>3, <2>1 DEF Delete, OnlyLapse, Hit, cookies
<1>4. ASSUME NEW r \in Requests, Handle(r) \/ \E t \in Tickets, u \in Users : Begin(r, t, u)
      PROVE  OnlyLapse
  <2>1. UNCHANGED <<memory, cookies>>
    BY <1>4 DEF Handle, Lookup, Do, ListEnds, Serve, Begin, AfterHit, memory
  <2> QED BY <2>1, TicketsRest DEF memory
<1>5. ASSUME NEW u \in Users, UpstreamReads(u) PROVE OnlyLapse
  BY <1>5, TicketsRest DEF UpstreamReads, memory
<1>6. ASSUME NEW u \in Users, Land(u) PROVE OnlyLapse
  <2>1. UNCHANGED cookies /\ (Set(u, CacheTTL) \/ UNCHANGED memory)
    BY <1>6 DEF Land
  <2> QED BY <2>1, UsersApart, TicketsRest DEF memory
<1>7. CASE Tick
  <2>1. \A t \in Tickets : /\ left'[t] = Less(left[t])
                           /\ cookie'[t] = IF cookie[t] = "held" /\ stay[t] = 1
                                           THEN "aged out" ELSE cookie[t]
    BY <1>7, Counters DEF Tick
  <2>2. \A t \in Tickets : left'[t] > 0 => left[t] > 0
    <3> SUFFICES ASSUME NEW t \in Tickets, left'[t] > 0 PROVE left[t] > 0
      OBVIOUS
    <3>1. left[t] \in Nat /\ left'[t] = Less(left[t])
      BY <2>1, Counters
    <3> QED BY <3>1 DEF Less
  <2>3. \A t \in Tickets : Hit(t)' => Hit(t)
    BY <1>7, <2>2 DEF Tick, Hit
  <2> QED BY <1>7, <2>1, <2>3 DEF Tick, OnlyLapse
<1>8. CASE UNCHANGED vars
  BY <1>8, TicketsRest DEF vars, memory
<1> QED BY <1>1, <1>2, <1>3, <1>4, <1>5, <1>6, <1>7, <1>8 DEF Next

\* A ticket is minted when it is stored.
LEMMA UnmintedInductive ==
  ASSUME TypeOK, Unminted, [Next]_vars
  PROVE  Unminted'
<1>1. ASSUME NEW t \in Tickets, Mint(t) PROVE Unminted'
  <2>1. cookie'[t] = "coming" /\ \A s \in Tickets : s # t => cookie'[s] = cookie[s]
    BY <1>1 DEF Mint, TypeOK
  <2>2. \A s \in Tickets : s # t => inCache'[s] = inCache[s]
    BY <1>1, Counters DEF Mint, Set, TypeOK
  <2> QED BY <2>1, <2>2 DEF Unminted
<1>2. ASSUME NEW t \in Tickets, Arrive(t) PROVE Unminted'
  BY <1>2 DEF Arrive, Unminted, TypeOK, memory
<1>3. CASE OnlyLapse
  BY <1>3 DEF OnlyLapse, Unminted
<1> QED BY <1>1, <1>2, <1>3, TicketSteps

\* A step that only lets tickets lapse is one of the abstract specification:
\* the records that are no longer found end, the cookies not held are gone.
LEMMA LapseStep ==
  ASSUME Unminted, OnlyLapse
  PROVE  TL!Next
<1>1. PICK S \in SUBSET Tickets : \A t \in Tickets : t \in S <=> Hit(t) /\ ~Hit(t)'
  <2> DEFINE T == {t \in Tickets : Hit(t) /\ ~Hit(t)'}
  <2>1. T \in SUBSET Tickets /\ \A t \in Tickets : t \in T <=> Hit(t) /\ ~Hit(t)'
    OBVIOUS
  <2> QED BY <2>1
<1>2. PICK D \in SUBSET Tickets : \A t \in Tickets : t \in D <=> cookie'[t] # "held"
  <2> DEFINE T == {t \in Tickets : cookie'[t] # "held"}
  <2>1. T \in SUBSET Tickets /\ \A t \in Tickets : t \in T <=> cookie'[t] # "held"
    OBVIOUS
  <2> QED BY <2>1
<1>3. \A t \in Tickets : Hit(t) => cookie[t] # "none"
  BY DEF Unminted, Hit
<1>4. TL!Lapse(S, D)
  BY <1>1, <1>2, <1>3 DEF TL!Lapse, OnlyLapse
<1> QED BY <1>4 DEF TL!Next

\* A ticket is created when it is minted, with a TTL or without.
LEMMA MintStep ==
  ASSUME TypeOK, Unminted, NEW t \in Tickets, Mint(t)
  PROVE  TL!Next
<1>1. PICK d \in TTLs : Set(t, d)
  BY DEF Mint
<1>2. inCache'[t] /\ ttl'[t] = d /\ left'[t] = d /\ d \in Nat
  BY <1>1, Counters, ConstantsOK DEF Set, TypeOK
<1>3. Hit(t)' /\ ~Hit(t) /\ cookie[t] = "none" /\ cookie'[t] = "coming"
  <2>1. cookie[t] = "none" /\ cookie'[t] = "coming" /\ ~inCache[t]
    BY DEF Mint, Unminted, TypeOK
  <2>2. ttl'[t] = 0 \/ left'[t] > 0
    BY <1>2
  <2> QED BY <1>2, <2>1, <2>2 DEF Hit
<1>4. \A s \in Tickets : s # t => (Hit(s)' <=> Hit(s)) /\ cookie'[s] = cookie[s]
  BY <1>1, Counters DEF Mint, Set, Hit, TypeOK
<1>5. TL!Create(t)
  BY <1>3, <1>4 DEF TL!Create
<1> QED BY <1>5 DEF TL!Next

\* The cookie that arrives names a ticket, live or no longer.
LEMMA ArriveStep ==
  ASSUME TypeOK, NEW t \in Tickets, Arrive(t)
  PROVE  TL!Next
<1>1. cookie[t] = "coming" /\ cookie'[t] = "held" /\ UNCHANGED memory
  BY DEF Arrive, TypeOK
<1>2. \A s \in Tickets : s # t => cookie'[s] = cookie[s]
  BY DEF Arrive, TypeOK
<1>3. \A s \in Tickets : Hit(s)' <=> Hit(s)
  BY <1>1 DEF Hit, memory
<1>4. TL!Hand(t, t)
  BY <1>1, <1>2, <1>3 DEF TL!Hand
<1> QED BY <1>4 DEF TL!Next

\* With clocks, TTLs, Max-Ages and a janitor, whatever they are set to, the
\* states and sessions of the server and their cookies live as TicketLife
\* promises.  It is what lets AuthFlow end a record or a cookie at any time.
THEOREM TicketImplementation == Spec => TicketLifeSpec
<1>1. Init => TL!Init
  BY DEF Init, TL!Init, Hit, Keys
<1>2. Init => Unminted
  BY DEF Init, Unminted, Keys
<1>3. TypeOK /\ Unminted /\ [Next]_vars => [TL!Next]_TL!vars
  BY TicketSteps, LapseStep, MintStep, ArriveStep
<1>4. TypeOK /\ Unminted /\ [Next]_vars => Unminted'
  BY UnmintedInductive
<1> QED BY TypeCorrect, <1>1, <1>2, <1>3, <1>4, PTL DEF Spec, TicketLifeSpec, TL!Spec
=============================================================================
