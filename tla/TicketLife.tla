----------------------------- MODULE TicketLife -----------------------------
(***************************************************************************)
(* What the connector promises about the tickets it gives to browsers,     *)
(* without its handlers, requests, caches or provider.  A ticket is a      *)
(* record on the server and a cookie with its id: the state of a login, or *)
(* a session.  An id names at most one ticket, ever; a ticket that has     *)
(* ended (consumed, logged out, expired, lost in a restart) never comes    *)
(* back; and a browser only ever holds an id that was stored first.        *)
(*                                                                         *)
(* internal/port/store states the two ports, and README.md ("Security",    *)
(* "Session") the promise.                                                 *)
(***************************************************************************)
CONSTANTS Ids,         \* the ids the random generator can return
          Browsers,
          None         \* a browser without the cookie

VARIABLES life,        \* life[i]: where id i is in its life as a ticket
          held         \* held[b]: the id in the cookie jar of b

vars == <<life, held>>

TypeOK ==
  /\ life \in [Ids -> {"unborn", "live", "ended"}]
  /\ held \in [Browsers -> Ids \cup {None}]

Init ==
  /\ life = [i \in Ids |-> "unborn"]
  /\ held = [b \in Browsers |-> None]

\* StateStore.Put, SessionStore.Put: an id becomes a ticket once.
Create(i) ==
  /\ life[i] = "unborn"
  /\ life' = [life EXCEPT ![i] = "live"]
  /\ UNCHANGED held

\* Consume and Logout end one ticket, a restart of the process ends them
\* all, and with time tickets end and browsers drop their cookies.
Lapse(S, D) ==
  /\ \A i \in S : life[i] = "live"
  /\ life' = [i \in Ids |-> IF i \in S THEN "ended" ELSE life[i]]
  /\ held' = [b \in Browsers |-> IF b \in D THEN None ELSE held[b]]

\* A response sets the cookie of b, possibly to an id whose ticket has
\* already ended.
Hand(b, i) ==
  /\ life[i] # "unborn"
  /\ held' = [held EXCEPT ![b] = i]
  /\ UNCHANGED life

Next ==
  \/ \E i \in Ids : Create(i)
  \/ \E S \in SUBSET Ids, D \in SUBSET Browsers : Lapse(S, D)
  \/ \E b \in Browsers, i \in Ids : Hand(b, i)

Spec == Init /\ [][Next]_vars
=============================================================================
