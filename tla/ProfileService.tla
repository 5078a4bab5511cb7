--------------------------- MODULE ProfileService ---------------------------
(***************************************************************************)
(* What GET /profile promises about the internal user, without branches,   *)
(* flights, an errgroup or cancellation: an answer says of the user of its *)
(* session what the internal service has said of that user, to this        *)
(* request, to another one that asks for the same user at the same time,   *)
(* or before; that a user exists is remembered for a while, and that it    *)
(* does not exist is never remembered.                                     *)
(*                                                                         *)
(* internal/port/internalsvc/service.go states the port, and the comment   *)
(* on cached.Service the sharing.                                          *)
(***************************************************************************)
CONSTANTS Requests, Users, None

VARIABLES known,      \* the users that the internal service knows
          remembered, \* the users that are remembered to exist
          asked,      \* asked[r]: the user that request r is about
          heard,      \* heard[r]: what r has heard of that user
          status      \* status[r]: the status of the last answer to r

vars == <<known, remembered, asked, heard, status>>

Init ==
  /\ known \in SUBSET Users
  /\ remembered = {}
  /\ asked = [r \in Requests |-> None]
  /\ heard = [r \in Requests |-> "nothing"]
  /\ status = [r \in Requests |-> None]

Ask(r, u) ==
  /\ asked[r] = None
  /\ asked' = [asked EXCEPT ![r] = u]
  /\ status' = [status EXCEPT ![r] = None]
  /\ UNCHANGED <<known, remembered, heard>>

\* The internal service tells r about its user.
Hear(r) ==
  /\ asked[r] # None
  /\ heard' = [heard EXCEPT ![r] = IF asked[r] \in known THEN "found" ELSE "missing"]
  /\ UNCHANGED <<known, remembered, asked, status>>

Remember(r) ==
  /\ asked[r] # None /\ heard[r] = "found"
  /\ remembered' = remembered \cup {asked[r]}
  /\ UNCHANGED <<known, asked, heard, status>>

Recall(r) ==
  /\ asked[r] \in remembered
  /\ heard' = [heard EXCEPT ![r] = "found"]
  /\ UNCHANGED <<known, remembered, asked, status>>

\* r tells some of those who ask the same.
Share(r, S) ==
  /\ \A q \in S : asked[q] # None /\ asked[q] = asked[r]
  /\ heard' = [q \in Requests |-> IF q \in S THEN heard[r] ELSE heard[q]]
  /\ UNCHANGED <<known, remembered, asked, status>>

Answer(r, code) ==
  /\ asked[r] # None
  /\ code = 200 => heard[r] = "found"
  /\ code = 404 => heard[r] = "missing"
  /\ status' = [status EXCEPT ![r] = code]
  /\ asked' = [asked EXCEPT ![r] = None]
  /\ heard' = [heard EXCEPT ![r] = "nothing"]
  /\ UNCHANGED <<known, remembered>>

Forget(u) ==
  /\ remembered' = remembered \ {u}
  /\ UNCHANGED <<known, asked, heard, status>>

\* A user is added to or removed from the internal service.
Administer(u) ==
  /\ known' \in {known \cup {u}, known \ {u}}
  /\ UNCHANGED <<remembered, asked, heard, status>>

Next ==
  \/ \E r \in Requests, u \in Users : Ask(r, u)
  \/ \E r \in Requests : Hear(r) \/ Remember(r) \/ Recall(r)
  \/ \E r \in Requests, S \in SUBSET Requests : Share(r, S)
  \/ \E r \in Requests, code \in {200, 404, 502} : Answer(r, code)
  \/ \E u \in Users : Forget(u) \/ Administer(u)

Spec == Init /\ [][Next]_vars
=============================================================================
