--------------------------- MODULE ProfileFanout ---------------------------
(***************************************************************************)
(* GET /profile behind the session middleware.  The profile use case       *)
(* (usecase/profile) calls two upstreams at once in an errgroup: the       *)
(* provider's ListResources, and the internal service's GetUser through    *)
(* the caching decorator (adapter/internalsvc/cached), which looks into    *)
(* the cache and then joins or leads a flight of a singleflight group.     *)
(*                                                                         *)
(* A request has two goroutines, the branches list and get.  One step of a *)
(* branch is one access to something shared: the cache, the flights, an    *)
(* upstream, the errgroup.                                                 *)
(*                                                                         *)
(* Data.  A user stands for its id and for the record the internal service *)
(* has of it; the repositories of a user are left out.  An HTTP status the *)
(* client does not expect, a timeout, a decode error and ErrUnauthorized   *)
(* end a request in the same way and are one verdict, "error".  The        *)
(* registry lookup before the fan-out cannot fail: a session is only ever  *)
(* stored for a registered provider.                                       *)
(***************************************************************************)
EXTENDS MemoryCache

CONSTANTS Requests,    \* the /profile requests that can be in flight
          Users,       \* the users that sessions belong to
          Faults       \* what may go wrong in a behaviour

\* How GetUser, and with it a branch, can end.
Verdicts == {"ok", "notfound", "error", "canceled"}

Statuses == {200, 404, 502}

ASSUME ConstantsOK ==
  /\ Faults \subseteq {"provider", "internal", "cache", "expiry", "disconnect"}
  /\ None \notin Users \cup Requests
  /\ None \notin Verdicts /\ None \notin Statuses

VARIABLES
  known,      \* the users that the internal service knows
  cache,      \* cache[u]: the record under "internal:user:" + u
  flight,     \* flight[u]: the request that leads the flight for u
  pc,         \* pc[r]: "idle", or "running" between call and answer
  uid,        \* uid[r]: the user of the session of request r
  list,       \* list[r]: the provider branch of r
  get,        \* get[r]: the internal-service branch of r
  verdict,    \* verdict[r]: what GetUser will return to the branch
  user,       \* user[r]: the record that comes with the verdict "ok"
  gone,       \* the requests whose client has disconnected
  groupErr,   \* groupErr[r]: the first error of the errgroup of r
  status      \* status[r]: the status of the last answer to r

branches == <<list, get, verdict, user, groupErr>>
vars == <<known, cache, flight, pc, uid, branches, gone, status>>

\* get runs through these in order; a hit skips to landed, and a request
\* that finds a flight waits instead of calling and filling.
Stages  == {"lookup", "missed", "calling", "filling", "landing", "waiting",
            "landed", "done"}
Leading == {"calling", "filling", "landing"}

TypeOK ==
  /\ known \subseteq Users
  /\ cache \in [Users -> Users \cup {None}]
  /\ flight \in [Users -> Requests \cup {None}]
  /\ pc \in [Requests -> {"idle", "running"}]
  /\ uid \in [Requests -> Users \cup {None}]
  /\ list \in [Requests -> {"calling", "done"}]
  /\ get \in [Requests -> Stages]
  /\ verdict \in [Requests -> Verdicts \cup {None}]
  /\ user \in [Requests -> Users \cup {None}]
  /\ gone \subseteq Requests
  /\ groupErr \in [Requests -> (Verdicts \ {"ok"}) \cup {None}]
  /\ status \in [Requests -> Statuses \cup {None}]

Init ==
  /\ known \in SUBSET Users
  /\ cache = EmptyCache(Users)
  /\ flight = [u \in Users |-> None]
  /\ pc = [r \in Requests |-> "idle"]
  /\ uid = [r \in Requests |-> None]
  /\ list = [r \in Requests |-> "done"]
  /\ get = [r \in Requests |-> "done"]
  /\ verdict = [r \in Requests |-> None]
  /\ user = [r \in Requests |-> None]
  /\ gone = {}
  /\ groupErr = [r \in Requests |-> None]
  /\ status = [r \in Requests |-> None]

-----------------------------------------------------------------------------
(* Clients                                                                 *)

\* A request with a session of u reaches the handler: errgroup.WithContext
\* and the two calls of Go.
Request(r, u) ==
  /\ pc[r] = "idle"
  /\ pc' = [pc EXCEPT ![r] = "running"]
  /\ uid' = [uid EXCEPT ![r] = u]
  /\ list' = [list EXCEPT ![r] = "calling"]
  /\ get' = [get EXCEPT ![r] = "lookup"]
  /\ verdict' = [verdict EXCEPT ![r] = None]
  /\ user' = [user EXCEPT ![r] = None]
  /\ groupErr' = [groupErr EXCEPT ![r] = None]
  /\ gone' = gone \ {r}
  /\ status' = [status EXCEPT ![r] = None]
  /\ UNCHANGED <<known, cache, flight>>

\* The client closes the connection: net/http cancels the request context.
Disconnect(r) ==
  /\ "disconnect" \in Faults
  /\ pc[r] = "running"
  /\ r \notin gone
  /\ gone' = gone \cup {r}
  /\ UNCHANGED <<known, cache, flight, pc, uid, branches, status>>

-----------------------------------------------------------------------------
(* The errgroup                                                            *)

\* The context of both branches: cancelled with the request or by the first
\* error of the group.
Canceled(r) == r \in gone \/ groupErr[r] # None

\* Mutant: the group keeps what returns first, an error or not.
FirstReturnKept(r, v) ==
  groupErr' = IF groupErr[r] = None THEN [groupErr EXCEPT ![r] = v] ELSE groupErr

\* A branch of r returns v.  The group keeps its first error.
BranchReturns(r, v) ==
  groupErr' = IF v # "ok" /\ groupErr[r] = None
              THEN [groupErr EXCEPT ![r] = v]
              ELSE groupErr

\* How a call to an upstream can end for r, given its result.
CallVerdicts(r, result, fault) ==
  {result} \cup {v \in {"error"} : fault \in Faults} \cup {v \in {"canceled"} : Canceled(r)}

\* The provider branch: ListResources and the return of its result.
ListResources(r) ==
  /\ list[r] = "calling"
  /\ \E v \in CallVerdicts(r, "ok", "provider") : BranchReturns(r, v)
  /\ list' = [list EXCEPT ![r] = "done"]
  /\ UNCHANGED <<known, cache, flight, pc, uid, get, verdict, user, gone, status>>

-----------------------------------------------------------------------------
(* The internal-service branch: cached.Service.GetUser                     *)

\* Cache.Get: an error of the cache counts as a miss.
Lookup(r) ==
  /\ get[r] = "lookup"
  /\ \/ /\ Found(cache, uid[r])
        /\ get' = [get EXCEPT ![r] = "landed"]
        /\ verdict' = [verdict EXCEPT ![r] = "ok"]
        /\ user' = [user EXCEPT ![r] = cache[uid[r]]]
     \/ /\ ~Found(cache, uid[r]) \/ "cache" \in Faults
        /\ get' = [get EXCEPT ![r] = "missed"]
        /\ UNCHANGED <<verdict, user>>
  /\ UNCHANGED <<known, cache, flight, pc, uid, list, gone, groupErr, status>>

\* Mutant: the key of the flight does not depend on the user.
OneKey(u) == CHOOSE k \in Users : TRUE

\* The key that singleflight groups the calls by.
FlightKey(u) == u

\* Mutant: every request calls the upstream itself.
AlwaysLead(r) ==
  /\ get[r] = "missed"
  /\ get' = [get EXCEPT ![r] = "calling"]
  /\ flight' = [flight EXCEPT ![FlightKey(uid[r])] = r]
  /\ UNCHANGED <<known, cache, pc, uid, list, verdict, user, gone, groupErr, status>>

\* singleflight.Group.Do: lead a flight, or wait for the one there is.  The
\* cache is not looked at again.
Do(r) ==
  /\ get[r] = "missed"
  /\ LET k == FlightKey(uid[r]) IN
     \/ /\ flight[k] = None
        /\ flight' = [flight EXCEPT ![k] = r]
        /\ get' = [get EXCEPT ![r] = "calling"]
     \/ /\ flight[k] # None
        /\ get' = [get EXCEPT ![r] = "waiting"]
        /\ UNCHANGED flight
  /\ UNCHANGED <<known, cache, pc, uid, list, verdict, user, gone, groupErr, status>>

\* The call to the internal service.  It runs with the context of the
\* leader, whoever else waits for it.
CallUpstream(r) ==
  /\ get[r] = "calling"
  /\ \E v \in CallVerdicts(r, IF uid[r] \in known THEN "ok" ELSE "notfound", "internal") :
       /\ verdict' = [verdict EXCEPT ![r] = v]
       /\ user' = [user EXCEPT ![r] = IF v = "ok" THEN uid[r] ELSE None]
       /\ get' = [get EXCEPT ![r] = IF v = "ok" THEN "filling" ELSE "landing"]
  /\ UNCHANGED <<known, cache, flight, pc, uid, list, gone, groupErr, status>>

\* Cache.Set: its error is ignored.
FillCache(r) ==
  /\ get[r] = "filling"
  /\ \/ cache' = Put(cache, uid[r], user[r])
     \/ "cache" \in Faults /\ UNCHANGED cache
  /\ get' = [get EXCEPT ![r] = "landing"]
  /\ UNCHANGED <<known, flight, pc, uid, list, verdict, user, gone, groupErr, status>>

\* Mutant: a failed flight wakes nobody up.
FollowersOfSuccess(r) ==
  IF verdict[r] = "ok"
  THEN {q \in Requests : get[q] = "waiting" /\ FlightKey(uid[q]) = FlightKey(uid[r])}
  ELSE {}

\* The requests that wait for the flight of r.
Followers(r) ==
  {q \in Requests : get[q] = "waiting" /\ FlightKey(uid[q]) = FlightKey(uid[r])}

\* The flight ends: its key is free, and its one result goes to the leader
\* and to all that wait.
Land(r) ==
  /\ get[r] = "landing"
  /\ LET crew == Followers(r) \cup {r} IN
     /\ flight' = [flight EXCEPT ![FlightKey(uid[r])] = None]
     /\ get' = [q \in Requests |-> IF q \in crew THEN "landed" ELSE get[q]]
     /\ verdict' = [q \in Requests |-> IF q \in crew THEN verdict[r] ELSE verdict[q]]
     /\ user' = [q \in Requests |-> IF q \in crew THEN user[r] ELSE user[q]]
  /\ UNCHANGED <<known, cache, pc, uid, list, gone, groupErr, status>>

\* GetUser returns, and the branch with it.
GetUserReturns(r) ==
  /\ get[r] = "landed"
  /\ BranchReturns(r, verdict[r])
  /\ get' = [get EXCEPT ![r] = "done"]
  /\ UNCHANGED <<known, cache, flight, pc, uid, list, verdict, user, gone, status>>

-----------------------------------------------------------------------------
(* The answer                                                              *)

\* Mutant: the handler answers on the first error instead of after Wait.
FirstErrorReturns(r) == groupErr[r] # None \/ (list[r] = "done" /\ get[r] = "done")

\* errgroup.Wait returns once both branches have.
WaitReturns(r) == list[r] = "done" /\ get[r] = "done"

\* Mutant: any error of the internal branch is taken for a missing user.
NotFoundIfNoUser(r) ==
  IF groupErr[r] = None THEN 200 ELSE IF user[r] = None THEN 404 ELSE 502

\* ErrUserNotFound comes through GetProfile as it is.
StatusOf(r) ==
  IF groupErr[r] = None THEN 200 ELSE IF groupErr[r] = "notfound" THEN 404 ELSE 502

Answer(r) ==
  /\ pc[r] = "running"
  /\ WaitReturns(r)
  /\ status' = [status EXCEPT ![r] = StatusOf(r)]
  /\ pc' = [pc EXCEPT ![r] = "idle"]
  /\ UNCHANGED <<known, cache, flight, uid, branches, gone>>

-----------------------------------------------------------------------------
(* The internal service and the cache                                      *)

\* A user is added to or removed from the internal service.
Administer(u) ==
  /\ known' \in {known \cup {u}, known \ {u}}
  /\ UNCHANGED <<cache, flight, pc, uid, branches, gone, status>>

Expire(u) ==
  /\ "expiry" \in Faults
  /\ Found(cache, u)
  /\ cache' = Forget(cache, u)
  /\ UNCHANGED <<known, flight, pc, uid, branches, gone, status>>

Handle(r) ==
  \/ ListResources(r)
  \/ Lookup(r) \/ Do(r) \/ CallUpstream(r) \/ FillCache(r) \/ Land(r)
  \/ GetUserReturns(r)
  \/ Answer(r)

Next ==
  \/ \E r \in Requests : Handle(r) \/ Disconnect(r)
  \/ \E r \in Requests, u \in Users : Request(r, u)
  \/ \E u \in Users : Administer(u) \/ Expire(u)

Spec == Init /\ [][Next]_vars

\* Goroutines that can run do run, and each call to an upstream ends: both
\* HTTP clients have a timeout.
FairSpec == Spec /\ \A r \in Requests : WF_vars(Handle(r))

-----------------------------------------------------------------------------
(* Properties                                                              *)

\* The singleflight group is consistent with the branches: a flight is led
\* by a request that is still being served and is working on it, every
\* leader leads the flight of its user (so two upstream calls for one user
\* never overlap), and nobody waits for a flight that is not there.
Flights ==
  /\ \A u \in Users : flight[u] # None =>
       LET r == flight[u]
       IN pc[r] = "running" /\ get[r] \in Leading /\ uid[r] = u
  /\ \A r \in Requests : get[r] \in Leading => flight[uid[r]] = r
  /\ \A r \in Requests : get[r] = "waiting" => flight[uid[r]] # None

\* Sharing results never mixes users up: what the cache holds under a user,
\* and what a branch got from the cache, from its own call or from another
\* request's flight, is the record of that user; and only a found user is
\* ever shared.
OwnUser ==
  /\ \A u \in Users : cache[u] \in {u, None}
  /\ \A r \in Requests : user[r] \in {uid[r], None}
  /\ \A r \in Requests : verdict[r] = "ok" => user[r] # None

\* A profile is answered whole or not at all: 200 needs the user and no
\* error of either branch, and an answer leaves nothing of the request
\* running.
WholeProfile ==
  \A r \in Requests : pc[r] = "idle" =>
    /\ list[r] = "done" /\ get[r] = "done"
    /\ status[r] = 200 => verdict[r] = "ok" /\ groupErr[r] = None

\* What this module does about users is what ProfileService promises: sharing
\* a flight, cancelling and caching never make up an answer about a user.
Remembered == {u \in Users : cache[u] # None}
Asked == [r \in Requests |-> IF pc[r] = "running" THEN uid[r] ELSE None]
Heard == [r \in Requests |->
            IF pc[r] = "running" /\ verdict[r] = "ok" THEN "found"
            ELSE IF pc[r] = "running" /\ verdict[r] = "notfound" THEN "missing"
            ELSE "nothing"]

PS == INSTANCE ProfileService WITH
        remembered <- Remembered, asked <- Asked, heard <- Heard

ProfileServiceSpec == PS!Spec

\* Every request is answered, also one that waits for a flight whose leader
\* fails or loses its client.
Answered == \A r \in Requests : pc[r] = "running" ~> pc[r] = "idle"

\* "Context propagation cancels in-flight work when the request is
\* cancelled" (README.md): a call is cancelled only for the request that was.
OwnCancel == \A r \in Requests : groupErr[r] = "canceled" => r \in gone

\* "On error from either branch the errgroup ctx cancels the other in-flight
\* call" (usecase/profile/usecase.go): a request whose context is cancelled
\* needs nobody else to come to its end.
CancelUnblocks ==
  \A r \in Requests : pc[r] = "running" /\ Canceled(r) => ENABLED Handle(r)

\* "Repeated /profile calls for the same user collapse to one upstream
\* request and warm hits return immediately" (internalsvc/cached/service.go):
\* no call to the upstream begins while the record is in the cache.
WarmNeverCalls ==
  [][\A r \in Requests :
       get[r] = "missed" /\ get'[r] = "calling" => ~Found(cache, uid[r])]_vars
=============================================================================
