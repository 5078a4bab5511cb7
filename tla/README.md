# A verification of oauth-ms

oauth-ms is a connector: it logs a browser in at an OAuth provider (GitHub),
keeps the resulting session on the server, and answers `GET /profile` with
data of the provider and of an internal users service. This directory models
the parts of it that keep state or run concurrently in TLA+, checks the models
with TLC on small instances, and proves the most important properties with
TLAPS for every instance. Paths below are relative to the repository.

## The system

| Part | Code | State | Operations |
|---|---|---|---|
| auth handlers | `internal/transport/httpapi/handler/auth.go` | the browser's `oauth_state` and `session_id` cookies | Start, Callback, Logout |
| auth use case | `internal/usecase/auth/usecase.go` | none of its own | StartFlow, HandleCallback, Logout |
| session middleware | `internal/transport/httpapi/middleware/session.go` | the session in a request's context | WithSession, RequireSession |
| state and session stores | `internal/adapter/store/cached` | records under `oauth:state:` and `session:` | Put, Consume; Put, Get, Delete |
| cache | `internal/adapter/cache/memory/cache.go` | one map for the whole process, a TTL per key | Get, Set, Delete, expiry |
| random ids | `internal/adapter/crypto/randid.go` | none | RandomURLSafeID |
| profile use case and handler | `internal/usecase/profile`, `handler/profile.go` | an errgroup per request | GetProfile |
| cached internal service | `internal/adapter/internalsvc/cached/service.go` | records under `internal:user:`, a singleflight group | GetUser |
| internal service client | `internal/adapter/internalsvc/httpclient` | none | GetUser |
| GitHub provider | `internal/adapter/provider/github` | none (GitHub has the codes) | BuildAuthURL, ExchangeCode, GetIdentity, ListResources |
| provider registry | `internal/adapter/provider/registry` | a map frozen at startup | New, Get, Names |
| configuration | `internal/config/config.go` | none after Load | Load, Validate |
| process lifecycle | `cmd/server/main.go`, `cmd/dependencies` | the container's cleanups, the server | run, Provide, Close |
| router, recovery, logging, health, JSON | `internal/transport/httpapi` | none | |
| static UI, mock service | `web`, `mocks` | none that matters | |

Every request is served by a goroutine of its own. Requests share the cache,
the singleflight group and what the provider remembers about codes, and they
talk to each other through the cookies of a browser: a request carries the
cookies the browser had when it was sent, and its answer changes them when it
arrives. Nothing is persisted: a restart empties the cache, while the cookies
and the codes live on outside.

What is hard here, and what correctness means:

- *Consume is a read and a delete.* Two callbacks with one state can both pass
  the read. What still has to hold: once a Consume has finished nobody finds
  the state again, and one authorization code never makes two sessions.
- *A login has many steps that can fail*, after the state is gone and the code
  burned. A failed or lost step must not leave a cookie that names a session
  that was never stored, and a browser must only ever be signed in by a login
  it started itself, at the provider it started it with.
- *Sessions end by logout, TTL or restart while requests use them.* An ended
  session never comes back, in the cache or in an answer on its way.
- *`/profile` shares work between requests.* Records of different users must
  not mix; a flight that fails must wake all that wait; an answer must be
  whole, with no goroutine of the request left behind.
- *Records grow old.* A record and the cookie that names it have lifetimes of
  their own, one in nanoseconds and one in whole seconds, and a user record
  ages in an upstream call, in the cache, and in an answer that waits for the
  provider. The ages must stay bounded, and nothing may stay in memory for ever.
- *Configuration has three layers and several gatekeepers.* A setting must come
  from the right layer, and what is missing or unusable must stop the process
  before it serves anything: some of it is found when the layers are decoded,
  some by `Validate`, and some only by the constructors.
- *The process ends while requests run*, by a signal at any moment of its life,
  and four timeouts race each other. It must end, lose no answer that could
  still be written, and exit with 0 only after a clean end.

`PROJECT.json` lists every hazard with its line and the properties for it.

## Modules

`MemoryCache` is the key-value port as the in-memory adapter implements it: a
cache is a function from keys to values or `None`. An expired item looks like
an absent one whether or not the janitor has run, so expiry is `Forget`.

`AuthFlow` is the login, composed of handlers, use case, stores, cookie jars
and provider. `pc[r]` is the point a handler has reached; each step is one
access to something shared:

| Code | Actions |
|---|---|
| `Auth.Start`, `StartFlow` | `Start` |
| `Auth.Callback`, `HandleCallback` | `CallbackDenied`, `CallbackMismatch`, `ConsumeGet`, `ConsumeDelete`, `Exchange`, `Identify`, `StoreSession` |
| `Auth.Logout`, `UseCase.Logout` | `Logout` |
| `WithSession`, `RequireSession`, `Profile.Get` | `AttachSession`, `UseSession` |
| browser, network | `SendStart`, `SendCallback`, `SendDenied`, `SendWithSession`, `Deliver`, `LoseAnswer`, `LoseCookie` |
| OAuth provider | `Authorize`; `CodeAccepted` in `Exchange` |
| cache TTL, process | `Expire`, `Restart` |

`CONSTANT Faults` says which faults a behaviour may have: `rand` (the random
source errs), `cache` (a cache call errs), `provider` (exchange or identity
fails, also after the provider has burned the code), `network` (an answer is
lost), `expiry` (a TTL or a cookie's Max-Age runs out), `restart`. The
in-memory adapter never returns an error; the port allows it, the handlers
handle it, and the repository means to add a Redis adapter, so `cache` is
among the faults. A Set that reports an error is taken not to have stored
anything.

The environment is as free as HTTP makes it. `SendCallback` takes state and code
as the two query parameters they are: any browser may follow a URL at the path of
any provider, with the state of one flow and the code of another, or without
one of them. What a browser cannot do is guess: states and codes come from those
that a provider was visited with or has issued. So a callback may pass
`StateMatches` and `ProviderMatches` with a code that was issued for somebody
else's flow, and then only the verifier, in `CodeAccepted`, keeps the two logins
apart (`OwnLogin`).

The data is abstract: a PKCE verifier is the flow it was generated for, an
access token is the code it was exchanged for, and a redirect URI is its
provider. `flow`, `wins`, `origin` and `loggedOut` are history variables that
only properties read, except that `flow` and `origin` also say which ids are
fresh: `RandomURLSafeID` never returns an id twice, the one assumption about
its 32 random bytes.

`TicketLife` is the abstract specification of what browsers are given: an id
becomes a ticket (a state or a session) once, ends once, and a browser holds
only ids that were stored first. `AuthFlow` implements it twice, for its
sessions under the mapping `SL` and for its states under `ST`; each reads the
life of an id off the cache and the history, and the holder off the cookie
jars. `Lifetimes` implements it a third time, with clocks (below).

`ProfileFanout` is `GET /profile` behind the middleware, two goroutines per
request:

| Code | Actions |
|---|---|
| `GetProfile` before the fan-out | `Request` |
| first `g.Go` | `ListResources` |
| second `g.Go`, `cached.Service.GetUser` | `Lookup`, `Do`, `CallUpstream`, `FillCache`, `Land`, `GetUserReturns` |
| `g.Wait`, `Profile.Get` | `Answer` |
| client, internal service, TTL | `Disconnect`, `Administer`, `Expire` |

`errgroup` and `singleflight` are modelled from how the code uses them: the
first error of a group cancels its context, `Do` leads a flight or waits for
the one there is, and a landing flight frees its key and gives its result to
all that wait. The registry lookup before the fan-out is left out: a session is
stored only for a registered provider, and the registry is frozen.

`ProfileService` is the abstract specification of that: an answer says of the
user of its session what the internal service has said of that user, to this
request, to one that asks for the same user at the same time, or earlier; that
a user exists is remembered for a while, that it does not is never remembered.
It knows nothing of branches, flights, an errgroup or cancellation.
`ProfileFanout` implements it under the mapping `PS`: the memory is the set of
keys in the cache, and a request has heard what its internal branch has for a
verdict.

`Lifetimes` is what the two leave out: time. `AuthFlow` and `ProfileFanout` let
a record expire at any moment; here each item of the cache counts down the TTL
it was set with, each cookie its Max-Age, each call and each answer on its way
the time it takes, and the records of users count up their age from the moment
upstream read them.

| Code | Definitions |
|---|---|
| `memory.Cache`: `Get`, `WithDisableTouchOnHit`, `Set`, janitor | `Hit`, `AfterHit`, `Set`, `Evict` |
| `MaxAge: int(TTL.Seconds())` | `MaxAge` |
| `StartFlow` and `HandleCallback` with their stores, `Logout`, `Consume` | `Mint`, `Delete` |
| browser, network | `Arrive`, `Lose` |
| `WithSession`, `GetProfile` and its branches | `Begin`, `Lookup`, `Do`, `Land`, `ListEnds`, `Serve` |
| internal service | `UpstreamReads` |
| the clock | `Tick`, which waits for what is `Due` |

A state and a session differ in nothing but their TTL here, so both are
tickets, a record with the cookie that names it. A TTL of 0 means no expiry to
`ttlcache`, and `net/http` leaves a Max-Age of 0 out of the header; the model
has both. Requests are requests for `/profile` that found a session, so this
module also puts sessions and user records in the one cache they share.
Under the mapping `TL` it implements `TicketLife`: a record lives while `Get`
would find it. `AuthFlow` lets a record or a cookie end at any moment, and this
shows that the clocks never do anything else to them.

`Config` is `config.Load` as a function of a host, that is of its YAML files
and its environment, and of what the constructors in `Provide` refuse:

| Code | Definitions |
|---|---|
| `defaults`, the loop over the paths, the env provider | `Defaults`, `FirstFile`, `EnvLayer`, `EnvTransform` |
| koanf: a layer over what is there | `Merge` |
| `Unmarshal`, `Validate` | `Decodes`, `Unmarshal`, `Validate` |
| `provideCache`, `httpclient.New`, `github.New`, `registry.New` | `CacheBuilds`, `ClientBuilds`, `GithubBuilds`, `RegistryBuilds` |

Its keys are the ones that can stop the process, `auth.cookie_secure` among them
(a bool that does not decode fails `Load`), and one duration for all. A
variable set to the empty string is a setting like any other; a variable of an
unknown section is dropped; the files after the first that exists are not read.

`Lifecycle` is the process, on a host that `Config` reads: the main goroutine in
`run`, the goroutine that serves, and the requests in flight, seen as outbound
calls with ages.

| Code | Actions |
|---|---|
| `config.Load`, `signal.NotifyContext` | `Load`, `Signal` |
| `ContainerProvider.Provide` | `Provide` |
| goroutine of `run` with `ListenAndServe` | `Listen`, `ServeReturns`, `SendServeErr` |
| `select` in `run` | `WakeBySignal`, `WakeByServer` |
| `Server.Shutdown` | `Shutdown`, `ShutdownReturns`, `ShutdownExpires` |
| `Container.Close`, `main` | `Close`, `Exit` |
| requests | `Accept`, `CallEnds`, `Answer` |
| the clock | `Tick` |

Time is discrete and relative (the age of a request, of a call, the wait of
`Shutdown`), and it passes only while everything that runs is waiting: the
process's own steps take no time against timeouts of seconds. A call ends at
any age up to its client's timeout; a request is cut off by the exit and by
nothing else. `net/http` is modelled from its documentation as far as `run`
relies on it: `Shutdown` closes the listeners and returns nil when no
connection is active or the context's error when that is done, and
`ListenAndServe` returns `ErrServerClosed` from then on. Two points are the
library's and not the repository's. Once `Shutdown` has begun no handler is
started any more (`Accept`): the server of the Go version in `go.mod` looks
whether it is shutting down after it has read a request and before it calls the
handler; on a version that does not, a request could come in late, and
`NoGoodAnswerLost` and `GracefulServerSpec` would have to be looked at again. And
a listener that fails does not end the connections there are: they go on taking
requests (`connected`) until the process exits or shuts down. A callback makes up to
three calls, since oauth2 tries a failed exchange a second time when the
endpoint names no `AuthStyle`. Startup fails exactly when `LoadConfig` or
`Builds` says so for the host; the one fault is `listen` (the listener cannot
be opened or breaks).

`GracefulServer` is the abstract specification of the process for those outside:
it listens at most once and does not end while it listens; once it shuts down it
accepts nothing more and goes on with what it has accepted; if its listener
fails it serves the connections it has until it ends; and it ends well only
after it has shut down, with nothing left open. `Lifecycle` implements it under the
mapping `GS`, which reads the phase off main, the serving goroutine, `connected`
and `shutdown`.

`MCAuthFlow` and `MCProfileFanout` add symmetry for TLC, `MCLifecycle` the
default timeouts and the hosts, `MCLifetimes` the TTLs. The modules with a name
in `Proofs` hold the theorems. Operators commented "Mutant" are plausible mistakes in the
operator below them; no specification uses them, they serve to see that a
property can fail.

## Runs

Passing runs:

| Run | Instance | Shows |
|---|---|---|
| `AuthFlow_faults` | 2 browsers, 2 requests, 1 flow, 2 codes, 3 ids, every fault | `TypeOK`, `NoReplayAfterConsume`, `ReplayRefused`, `ConsumesBounded`, `SessionsPaidFor`, `OneSessionPerCode`, `LogoutFinal`, and the refinements `SessionLifeSpec` and `StateLifeSpec` |
| `AuthFlow_logins` | 2 browsers, 2 requests, 2 providers, 2 flows, 1 code, no faults | `FlowBinding`, `OwnLogin` across flows, browsers and providers, with states, codes and paths mixed up |
| `AuthFlow_duplicates` | 1 browser, 2 requests, 1 flow, 2 codes, no faults, fairness | `DuplicatesOneWins`: a callback sent twice at once still signs the user in, unless a callback with another code or path took its state |
| `ProfileFanout_users` | 2 requests, 2 users, failing upstreams, disconnects, fairness | `OwnUser`, `Answered`: every request is answered, and the refinement `ProfileServiceSpec` |
| `ProfileFanout_crowd` | 3 requests, 1 user, every fault | `TypeOK`, `WholeProfile`, and `Flights` with a leader and two followers |
| `Lifetimes` | 1 ticket with TTL none, 1 or 5, 1 user with TTL 3, 2 requests, timeouts 2 and 3, seconds of 2 units, fairness | `TypeOK`, `InStep`: cookie and record end together up to a second and the network, `Fresh`: the age of a served user is bounded, `Freed`: a ticket with a TTL leaves the memory, and the refinement `TicketLifeSpec` |
| `Lifecycle` | 2 requests, timeouts 2, 1, 3, 3, 19 hosts, every fault, fairness | `TypeOK`, `NoGoodAnswerLost`, `CleanExit`, `ProfileInTime`, `Precedence`, `SecretsGiven`, `FailsFast`, `SignalStops`: a signal ends the process from wherever it was, and the refinement `GracefulServerSpec` |

Runs that find a violation, each a place where the code does not do what one
of its documents or comments says (`PROJECT.json`, "findings", quotes them):

| Run | Violated | What the code does |
|---|---|---|
| `AuthFlow_race` | `SingleUse` | two overlapping callbacks consume one state |
| `AuthFlow_replay` | `ReplayAnswer` | a reloaded callback is answered "invalid state": its cookie is gone |
| `ProfileFanout_borrowed` | `OwnCancel` | a follower fails with the cancellation of the leader's request |
| `ProfileFanout_blocked` | `CancelUnblocks` | a cancelled follower still waits for the leader |
| `ProfileFanout_warm` | `WarmNeverCalls` | an upstream call begins while the record is cached |

The violations are bounded by what holds. In spite of the race a state is
consumed no more often than there are requests in flight at once
(`ConsumesBounded`), a callback that comes after is refused before it asks the
provider anything (`ReplayRefused`), each session needs a Consume of its own
(`SessionsPaidFor`) and a code of its own (`OneSessionPerCode`). So a double
Consume of one callback costs a failed exchange, not a second session.

Secrets are stated apart from the other settings, because documents and code do
not agree on them. `README.md:365` says "Secrets: GitHub client secret + internal
API key from env only", and a comment in `httpclient/client.go:24` that the API
key "is loaded from env". `config.Load` treats them like any other key and takes
them from a YAML file where no variable names them. `SecretsGiven` says what the
code does guarantee, a secret in force was given in the one or the other and is not
empty, and one host of the run starts with both secrets in its file and none in
its environment. `Precedence` is about the settings that are no secrets. If "env
only" is meant as a rule, then `Load` does not keep it.

### Bounds

`AuthFlow_logins` has no faults so that two browsers, providers and flows fit; that
its two properties hold with every fault is proved (`Binding`,
`SignedInBySelf`), and its callbacks meet in every order without them.
`MaxFlows` bounds the flows started in a behaviour, and the sets `Ids` and
`Codes` bound random ids and codes; when the ids are used up the random source
errs. `Requests` bounds the requests in flight, not the requests of a
behaviour: a slot is used again and again, and every counter-example of these
models needs two. Two flows are enough for one to interfere with the other, two
codes for a flow to be approved twice, two browsers for a callback to be
followed in the wrong one, and three requests for a flight with more than one
follower. The unit of time of `Lifecycle` is 5 s, so that 2, 1, 3 and 3 are the
defaults: outbound 10 s, internal 5 s, write and shutdown 15 s. An age is
counted up to the write deadline, beyond which nothing depends on it. Its hosts
are chosen so that each layer wins somewhere and each gatekeeper stops one:
eight start and eleven do not.

The unit of `Lifetimes` is half a second, so that a TTL can be below a second
(1), above and not whole (5), or none (0). `MaxDelay` bounds the way of an
answer, which `InStep` speaks of. Timeouts and `CacheTTL` are a few units; what
matters is that a call can be read early and land late, that a record can be
fetched just before it expires, and that the provider call can be the slower
branch, so that `Fresh` is reached with its bound: one unit less is violated.
A time that has run out stays at 0, and an age is reset where nothing reads it.
Nothing else is bounded. The proofs show that the bounds hide nothing
from the safety properties.

### Fairness

`FairSpec` is weak fairness of `Handle(r)` for every request: a goroutine that
can take a step takes one. The Go scheduler gives that, and the calls to the
outside end because both HTTP clients have a timeout (10 s in
`cmd/dependencies/providers.go`, `internal.http_timeout` for the internal
service). Nothing is assumed of browsers, the network, the provider's approval,
expiry or restarts.

`FairSpec` of `Lifecycle` is weak fairness of the main goroutine, of the
handlers, and of time. The serving goroutine, signals and clients get none: a
signalled process ends even if the goroutine never runs again.

`FairSpec` of `Lifetimes` is weak fairness of the janitor, of answers and calls
(they arrive or fail), and of the handlers, and strong fairness of `Tick`.
Strong, because `Tick` waits for steps that are due, and requests that keep
coming make one due again and again: real time does not stop for them. New
requests, mints and reads by upstream get none.

Two runs do not check for deadlock: in `Lifecycle` a process that has exited has
stopped, and in `Lifetimes` nothing has to happen once all is idle.

## Proofs

`AuthFlowProofs` proves, for any sets of browsers, requests, providers, ids
and codes and any faults: `TypeCorrect`, `NoReplay`, `Binding`,
`SingleSession`, `SignedInBySelf`, `LogoutIsFinal`, and `Implementation` and
`StateImplementation`, the two refinements of `TicketLife`. The only assumption
is `ConstantsOK`: registered names are names, `None` and `Keep` are not among
the values, and there are finitely many requests at a time (a process has
finitely many goroutines), which only the counts of `ConsumeProofs` need.

The properties are not inductive. `Inv` adds what they rest on:

- `Shaped`: types, and `WellFormed`, what a handler has at hand at each point
  (a callback that works on a record has matched its cookie, and so on).
- `Minted`: a state is minted before it is stored, read, visited or consumed,
  and a record read is the one its state was stored with. Fresh ids therefore
  were never consumed, which is why `NoReplayAfterConsume` survives `Start`.
- `Bound`: a state value travels only between the server and the browser it was
  minted for, through Set-Cookie, jar and Cookie. With `StateMatches` and
  `ProviderMatches` this gives `FlowBinding`.
- `Sessions`: a session id is stored before it is handed out, and until its
  answer arrives nobody else has it. So a logout can only name an id that no
  answer still carries: `LogoutFinal`.
- `Spent`: a code is burned before a session is made from it, and between the
  two only one request has it: `OneSessionPerCode`, although Consume is not
  atomic.
- `Logins`: a session id, on every stage of its way, is with the browser whose
  flow its code was issued for: `OwnLogin`.

Each conjunct has its own inductiveness lemma, with one step per action; frame
lemmas deal with the actions that a conjunct does not look at. The refinement
of sessions maps each step of `AuthFlow` to `Create`, `Lapse`, `Hand` or a
stutter; it needs `Sessions` for `Hand`, and freshness for `Create`. The one of
states needs `Minted` for both. `ConsumeDelete` and `Expire` map to a `Lapse` of
one state or, when a second Consume deletes what is gone, to a stutter.

`ConsumeProofs` is about `Consume`, which is a read and a delete. `SingleUse` is
violated by the code, and `SingleUseApart` says that the race is the only way:
in every behaviour in which no two requests are ever between the read and the
delete of one state (`Apart`), each state is consumed at most once, with every
fault and any number of requests elsewhere. It rests on `Inv` (a consumed state
is not in the cache, so it is not read again) and on `Unspent`: a state that
somebody has read and not yet deleted has no win. What a Consume with GETDEL
would add, as the comment on it suggests for Redis, is therefore all that is
missing. Without `Apart` the theorems count. `Counted` says of each state that
the Consumes that have succeeded and the requests that are between read and
delete (`Consuming`) are together at most as many as the requests (a Consume that
will succeed begins while none has finished); and that the sessions made from it
and the callbacks that have paid for one and are still on their way to it
(`Pending`) are together at most its successful Consumes. Each step moves at most
one request from one of these sets to the next; `RaceIsBounded` and
`SessionsArePaidFor` are the two halves.
`OneLoginApart` puts the two results together: apart, a login makes one session
although its user may have approved it many times. `ReplayIsRefused` is the
action property `ReplayRefused`.

`ProfileFanoutProofs` proves `TypeCorrect`, `FlightsConsistent`, `NoMixUp` and
`AllOrNothing` for any requests, users and faults. Its invariant adds to the
properties that a served request has a user (`Served`), that a request that is
not served has no branch running (`Quiet`), that a landed branch has a verdict
(`Settled`), that no branch has one before its call, its flight or the cache gave
it, and that a group fails for a missing user only by the verdict of its own
branch (`Told`). On this rests `Implementation`, the refinement of
`ProfileService`: `Request` maps to `Ask`, a call that succeeds or finds no user to
`Hear`, `FillCache` to `Remember`, a hit in `Lookup` to `Recall`, `Land` to `Share`,
`Expire` to `Forget`, `Answer` and `Administer` to their namesakes, and the rest of
the machinery to stutters.

Two theorems speak of the answers in terms of the internal service alone. In a
behaviour in which it never knows a user, no request of that user is answered
200 (`NeverInvented`, by `Unheard`: neither cache nor verdict nor status has heard
of it); in one in which it always does, none is answered 404 (`NeverDenied`, by
`Undenied`). Two more say why `OwnCancel` and `WarmNeverCalls` fail in the runs:
only by sharing. While no user has two requests at once (`Alone`), a request is
cancelled only for its own client (`OwnCancelAlone`), and no call begins for a
cached record (`WarmAlone`, which also needs a cache that does not fail). The
first rests on a flight that is led alone having no followers, the second on
nobody else filling the cache between a miss and the call.

`LifetimesProofs` proves `TypeCorrect`, `CookiesInStep` and `NothingStale` for any
tickets, users, requests, TTLs and timeouts. Its `Inv` bounds each stage of an
age by the one before: a call by its timeout, a cached record by that and the
part of the TTL that is gone, a branch that is done by that and the time the
provider call has taken. A cookie is bounded by its record plus its delay, where
the truncation of `MaxAge` is the one place that needs arithmetic.
`TicketImplementation` is the refinement of `TicketLife`. It adds to the types
that a ticket is in the cache only once it was minted (`Unminted`), and divides
the steps in three: one mints, one delivers a cookie, and all others only let
tickets lapse (`OnlyLapse`), the clock and the janitor among them.

`LifecycleProofs` proves `TypeCorrect`, `NothingGoodLost`, `ExitIsClean` and
`ProfileNeverLate` for any number of requests and any timeouts that satisfy
`TimeoutsOK`: positive, the outbound timeouts below the write timeout, the
write timeout at most the shutdown timeout. This is the order of the defaults
and of `config/config.yaml`; `Validate` does not enforce it, so neither
theorem nor run can catch an operator who breaks it. `Inv` relates the
stages of main to the other parts (`Staged`), the wait of `Shutdown` to the age
of every request that still runs (`Aged`: when `Shutdown` gives up, they all
are past their write deadline), exit status 0 to a drained server (`Drains`),
and the age of a `/profile` request to that of the call it waits for (`Waits`).
`Settled` says that the settings in force are those that `LoadConfig` makes of
the host, and that a process that serves has passed `Builds`; `LayersInOrder`,
`SecretsAreGiven` and `NeverHalfConfigured` follow by the lemmas of `ConfigProofs` about what
`LoadConfig` returns on every host, with any files, variables and values.

`Implementation` is the refinement of `GracefulServer`. It needs one more
invariant, `Attended`: a server that is starting or serving has a main that waits
for it or is shutting it down, a server that has not listened has no requests,
and its error is in the channel only when it is done. `Shutdown` maps to `Close`,
a listener that breaks to `Fail`, exit and a killing signal to `End`.

Only model-checked: the liveness properties `DuplicatesOneWins`, `Answered`,
`SignalStops` and `Freed`, which the prover cannot reach under fairness. Of the
violated properties, `SingleUse`, `OwnCancel` and `WarmNeverCalls` are proved under
the condition that rules their cause out; `CancelUnblocks` speaks of `ENABLED`,
which the prover cannot treat, and `ReplayAnswer` is replaced by `ReplayRefused`,
what the code does instead.

## Not modelled, and the plan

Left out for good: response bodies, URLs and headers other than the cookies'
values and Max-Age, the payloads of GitHub's REST API and with them a `/user`
body without an id, scopes, logging, health, the static UI and the mock service
(no state), `Registry.Names` (only logged), and Recovery (no modelled handler
panics). The settings that cannot stop the process, such as `auth.cookie_samesite`,
are read like the others and not listed in `Config`. Negative durations, which
`time.ParseDuration` accepts, are not among the values of `Lifetimes` and
`Lifecycle`: the repository says nothing of them. `Lifecycle` assumes the order
of the default timeouts, which `Validate` does not enforce: a hazard that no
property covers. `Lifetimes` assumes that `CacheTTL` is not 0. `Load` accepts
`internal.cache_ttl: 0s`, which `ttlcache` takes for no expiry, and then a user
record is served until the process ends and `Fresh` does not hold.

What could follow: the login of `AuthFlow` with the clock of `Lifetimes`, so that
a callback that takes long meets the TTL of its own state and the write deadline
in one behaviour; and a second provider, once the repository has one.
