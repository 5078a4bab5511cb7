----------------------------- MODULE Lifecycle -----------------------------
(***************************************************************************)
(* The life of the process: run of cmd/server/main.go, the wiring and the  *)
(* cleanups of cmd/dependencies, and the HTTP server with the requests it  *)
(* serves while a signal ends it.                                          *)
(*                                                                         *)
(* Time is discrete and relative: the server counts the age of a request,  *)
(* a client the age of a call, Shutdown the time it has waited.  A step of *)
(* the process takes no time; time passes (Tick) while all that runs is    *)
(* waiting.  A request is seen as the outbound calls it makes one after    *)
(* the other, each of which ends within its timeout.                       *)
(*                                                                         *)
(* Config says what Load and the constructors make of the host's files and *)
(* environment, which do not change while the process runs.                *)
(***************************************************************************)
EXTENDS Naturals, Config

CONSTANTS Requests,
          OutboundTimeout,   \* of the GitHub client, providers.go
          InternalTimeout,   \* internal.http_timeout
          WriteTimeout,      \* server.write_timeout
          ShutdownTimeout,   \* server.shutdown_timeout
          Hosts,             \* the hosts the process may be started on
          Faults             \* what may go wrong in a behaviour

Longest == IF InternalTimeout <= OutboundTimeout THEN OutboundTimeout ELSE InternalTimeout

\* The order of the timeouts is the one of the defaults (10, 5, 15, 15 s).
ASSUME TimeoutsOK ==
  /\ {OutboundTimeout, InternalTimeout, WriteTimeout, ShutdownTimeout} \subseteq Nat \ {0}
  /\ Longest < WriteTimeout
  /\ WriteTimeout <= ShutdownTimeout

ASSUME HostsOK == \A h \in Hosts : IsHost(h)
ASSUME NoSettingsOK == NoSettings \notin [Keys -> Strings]

VARIABLES
  host,       \* the files and the environment
  settings,   \* what config.Load has made of them
  proc,       \* where the main goroutine is
  code,       \* how the process exits, "running" before that is settled
  signalled,  \* rootCtx is done
  serve,      \* where the goroutine that runs ListenAndServe is
  serveErr,   \* the value in the channel between the two
  connected,  \* the server has listened: clients may have connections
  shutdown,   \* the server is in Shutdown: its listeners are closed
  grace,      \* how long Shutdown has waited
  janitor,    \* the goroutine that removes expired items from the cache
  cleanups,   \* the container's cleanups
  kind,       \* kind[r]: what request r is, "none" if there is none
  left,       \* left[r]: the outbound calls it has still to end
  wait,       \* wait[r]: the age of its current call
  age         \* age[r]: its age, counted up to WriteTimeout

config   == <<host, settings>>
main     == <<config, proc, code, signalled, shutdown, grace, janitor, cleanups>>
requests == <<kind, left, wait, age>>
server   == <<connected, serve, serveErr>>
vars     == <<main, server, requests>>

Kinds == {"quick", "callback", "profile"}

Stages == {"loading", "wiring", "up", "stopping", "draining", "closing", "exiting", "exited"}
Codes  == {"running", "ok", "fatal", "killed"}

Running == {r \in Requests : kind[r] # "none"}

TypeOK ==
  /\ host \in Hosts
  /\ settings \in [Keys -> Strings] \cup {NoSettings}
  /\ proc \in Stages
  /\ code \in Codes
  /\ signalled \in BOOLEAN /\ connected \in BOOLEAN /\ shutdown \in BOOLEAN
  /\ serve \in {"none", "starting", "serving", "failed", "closed", "done"}
  /\ serveErr \in {"empty", "failed", "closed"}
  /\ grace \in 0..ShutdownTimeout
  /\ janitor \in {"none", "running", "stopped"}
  /\ cleanups \subseteq {"stop cache"}
  /\ kind \in [Requests -> Kinds \cup {"none"}]
  /\ left \in [Requests -> Nat]
  /\ wait \in [Requests -> 0..Longest]
  /\ age \in [Requests -> 0..WriteTimeout]

Init ==
  /\ host \in Hosts /\ settings = NoSettings
  /\ proc = "loading" /\ code = "running"
  /\ signalled = FALSE /\ connected = FALSE /\ shutdown = FALSE
  /\ serve = "none" /\ serveErr = "empty"
  /\ grace = 0
  /\ janitor = "none" /\ cleanups = {}
  /\ kind = [r \in Requests |-> "none"]
  /\ left = [r \in Requests |-> 0]
  /\ wait = [r \in Requests |-> 0]
  /\ age = [r \in Requests |-> 0]

-----------------------------------------------------------------------------
(* Startup                                                                 *)

\* run returns: main exits with 0, or logs the error and exits with 1.
Return(stage, status) == proc' = stage /\ code' = status

\* config.Load, and the registration of the signals.
Load ==
  /\ proc = "loading"
  /\ settings' = LoadConfig(host)
  /\ IF settings' = NoSettings
     THEN Return("exiting", "fatal")
     ELSE proc' = "wiring" /\ UNCHANGED code
  /\ UNCHANGED <<host, signalled, shutdown, grace, janitor, cleanups, server, requests>>

\* Provide.  The cache is first: its janitor runs, and its cleanup is
\* registered in a container that an error further on drops.
Provide ==
  /\ proc = "wiring"
  /\ janitor' = IF CacheBuilds(settings) THEN "running" ELSE janitor
  /\ \/ /\ ~Builds(settings)
        /\ Return("exiting", "fatal")
        /\ UNCHANGED <<cleanups, serve>>
     \/ /\ Builds(settings)
        /\ proc' = "up" /\ UNCHANGED code
        /\ cleanups' = {"stop cache"}
        /\ serve' = "starting"
  /\ UNCHANGED <<config, signalled, connected, shutdown, grace, serveErr, requests>>

\* SIGINT or SIGTERM.  While run is registered for it, it ends rootCtx, and
\* a second one does nothing.  Before, and after the deferred cancel, it ends
\* the process.
Signal ==
  /\ \/ /\ proc \in {"loading", "exiting"}
        /\ Return("exited", "killed")
        /\ UNCHANGED signalled
     \/ /\ proc \notin {"loading", "exited"} /\ ~signalled
        /\ signalled' = TRUE
        /\ UNCHANGED <<proc, code>>
  /\ UNCHANGED <<config, shutdown, grace, janitor, cleanups, server, requests>>

-----------------------------------------------------------------------------
(* The goroutine that serves                                               *)

\* ListenAndServe: it may be called after Shutdown has been.
Listen ==
  /\ serve = "starting" /\ proc # "exited"
  /\ \/ shutdown /\ serve' = "closed" /\ UNCHANGED connected
     \/ ~shutdown /\ serve' = "serving" /\ connected' = TRUE
     \/ ~shutdown /\ "listen" \in Faults /\ serve' = "failed" /\ UNCHANGED connected
  /\ UNCHANGED <<main, serveErr, requests>>

\* Serve returns ErrServerClosed once Shutdown has begun, another error if
\* the listener breaks, which leaves the connections there are alone.
ServeReturns ==
  /\ serve = "serving" /\ proc # "exited"
  /\ \/ shutdown /\ serve' = "closed"
     \/ ~shutdown /\ "listen" \in Faults /\ serve' = "failed"
  /\ UNCHANGED <<main, connected, serveErr, requests>>

\* The channel has room for the one value that is ever sent.
SendServeErr ==
  /\ serve \in {"failed", "closed"} /\ proc # "exited"
  /\ serveErr = "empty"
  /\ serveErr' = serve
  /\ serve' = "done"
  /\ UNCHANGED <<main, connected, requests>>

-----------------------------------------------------------------------------
(* The end                                                                 *)

\* Mutant: run waits for the server only.
ServeErrOnly == FALSE

\* What the first case of run's select waits for.
Interrupted == signalled

\* Mutant: run returns on the signal and does not call Shutdown.
ReturnOnSignal ==
  /\ proc = "up"
  /\ Interrupted
  /\ Return("closing", "ok")
  /\ UNCHANGED <<config, signalled, shutdown, grace, janitor, cleanups, server, requests>>

WakeBySignal ==
  /\ proc = "up"
  /\ Interrupted
  /\ proc' = "stopping"
  /\ UNCHANGED <<config, code, signalled, shutdown, grace, janitor, cleanups, server, requests>>

\* The server has failed: its error is returned, Shutdown is not called.
WakeByServer ==
  /\ proc = "up"
  /\ serveErr # "empty"
  /\ Return("closing", IF serveErr = "failed" THEN "fatal" ELSE "ok")
  /\ serveErr' = "empty"
  /\ UNCHANGED <<config, signalled, shutdown, grace, janitor, cleanups, connected, serve, requests>>

\* Shutdown with a context of its own: it closes the listeners.
Shutdown ==
  /\ proc = "stopping"
  /\ proc' = "draining"
  /\ shutdown' = TRUE
  /\ UNCHANGED <<config, code, signalled, grace, janitor, cleanups, server, requests>>

\* Mutant: the server is closed and not shut down.
Closed == TRUE

\* Shutdown returns nil when no connection is active.
Drained == Running = {}

ShutdownReturns ==
  /\ proc = "draining"
  /\ Drained
  /\ Return("closing", "ok")
  /\ UNCHANGED <<config, signalled, shutdown, grace, janitor, cleanups, server, requests>>

\* Mutant: the context of Shutdown is derived from rootCtx, which is done.
DerivedLimit == 0

\* What the context of Shutdown allows: it is derived from Background.
Limit == ShutdownTimeout

ShutdownExpires ==
  /\ proc = "draining"
  /\ grace >= Limit
  /\ Return("closing", "fatal")
  /\ UNCHANGED <<config, signalled, shutdown, grace, janitor, cleanups, server, requests>>

\* The deferred Container.Close: the cleanups, once.  Stop waits for the
\* janitor to take notice, so it would block if it were called again.
Close ==
  /\ proc = "closing"
  /\ "stop cache" \in cleanups => janitor = "running"
  /\ janitor' = IF "stop cache" \in cleanups THEN "stopped" ELSE janitor
  /\ cleanups' = {}
  /\ proc' = "exiting"
  /\ UNCHANGED <<config, code, signalled, shutdown, grace, server, requests>>

\* main returns or calls os.Exit: what still runs is cut off.
Exit ==
  /\ proc = "exiting"
  /\ proc' = "exited"
  /\ UNCHANGED <<config, code, signalled, shutdown, grace, janitor, cleanups, server, requests>>

-----------------------------------------------------------------------------
(* Requests                                                                *)

\* Mutant: GetProfile makes its two calls one after the other.
ProfileInSequence(k) ==
  IF k = "quick" THEN 0 ELSE 2

\* The calls a handler waits for in turn at most: a callback for the exchange,
\* which oauth2 tries in two ways where no AuthStyle is set, and the identity;
\* a profile for its two branches at once.
Calls(k) == IF k = "callback" THEN 3 ELSE IF k = "profile" THEN 1 ELSE 0

\* Mutant: the HTTP clients are built without a timeout.
NoTimeout(k) == Longest + 1

\* How long one of them can take.  A branch that joins a flight waits for a
\* call that has begun before.
CallTimeout(k) == IF k = "profile" THEN Longest ELSE OutboundTimeout

\* The server reads a request from a connection, old or new.  If its listener
\* fails the old ones go on until the process exits; once Shutdown has begun
\* no handler is started any more.
Accept(r, k) ==
  /\ connected /\ ~shutdown /\ proc # "exited"
  /\ r \notin Running
  /\ kind' = [kind EXCEPT ![r] = k]
  /\ left' = [left EXCEPT ![r] = Calls(k)]
  /\ wait' = [wait EXCEPT ![r] = 0]
  /\ age' = [age EXCEPT ![r] = 0]
  /\ UNCHANGED <<main, server>>

\* A call ends: after a good exchange there is no second try, after an error
\* the handler makes no further call.
CallEnds(r) ==
  /\ r \in Running /\ proc # "exited"
  /\ left[r] > 0
  /\ \E n \in 0..(left[r] - 1) : left' = [left EXCEPT ![r] = n]
  /\ wait' = [wait EXCEPT ![r] = 0]
  /\ UNCHANGED <<main, server, kind, age>>

\* The handler returns.  The answer is written if the request is younger
\* than WriteTimeout; in any case the connection is no longer active.
Answer(r) ==
  /\ r \in Running /\ proc # "exited"
  /\ left[r] = 0
  /\ kind' = [kind EXCEPT ![r] = "none"]
  /\ UNCHANGED <<main, server, left, wait, age>>

\* Nothing of the process is ready to take a step by itself.
Waiting ==
  /\ \/ proc = "up" /\ ~signalled /\ serveErr = "empty"
     \/ proc = "draining" /\ Running # {} /\ grace < ShutdownTimeout
  /\ \A r \in Running : left[r] > 0 /\ wait[r] < CallTimeout(kind[r])

Older(a) == IF a < WriteTimeout THEN a + 1 ELSE a

Tick ==
  /\ Waiting
  /\ grace' = IF proc = "draining" THEN grace + 1 ELSE grace
  /\ wait' = [r \in Requests |-> IF r \in Running THEN wait[r] + 1 ELSE wait[r]]
  /\ age' = [r \in Requests |-> IF r \in Running THEN Older(age[r]) ELSE age[r]]
  /\ UNCHANGED <<config, proc, code, signalled, shutdown, janitor, cleanups, server, kind, left>>

MainStep ==
  \/ Load \/ Provide
  \/ WakeBySignal \/ WakeByServer
  \/ Shutdown \/ ShutdownReturns \/ ShutdownExpires
  \/ Close \/ Exit

ServeStep == Listen \/ ServeReturns \/ SendServeErr

Handle(r) == CallEnds(r) \/ Answer(r)

Next ==
  \/ MainStep \/ ServeStep \/ Signal \/ Tick
  \/ \E r \in Requests : Handle(r)
  \/ \E r \in Requests, k \in Kinds : Accept(r, k)

Spec == Init /\ [][Next]_vars

\* The main goroutine runs when it can, the goroutine of a handler too (a
\* call ends, if only by its timeout), and time passes.  Nothing is assumed
\* of signals, clients or the listener.
FairSpec ==
  /\ Spec
  /\ WF_vars(MainStep) /\ WF_vars(Tick)
  /\ \A r \in Requests : WF_vars(Handle(r))

-----------------------------------------------------------------------------
(* Properties                                                              *)

\* Shutting down loses no answer that could still have been written: when
\* the process ends after a signal, a request that is cut off has passed its
\* write deadline.  (main.go: "waits for SIGINT/SIGTERM and shuts down
\* cleanly".)
NoGoodAnswerLost ==
  proc = "exited" /\ shutdown => \A r \in Running : age[r] >= WriteTimeout

\* Exit status 0 can be relied on: no request was cut off and the cleanups
\* have run.
CleanExit == proc = "exited" /\ code = "ok" => Running = {} /\ janitor = "stopped"

\* With files, signals, two goroutines and deadlines the process keeps what
\* GracefulServer promises: it does not end while it listens, accepts nothing
\* once it shuts down, and its exit status tells whether anything was cut off.
Phase ==
  CASE proc = "exited"                                 -> "ended"
    [] proc # "exited" /\ shutdown                      -> "closed"
    [] proc # "exited" /\ ~shutdown /\ ~connected       -> "down"
    [] proc # "exited" /\ ~shutdown /\ connected        ->
         IF serve = "serving" THEN "listening" ELSE "failing"

Outcome == IF proc # "exited" THEN "none" ELSE IF code = "ok" THEN "ok" ELSE "failed"

GS == INSTANCE GracefulServer WITH phase <- Phase, open <- Running, outcome <- Outcome

GracefulServerSpec == GS!Spec

\* /profile is answered before the write deadline, whatever its upstreams do.
ProfileInTime == \A r \in Running : kind[r] = "profile" => age[r] < WriteTimeout

\* The variables that name a key, and the file that is read if it has it.
Named(k)  == {v \in Recognised(host.env) : EnvTransform(v) = k}
InFile(k) == {i \in DOMAIN host.files :
                /\ \A j \in DOMAIN host.files : j < i => host.files[j] = Absent
                /\ host.files[i] # Absent /\ k \in DOMAIN host.files[i]}

\* What README.md calls the secrets.
Secrets == {APIKey, ClientSecret}

\* "Precedence (lowest -> highest): defaults < yaml file < env" (config.go):
\* a setting in force, no secret, is the one of the environment where a
\* variable names it, else of the one file that is read where that has it,
\* else the default.
Precedence ==
  settings # NoSettings =>
    \A k \in Keys \ Secrets :
      /\ \A v \in Named(k) : settings[k] = host.env[v]
      /\ Named(k) = {} => \A i \in InFile(k) : settings[k] = host.files[i][k]
      /\ Named(k) = {} /\ InFile(k) = {} =>
           settings[k] = IF k \in DOMAIN Defaults THEN Defaults[k] ELSE ""

\* A secret in force is not empty and was given by the operator: it is the one
\* of the environment where a variable names it, and else it is in the file
\* that is read.  README.md ("Secrets: GitHub client secret + internal API key
\* from env only") and httpclient/client.go ("loaded from env") leave out the
\* second source; config.Load does not.
SecretsGiven ==
  settings # NoSettings =>
    \A k \in Secrets :
      /\ settings[k] # ""
      /\ \/ \E v \in Named(k) : settings[k] = host.env[v]
         \/ Named(k) = {} /\ \E i \in InFile(k) : settings[k] = host.files[i][k]

\* A process that has opened its listener lacks nothing it will need: no
\* file it read was broken, no secret is missing, the internal service has
\* an address, and the cache is the one that was asked for, "without anyone
\* silently downgrading" (cmd/dependencies/cache.go).
FailsFast ==
  serve # "none" =>
    /\ FirstFile(host.files) # Broken
    /\ \A k \in Keys \ {Driver, CookieSecure} : settings[k] # ""
    /\ settings[InternalURL] \notin BadURLs
    /\ settings[WriteLimit] \notin BadDurations
    /\ settings[CookieSecure] \notin BadBools
    /\ settings[Driver] \in {"memory", ""}

\* After a signal the process ends, wherever it was and whatever still runs.
SignalStops == signalled ~> proc = "exited"
=============================================================================
