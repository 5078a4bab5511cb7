-------------------------- MODULE LifecycleProofs --------------------------
(***************************************************************************)
(* Theorems about Lifecycle for any number of requests, any timeouts in    *)
(* the order of the defaults, and any faults.                              *)
(***************************************************************************)
EXTENDS Lifecycle, ConfigProofs

Late == {"closing", "exiting", "exited"}

\* Which parts of the process go with which stage of main.
Staged ==
  /\ proc \in {"loading", "wiring"} => serve = "none"
  /\ proc = "draining" => shutdown
  /\ shutdown => proc \in Late \cup {"draining"}
  /\ ~shutdown => grace = 0
  /\ serve = "closed" \/ serveErr = "closed" => shutdown
  /\ proc \in {"up", "stopping", "draining", "closing"} =>
       janitor = "running" /\ cleanups = {"stop cache"}

\* What Shutdown has waited every request that still runs has aged, so when
\* it gives up they all have passed their write deadline.
Aged ==
  shutdown => \A r \in Running :
    /\ age[r] >= grace \/ age[r] >= WriteTimeout
    /\ proc \in Late => age[r] >= WriteTimeout

\* Only a Shutdown that has drained the server returns nil.
Drains ==
  code = "ok" =>
    /\ proc \in Late /\ shutdown /\ Running = {}
    /\ proc # "closing" => janitor = "stopped"

\* A /profile request is as old as the one call it waits for.
Waits ==
  \A r \in Running : kind[r] = "profile" =>
    /\ left[r] \in {0, 1}
    /\ left[r] = 1 => age[r] = wait[r]
    /\ age[r] <= Longest

\* The settings are what Load made of the host, and past the wiring they
\* have satisfied the constructors too.
Settled ==
  /\ settings # NoSettings => settings = LoadConfig(host)
  /\ proc = "wiring" => settings # NoSettings
  /\ serve # "none" => settings # NoSettings /\ Builds(settings)

Inv == TypeOK /\ Staged /\ Aged /\ Drains /\ Waits /\ Settled

\* The longest call is shorter than any write deadline.
LEMMA Durations ==
  /\ OutboundTimeout \in Nat \ {0} /\ InternalTimeout \in Nat \ {0}
  /\ WriteTimeout \in Nat \ {0} /\ ShutdownTimeout \in Nat \ {0}
  /\ Longest \in Nat /\ Longest < WriteTimeout /\ WriteTimeout <= ShutdownTimeout
  /\ OutboundTimeout <= Longest
BY TimeoutsOK DEF Longest

\* What the types say of one request, and of Shutdown.
LEMMA Counters ==
  ASSUME TypeOK
  PROVE  /\ grace \in Nat /\ grace <= ShutdownTimeout
         /\ \A r \in Requests :
              /\ left[r] \in Nat
              /\ wait[r] \in Nat /\ wait[r] <= Longest
              /\ age[r] \in Nat /\ age[r] <= WriteTimeout
         /\ Running \subseteq Requests
<1>1. grace \in 0..ShutdownTimeout /\ age \in [Requests -> 0..WriteTimeout]
      /\ left \in [Requests -> Nat] /\ wait \in [Requests -> 0..Longest]
  BY DEF TypeOK
<1>2. Running \subseteq Requests
  BY DEF Running
<1> QED BY <1>1, <1>2, Durations

\* The initial state satisfies the invariant.
LEMMA InvInit == Init => Inv
<1> SUFFICES ASSUME Init PROVE Inv
  OBVIOUS
<1>1. /\ proc = "loading" /\ code = "running" /\ shutdown = FALSE /\ grace = 0
      /\ serve = "none" /\ serveErr = "empty" /\ connected = FALSE
  BY DEF Init
<1>2. Running = {}
  BY DEF Init, Running
<1>3. 0 \in 0..Longest /\ 0 \in 0..WriteTimeout /\ 0 \in 0..ShutdownTimeout
  BY Durations
<1>4. TypeOK
  BY <1>3 DEF Init, TypeOK, Stages, Codes, Kinds
<1>7. Settled
  BY <1>1 DEF Init, Settled
<1>5. Staged
  BY <1>1 DEF Staged, Late
<1>6. Aged /\ Drains /\ Waits
  BY <1>1, <1>2 DEF Aged, Drains, Waits
<1> QED BY <1>4, <1>5, <1>6, <1>7 DEF Inv

\* The main goroutine: every step but Shutdown's leaves requests, time and
\* the server as they are.
LEMMA MainInductive == Inv /\ MainStep => Inv'
<1> SUFFICES ASSUME Inv, MainStep PROVE Inv'
  OBVIOUS
<1> USE DEF Inv, server
<1>1. UNCHANGED <<requests, grace, signalled, connected>>
  BY DEF MainStep, Load, Provide, WakeBySignal, WakeByServer, Shutdown, ShutdownReturns,
         ShutdownExpires, Close, Exit, Return
<1>2. Running' = Running
  BY <1>1 DEF Running, requests
<1>8. /\ host' = host
      /\ settings' = settings \/ (proc = "loading" /\ settings' = LoadConfig(host))
  BY DEF MainStep, Load, Provide, WakeBySignal, WakeByServer, Shutdown, ShutdownReturns,
         ShutdownExpires, Close, Exit, Return, config
<1>3. TypeOK'
  <2>1. /\ proc' \in Stages /\ code' \in Codes /\ shutdown' \in BOOLEAN
        /\ serve' \in {"none", "starting", "serving", "failed", "closed", "done"}
        /\ serveErr' \in {"empty", "failed", "closed"}
        /\ janitor' \in {"none", "running", "stopped"}
        /\ cleanups' \subseteq {"stop cache"}
    <3>1. CASE Load \/ Provide
      BY <3>1 DEF TypeOK, Load, Provide, Return, Stages, Codes
    <3>2. CASE ~(Load \/ Provide)
      BY <3>2 DEF TypeOK, MainStep, WakeBySignal, WakeByServer, Shutdown,
                  ShutdownReturns, ShutdownExpires, Close, Exit, Return, Stages, Codes
    <3> QED BY <3>1, <3>2
  <2>2. host' \in Hosts /\ settings' \in [Keys -> Strings] \cup {NoSettings}
    BY <1>8, LoadType, HostsOK DEF TypeOK
  <2> QED BY <1>1, <2>1, <2>2 DEF TypeOK, requests
<1>4. Waits'
  BY <1>1, <1>2 DEF Waits, requests
<1>5. Staged'
  <2>1. CASE Load \/ Provide
    <3>0. proc \in {"loading", "wiring"} /\ shutdown' = shutdown
      BY <2>1 DEF Load, Provide
    <3>1. ~shutdown /\ ~shutdown'
      BY <3>0 DEF Staged, Late
    <3>2. serve # "closed" /\ serveErr # "closed" /\ grace = 0
      BY <3>1 DEF Staged
    <3>3. serve' # "closed" /\ serveErr' # "closed" /\ grace' = 0
      BY <1>1, <2>1, <3>2 DEF Load, Provide, Return
    <3>4. proc' \in {"up", "stopping", "draining", "closing"} =>
            proc' = "up" /\ janitor' = "running" /\ cleanups' = {"stop cache"}
      BY <2>1 DEF Load, Provide, Return, Builds
    <3>5. proc' \in {"loading", "wiring"} => serve' = "none"
      BY <2>1, <3>0 DEF Staged, Load, Provide, Return
    <3>6. proc' # "draining"
      BY <2>1 DEF Load, Provide, Return
    <3> QED BY <3>1, <3>3, <3>4, <3>5, <3>6 DEF Staged, Late
  <2>2. CASE WakeBySignal \/ WakeByServer
    <3>0. proc = "up" /\ shutdown' = shutdown
      BY <2>2 DEF WakeBySignal, WakeByServer
    <3>1. ~shutdown /\ ~shutdown'
      BY <3>0 DEF Staged, Late
    <3>2. serve # "closed" /\ serveErr # "closed" /\ grace = 0
      BY <3>1 DEF Staged
    <3>3. serve' # "closed" /\ serveErr' # "closed" /\ grace' = 0
      BY <1>1, <2>2, <3>2 DEF WakeBySignal, WakeByServer, Return
    <3>4. /\ janitor' = "running" /\ cleanups' = {"stop cache"}
          /\ proc' \notin {"loading", "wiring", "draining"}
      BY <2>2 DEF Staged, WakeBySignal, WakeByServer, Return
    <3> QED BY <3>1, <3>3, <3>4 DEF Staged, Late
  <2>3. CASE Shutdown
    BY <1>1, <2>3 DEF Staged, Late, Shutdown
  <2>4. CASE ShutdownReturns \/ ShutdownExpires
    BY <1>1, <2>4 DEF Staged, Late, ShutdownReturns, ShutdownExpires, Return
  <2>5. CASE Close \/ Exit
    BY <1>1, <2>5 DEF Staged, Late, Close, Exit
  <2> QED BY <2>1, <2>2, <2>3, <2>4, <2>5 DEF MainStep
<1>6. Aged'
  <2>1. CASE Load \/ Provide \/ WakeBySignal \/ WakeByServer
    <3>1. ~shutdown'
      BY <2>1 DEF Staged, Late, Load, Provide, WakeBySignal, WakeByServer, Return
    <3> QED BY <3>1 DEF Aged
  <2>2. CASE Shutdown
    <3>1. grace = 0 /\ proc' = "draining"
      BY <2>2 DEF Shutdown, Staged, Late
    <3>2. \A r \in Running : age[r] >= grace
      BY <3>1, Counters
    <3> QED BY <1>1, <1>2, <3>1, <3>2 DEF Aged, Late, requests
  <2>3. CASE ShutdownReturns
    BY <1>2, <2>3 DEF ShutdownReturns, Drained, Aged
  <2>4. CASE ShutdownExpires
    <3>1. grace >= WriteTimeout /\ shutdown' = shutdown
      BY <2>4, Counters, Durations DEF ShutdownExpires, Limit
    <3>2. shutdown => \A r \in Running : age[r] >= WriteTimeout
      BY <3>1, Counters, Durations DEF Aged
    <3> QED BY <1>1, <1>2, <3>1, <3>2 DEF Aged, requests
  <2>5. CASE Close \/ Exit
    BY <1>1, <1>2, <2>5 DEF Close, Exit, Aged, Late, requests
  <2> QED BY <2>1, <2>2, <2>3, <2>4, <2>5 DEF MainStep
<1>7. Drains'
  <2>1. CASE WakeByServer
    <3>1. serveErr # "closed"
      BY <2>1 DEF WakeByServer, Staged, Late
    <3>2. serveErr = "failed"
      BY <2>1, <3>1 DEF WakeByServer, TypeOK
    <3>3. code' = "fatal"
      BY <2>1, <3>2 DEF WakeByServer, Return
    <3> QED BY <3>3 DEF Drains
  <2>2. CASE ShutdownReturns
    BY <1>2, <2>2 DEF ShutdownReturns, Return, Drained, Drains, Late, Staged
  <2>3. CASE Close \/ Exit
    BY <1>2, <2>3 DEF Close, Exit, Drains, Late, Staged
  <2>4. CASE Load \/ Provide \/ WakeBySignal \/ Shutdown \/ ShutdownExpires
    BY <2>4 DEF Load, Provide, WakeBySignal, Shutdown, ShutdownExpires, Return, Drains, Late
  <2> QED BY <2>1, <2>2, <2>3, <2>4 DEF MainStep
<1>9. Settled'
  <2>1. CASE Load
    <3>1. serve' = serve /\ (proc' = "wiring" => settings' # NoSettings)
      BY <2>1 DEF Load, Return
    <3>2. serve = "none"
      BY <2>1 DEF Load, Staged
    <3> QED BY <1>8, <2>1, <3>1, <3>2 DEF Load, Settled
  <2>2. CASE Provide
    <3>1. settings' = settings /\ proc' # "wiring" /\ (serve' = serve \/ Builds(settings))
      BY <2>2 DEF Provide, Return, config
    <3> QED BY <1>8, <2>2, <3>1 DEF Provide, Settled
  <2>3. CASE WakeBySignal \/ WakeByServer \/ Shutdown \/ ShutdownReturns
             \/ ShutdownExpires \/ Close \/ Exit
    <3>1. settings' = settings /\ serve' = serve /\ proc' # "wiring"
      BY <2>3 DEF WakeBySignal, WakeByServer, Shutdown, ShutdownReturns, ShutdownExpires,
                  Close, Exit, Return, config
    <3> QED BY <1>8, <3>1 DEF Settled
  <2> QED BY <2>1, <2>2, <2>3 DEF MainStep
<1> QED BY <1>3, <1>4, <1>5, <1>6, <1>7, <1>9

\* The goroutine that serves, and the signal.
LEMMA ServeInductive == Inv /\ (ServeStep \/ Signal) => Inv'
<1> SUFFICES ASSUME Inv, ServeStep \/ Signal PROVE Inv'
  OBVIOUS
<1> USE DEF Inv, server
<1>1. UNCHANGED <<host, settings, requests, shutdown, grace, janitor, cleanups>>
  BY DEF ServeStep, Listen, ServeReturns, SendServeErr, Signal, main, config
<1>2. Running' = Running
  BY <1>1 DEF Running, requests
<1>3. UNCHANGED <<proc, code>> \/ (proc \in {"loading", "exiting"} /\ proc' = "exited" /\ code' = "killed")
  BY DEF ServeStep, Listen, ServeReturns, SendServeErr, Signal, main, Return
<1>4. TypeOK'
  <2>1. /\ serve' \in {"none", "starting", "serving", "failed", "closed", "done"}
        /\ serveErr' \in {"empty", "failed", "closed"}
        /\ signalled' \in BOOLEAN /\ connected' \in BOOLEAN
    BY DEF TypeOK, ServeStep, Listen, ServeReturns, SendServeErr, Signal, main
  <2>2. proc' \in Stages /\ code' \in Codes
    BY <1>3 DEF TypeOK, Stages, Codes
  <2> QED BY <1>1, <2>1, <2>2 DEF TypeOK, requests
<1>5. Staged'
  BY <1>1, <1>3 DEF Staged, Late, ServeStep, Listen, ServeReturns, SendServeErr, Signal, main
<1>6. Aged'
  BY <1>1, <1>2, <1>3 DEF Aged, Staged, Late, requests
<1>7. Drains'
  BY <1>1, <1>2, <1>3 DEF Drains, Late
<1>8. Waits'
  BY <1>1, <1>2 DEF Waits, requests
<1>9. Settled'
  <2>1. serve # "none" \/ serve' = serve
    BY DEF ServeStep, Listen, ServeReturns, SendServeErr, Signal, main
  <2> QED BY <1>1, <1>3, <2>1 DEF Settled
<1> QED BY <1>4, <1>5, <1>6, <1>7, <1>8, <1>9

\* Requests: a server in Shutdown accepts none, so there are only fewer.
LEMMA RequestsInductive ==
  ASSUME Inv, NEW r \in Requests, Handle(r) \/ \E k \in Kinds : Accept(r, k)
  PROVE  Inv'
<1> USE DEF Inv
<1>1. UNCHANGED <<main, connected, serve, serveErr>>
  BY DEF Handle, CallEnds, Answer, Accept, server
<1>2. Staged' /\ Settled' /\ UNCHANGED <<host, settings>>
  BY <1>1 DEF Staged, Settled, main, config
<1>3. CASE CallEnds(r)
  <2>1. Running' = Running /\ UNCHANGED <<kind, age>>
    BY <1>3 DEF CallEnds, Running
  <2>2. left' \in [Requests -> Nat] /\ wait' \in [Requests -> 0..Longest]
    <3>1. left[r] - 1 \in Nat /\ 0 \in 0..Longest
      BY <1>3, Counters, Durations DEF CallEnds
    <3>2. PICK n \in 0..(left[r] - 1) : left' = [left EXCEPT ![r] = n]
      BY <1>3 DEF CallEnds
    <3>3. n \in Nat
      BY <3>1
    <3> QED BY <1>3, <3>1, <3>2, <3>3 DEF CallEnds, TypeOK
  <2>3. TypeOK'
    BY <1>1, <1>2, <2>1, <2>2 DEF TypeOK, main
  <2>4. Aged' /\ Drains'
    BY <1>1, <2>1 DEF Aged, Drains, main
  <2>5. Waits'
    <3> SUFFICES ASSUME NEW q \in Running, kind[q] = "profile"
                 PROVE  /\ left'[q] \in {0, 1}
                        /\ left'[q] = 1 => age[q] = wait'[q]
                        /\ age[q] <= Longest
      BY <2>1 DEF Waits
    <3>1. /\ left[q] \in {0, 1} /\ age[q] <= Longest
          /\ left[q] = 1 => age[q] = wait[q]
      BY DEF Waits
    <3>2. CASE q = r
      <4>1. left[r] = 1
        BY <1>3, <3>1, <3>2 DEF CallEnds
      <4>2. left'[r] = 0
        <5>1. PICK n \in 0..(left[r] - 1) : left' = [left EXCEPT ![r] = n]
          BY <1>3 DEF CallEnds
        <5>2. n = 0
          BY <4>1, <5>1
        <5> QED BY <5>1, <5>2 DEF TypeOK
      <4> QED BY <3>1, <3>2, <4>2
    <3>3. CASE q # r
      <4>1. left'[q] = left[q] /\ wait'[q] = wait[q]
        BY <1>3, <3>3, Counters DEF CallEnds, TypeOK
      <4> QED BY <3>1, <4>1
    <3> QED BY <3>2, <3>3
  <2> QED BY <1>2, <2>3, <2>4, <2>5
<1>4. CASE Answer(r)
  <2>1. Running' \subseteq Running /\ UNCHANGED <<left, wait, age>>
    BY <1>4 DEF Answer, Running, TypeOK
  <2>2. \A q \in Running' : kind'[q] = kind[q]
    BY <1>4 DEF Answer, Running, TypeOK
  <2>3. TypeOK'
    BY <1>1, <1>2, <1>4 DEF Answer, TypeOK, main
  <2>4. Aged' /\ Drains'
    BY <1>1, <2>1 DEF Aged, Drains, main
  <2>5. Waits'
    BY <2>1, <2>2 DEF Waits
  <2> QED BY <1>2, <2>3, <2>4, <2>5
<1>5. ASSUME NEW k \in Kinds, Accept(r, k)
      PROVE  Inv'
  <2>1. ~shutdown /\ code # "ok"
    BY <1>5 DEF Accept, Drains
  <2>2. TypeOK'
    <3>1. Calls(k) \in Nat /\ 0 \in 0..Longest /\ 0 \in 0..WriteTimeout
      BY Durations DEF Calls
    <3>2. /\ kind' \in [Requests -> Kinds \cup {"none"}] /\ left' \in [Requests -> Nat]
          /\ wait' \in [Requests -> 0..Longest] /\ age' \in [Requests -> 0..WriteTimeout]
      BY <1>5, <3>1 DEF Accept, TypeOK
    <3> QED BY <1>1, <1>2, <3>2 DEF TypeOK, main
  <2>3. Aged' /\ Drains'
    BY <1>1, <2>1 DEF Aged, Drains, main
  <2>4. \A q \in Requests : q # r =>
          kind'[q] = kind[q] /\ left'[q] = left[q] /\ wait'[q] = wait[q] /\ age'[q] = age[q]
    BY <1>5 DEF Accept, TypeOK
  <2>5. kind'[r] = k /\ left'[r] = Calls(k) /\ wait'[r] = 0 /\ age'[r] = 0
    BY <1>5 DEF Accept, TypeOK
  <2>6. Waits'
    BY <2>4, <2>5, Durations DEF Waits, Running, Calls
  <2> QED BY <1>2, <2>2, <2>3, <2>6
<1> QED BY <1>3, <1>4, <1>5 DEF Handle

\* Time: while Shutdown waits, every request ages with it.
LEMMA TickInductive == Inv /\ Tick => Inv'
<1> SUFFICES ASSUME Inv, Tick PROVE Inv'
  OBVIOUS
<1> USE DEF Inv
<1>1. /\ UNCHANGED <<proc, code, signalled, shutdown, janitor, cleanups, kind, left>>
      /\ UNCHANGED <<host, settings, connected, serve, serveErr>>
      /\ Running' = Running
  BY DEF Tick, Running, config, server
<1>2. /\ grace' \in 0..ShutdownTimeout
      /\ proc # "draining" => grace' = grace
      /\ proc = "draining" => grace' = grace + 1
  BY Counters, Durations DEF Tick, Waiting
<1>3. \A r \in Running : /\ left[r] > 0 /\ wait[r] < CallTimeout(kind[r])
                         /\ wait'[r] = wait[r] + 1 /\ age'[r] = Older(age[r])
  BY DEF Tick, Waiting, Running, TypeOK
<1>4. \A r \in Running : CallTimeout(kind[r]) <= Longest
  BY Durations DEF CallTimeout
<1>5. \A r \in Requests : wait'[r] \in 0..Longest
  <2> TAKE r \in Requests
  <2>1. CASE r \in Running
    <3>1. CallTimeout(kind[r]) \in Nat
      BY Durations DEF CallTimeout
    <3> QED BY <1>3, <1>4, <2>1, <3>1, Counters, Durations
  <2>2. CASE r \notin Running
    BY <2>2, Counters, Durations DEF Tick
  <2> QED BY <2>1, <2>2
<1>6. \A r \in Requests : age'[r] \in 0..WriteTimeout
  BY Counters, Durations DEF Tick, Older
<1>7. TypeOK'
  <2>1. wait' \in [Requests -> 0..Longest] /\ age' \in [Requests -> 0..WriteTimeout]
    BY <1>5, <1>6 DEF Tick
  <2> QED BY <1>1, <1>2, <2>1 DEF TypeOK
<1>8. proc \notin Late
  BY DEF Tick, Waiting, Late
<1>9. Staged'
  BY <1>1, <1>2, <1>8 DEF Staged, Late
<1>10. Aged'
  <2> SUFFICES ASSUME shutdown, NEW r \in Running
               PROVE  age'[r] >= grace' \/ age'[r] >= WriteTimeout
    BY <1>1, <1>8 DEF Aged
  <2>1. age[r] >= grace \/ age[r] >= WriteTimeout
    BY DEF Aged
  <2>2. grace' <= grace + 1 /\ grace' \in Nat
    BY <1>2, Counters
  <2>3. age'[r] = Older(age[r])
    BY <1>3
  <2> QED BY <2>1, <2>2, <2>3, Counters, Durations DEF Older
<1>11. Drains'
  BY <1>1, <1>8 DEF Drains
<1>12. Waits'
  <2> SUFFICES ASSUME NEW r \in Running, kind[r] = "profile"
               PROVE  /\ left[r] \in {0, 1}
                      /\ left[r] = 1 => age'[r] = wait'[r]
                      /\ age'[r] <= Longest
    BY <1>1 DEF Waits
  <2>1. left[r] = 1 /\ age[r] = wait[r] /\ wait[r] < Longest
    BY <1>3, Counters DEF Waits, CallTimeout
  <2> QED BY <1>3, <2>1, Counters, Durations DEF Older
<1>13. Settled'
  BY <1>1 DEF Settled
<1> QED BY <1>7, <1>9, <1>10, <1>11, <1>12, <1>13

\* The inductive invariant holds in every reachable state.
THEOREM Invariance == Spec => []Inv
<1>1. Inv /\ UNCHANGED vars => Inv'
  <2> SUFFICES ASSUME Inv, UNCHANGED vars PROVE Inv'
    OBVIOUS
  <2>1. Running' = Running
    BY DEF vars, requests, Running
  <2>2. TypeOK'
    BY DEF Inv, vars, main, config, requests, server, TypeOK
  <2>3. Staged'
    BY DEF Inv, vars, main, server, Staged
  <2>5. Settled'
    BY DEF Inv, vars, main, config, server, Settled
  <2>4. Aged' /\ Drains' /\ Waits'
    BY <2>1 DEF Inv, vars, main, requests, Aged, Drains, Waits
  <2> QED BY <2>2, <2>3, <2>4, <2>5 DEF Inv
<1>2. Inv /\ [Next]_vars => Inv'
  BY <1>1, MainInductive, ServeInductive, RequestsInductive, TickInductive DEF Next
<1> QED BY InvInit, <1>2, PTL DEF Spec

\* Type correctness.
THEOREM TypeCorrect == Spec => []TypeOK
BY Invariance, PTL DEF Inv

\* A process that ends after a signal cuts off no request whose answer could
\* still have been written: the grace of Shutdown covers the write deadline.
THEOREM NothingGoodLost == Spec => []NoGoodAnswerLost
<1>1. Inv => NoGoodAnswerLost
  BY DEF Inv, Aged, Late, NoGoodAnswerLost
<1> QED BY Invariance, <1>1, PTL

\* A process that exits with status 0 has answered every request and run its
\* cleanups.
THEOREM ExitIsClean == Spec => []CleanExit
<1>1. Inv => CleanExit
  BY DEF Inv, Drains, CleanExit
<1> QED BY Invariance, <1>1, PTL

\* A /profile request never reaches its write deadline.
THEOREM ProfileNeverLate == Spec => []ProfileInTime
<1>1. Inv => ProfileInTime
  <2> SUFFICES ASSUME Inv, NEW r \in Running, kind[r] = "profile"
               PROVE  age[r] < WriteTimeout
    BY DEF ProfileInTime
  <2>1. age[r] \in Nat /\ age[r] <= Longest
    BY Counters DEF Inv, Waits
  <2> QED BY <2>1, Durations
<1> QED BY Invariance, <1>1, PTL

\* Where each setting in force comes from.
LEMMA SettingsByLayer ==
  ASSUME Inv, settings # NoSettings, NEW k \in Keys
  PROVE  /\ \A v \in Named(k) : settings[k] = host.env[v]
         /\ Named(k) = {} => \A i \in InFile(k) : settings[k] = host.files[i][k]
         /\ Named(k) = {} /\ InFile(k) = {} =>
              settings[k] = IF k \in DOMAIN Defaults THEN Defaults[k] ELSE ""
<1>1. IsHost(host) /\ settings = LoadConfig(host)
  BY HostsOK DEF Inv, TypeOK, Settled
<1>2. InFile(k) = {i \in Read(host.files) : k \in DOMAIN host.files[i]}
  BY DEF InFile, Read
<1> QED BY <1>1, <1>2, LayerByLayer DEF Named

\* The settings in force, but for the secrets, are those of the environment,
\* else of the one file that is read, else the defaults, whatever the host
\* has of each.
THEOREM LayersInOrder == Spec => []Precedence
<1>1. Inv => Precedence
  <2> SUFFICES ASSUME Inv, settings # NoSettings, NEW k \in Keys \ Secrets
               PROVE  /\ \A v \in Named(k) : settings[k] = host.env[v]
                      /\ Named(k) = {} => \A i \in InFile(k) : settings[k] = host.files[i][k]
                      /\ Named(k) = {} /\ InFile(k) = {} =>
                           settings[k] = IF k \in DOMAIN Defaults THEN Defaults[k] ELSE ""
    BY DEF Precedence
  <2> QED BY SettingsByLayer
<1> QED BY Invariance, <1>1, PTL

\* A secret in force was given, in the environment or in the file that is read.
THEOREM SecretsAreGiven == Spec => []SecretsGiven
<1>1. Inv => SecretsGiven
  <2> SUFFICES ASSUME Inv, settings # NoSettings, NEW k \in Secrets
               PROVE  /\ settings[k] # ""
                      /\ \/ \E v \in Named(k) : settings[k] = host.env[v]
                         \/ Named(k) = {} /\ \E i \in InFile(k) : settings[k] = host.files[i][k]
    BY DEF SecretsGiven
  <2>1. k \in Keys /\ k \notin DOMAIN Defaults
    BY DEF Secrets, Keys, Defaults
  <2>2. IsHost(host) /\ settings = LoadConfig(host)
    BY HostsOK DEF Inv, TypeOK, Settled
  <2>3. settings[k] # ""
    <3>1. Validate(settings)
      BY <2>2, LoadOK
    <3> QED BY <3>1 DEF Validate, Secrets
  <2>4. CASE Named(k) # {}
    BY <2>1, <2>3, <2>4, SettingsByLayer
  <2>5. CASE Named(k) = {} /\ InFile(k) # {}
    BY <2>1, <2>3, <2>5, SettingsByLayer
  <2>6. CASE Named(k) = {} /\ InFile(k) = {}
    BY <2>1, <2>3, <2>6, SettingsByLayer
  <2> QED BY <2>4, <2>5, <2>6
<1> QED BY Invariance, <1>1, PTL

\* A process that has opened its listener lacks nothing it will need.
THEOREM NeverHalfConfigured == Spec => []FailsFast
<1>1. Inv => FailsFast
  <2> SUFFICES ASSUME Inv, serve # "none" PROVE FailsFast
    BY DEF FailsFast
  <2>1. IsHost(host) /\ settings = LoadConfig(host) /\ settings # NoSettings /\ Builds(settings)
    BY HostsOK DEF Inv, TypeOK, Settled
  <2>2. FirstFile(host.files) # Broken /\ Validate(settings)
    BY <2>1, LoadOK
  <2>3. settings[WriteLimit] \notin BadDurations
    BY <2>1, DefaultsDecode DEF DurationKeys
  <2>6. settings[CookieSecure] \notin BadBools
    BY <2>1, DefaultsDecode
  <2>4. CacheBuilds(settings) /\ ClientBuilds(settings) /\ GithubBuilds(settings)
    BY <2>1 DEF Builds
  <2>5. \A k \in Keys \ {Driver, CookieSecure} : settings[k] # ""
    BY <2>2, <2>3, <2>4, DurationsOK DEF Keys, DurationKeys, Validate, ClientBuilds, GithubBuilds
  <2> QED BY <2>2, <2>3, <2>4, <2>5, <2>6 DEF FailsFast, CacheBuilds, ClientBuilds
<1> QED BY Invariance, <1>1, PTL

-----------------------------------------------------------------------------
(* Refinement                                                              *)

\* The server is up only while main waits for it or shuts it down, has
\* requests only once it has listened, and reports its end when it is done.
Attended ==
  /\ serve \in {"starting", "serving"} => shutdown \/ proc \in {"up", "stopping"}
  /\ serve = "serving" => connected
  /\ connected => serve \notin {"none", "starting"}
  /\ ~connected => Running = {}
  /\ serveErr # "empty" => serve = "done"

\* The main goroutine does not leave a server that is up.
LEMMA MainAttends == Inv /\ Attended /\ MainStep => Attended'
<1> SUFFICES ASSUME Inv, Attended, MainStep PROVE Attended'
  OBVIOUS
<1> USE DEF server
<1>1. Running' = Running /\ connected' = connected
  BY DEF MainStep, Load, Provide, WakeBySignal, WakeByServer, Shutdown, ShutdownReturns,
         ShutdownExpires, Close, Exit, requests, Running
<1>2. CASE Load \/ Provide
  <2>1. serve = "none" /\ UNCHANGED serveErr
    BY <1>2 DEF Load, Provide, Inv, Staged
  <2>2. serve' = "none" \/ (serve' = "starting" /\ proc' = "up")
    BY <1>2, <2>1 DEF Load, Provide
  <2> QED BY <1>1, <2>1, <2>2 DEF Attended
<1>3. CASE WakeBySignal \/ WakeByServer \/ Shutdown
  BY <1>1, <1>3 DEF Attended, WakeBySignal, WakeByServer, Shutdown
<1>4. CASE ShutdownReturns \/ ShutdownExpires \/ Close \/ Exit
  BY <1>1, <1>4 DEF Attended, ShutdownReturns, ShutdownExpires, Close, Exit
<1> QED BY <1>2, <1>3, <1>4 DEF MainStep

\* Neither do the goroutine that serves, a signal, the requests and time.
LEMMA AttendedInductive == Inv /\ Attended /\ [Next]_vars => Attended'
<1> SUFFICES ASSUME Inv, Attended, [Next]_vars PROVE Attended'
  OBVIOUS
<1> USE DEF server
<1>1. CASE ServeStep
  <2>1. UNCHANGED <<proc, shutdown, kind>> /\ UNCHANGED Running
    BY <1>1 DEF ServeStep, Listen, ServeReturns, SendServeErr, main, requests, Running
  <2>2. /\ serve' \in {"serving", "failed", "closed", "done"}
        /\ serve' = "serving" => serve = "starting" /\ connected'
        /\ connected => connected'
        /\ serveErr' # "empty" => serve' = "done"
    BY <1>1 DEF Attended, ServeStep, Listen, ServeReturns, SendServeErr
  <2> QED BY <2>1, <2>2 DEF Attended
<1>2. CASE Signal
  <2>1. UNCHANGED <<connected, serve, serveErr, shutdown>> /\ UNCHANGED Running
    BY <1>2 DEF Signal, requests, Running
  <2>2. proc' = proc \/ proc \in {"loading", "exiting"}
    BY <1>2 DEF Signal
  <2>3. proc = "loading" => serve = "none"
    BY DEF Inv, Staged
  <2> QED BY <2>1, <2>2, <2>3 DEF Attended
<1>3. ASSUME NEW r \in Requests, NEW k \in Kinds, Accept(r, k) PROVE Attended'
  BY <1>3 DEF Attended, Accept, main
<1>4. ASSUME NEW r \in Requests, Handle(r) PROVE Attended'
  <2>1. Running' \subseteq Running
    BY <1>4 DEF Handle, CallEnds, Answer, Running, Inv, TypeOK
  <2>2. UNCHANGED <<proc, shutdown, connected, serve, serveErr>>
    BY <1>4 DEF Handle, CallEnds, Answer, main
  <2> QED BY <2>1, <2>2 DEF Attended
<1>5. CASE Tick \/ UNCHANGED vars
  BY <1>5 DEF Attended, Tick, vars, main, requests, Running
<1> QED BY <1>1, <1>2, <1>3, <1>4, <1>5, MainAttends DEF Next

\* The steps of the main goroutine: Shutdown closes, Exit ends.
LEMMA MainSimulation ==
  ASSUME Inv, Attended, MainStep
  PROVE  [GS!Next]_(GS!vars)
<1> USE DEF Inv, server
<1>1. UNCHANGED connected /\ UNCHANGED Running
  BY DEF MainStep, Load, Provide, WakeBySignal, WakeByServer, Shutdown, ShutdownReturns,
         ShutdownExpires, Close, Exit, requests, Running
<1>2. CASE Load \/ Provide
  <2>1. /\ ~connected
        /\ proc # "exited" /\ proc' # "exited" /\ UNCHANGED shutdown
    BY <1>2 DEF Load, Provide, Return, Staged, Attended
  <2> QED BY <1>1, <2>1 DEF GS!vars, Phase, Outcome
<1>3. CASE WakeBySignal \/ WakeByServer \/ ShutdownReturns \/ ShutdownExpires \/ Close
  <2>1. /\ proc # "exited" /\ proc' # "exited" /\ UNCHANGED <<serve, shutdown>>
    BY <1>3 DEF WakeBySignal, WakeByServer, ShutdownReturns, ShutdownExpires, Close, Return
  <2> QED BY <1>1, <2>1 DEF GS!vars, Phase, Outcome
<1>4. CASE Shutdown
  <2>1. Phase' = "closed" /\ Phase # "ended" /\ UNCHANGED Outcome
    BY <1>4 DEF Shutdown, Phase, Outcome
  <2>2. CASE Phase = "closed"
    BY <1>1, <2>1, <2>2 DEF GS!vars
  <2>3. CASE Phase # "closed"
    <3>1. Phase \in {"down", "listening", "failing"}
      BY <2>1, <2>3 DEF Phase
    <3>2. GS!Close
      BY <1>1, <2>1, <3>1 DEF GS!Close
    <3> QED BY <3>2 DEF GS!Next
  <2> QED BY <2>2, <2>3
<1>5. CASE Exit
  <2>1. proc = "exiting" /\ proc' = "exited" /\ UNCHANGED code
    BY <1>5 DEF Exit
  <2>2. Phase \in {"down", "failing", "closed"} /\ Phase' = "ended"
    BY <2>1 DEF Attended, Phase
  <2>3. code = "ok" => Phase = "closed" /\ Running = {}
    BY <2>1 DEF Drains, Phase
  <2>4. PICK how \in {"ok", "failed"} : how = Outcome' /\ (how = "ok" <=> code = "ok")
    BY <2>1 DEF Outcome
  <2>5. GS!End(how)
    BY <1>1, <2>2, <2>3, <2>4 DEF GS!End
  <2> QED BY <2>5 DEF GS!Next
<1> QED BY <1>2, <1>3, <1>4, <1>5 DEF MainStep

\* The server's goroutine, and a signal that kills.
LEMMA ServeSimulation ==
  ASSUME Inv, Attended, ServeStep \/ Signal
  PROVE  [GS!Next]_(GS!vars)
<1> USE DEF Inv, server
<1>1. UNCHANGED shutdown /\ UNCHANGED Running
  BY DEF ServeStep, Listen, ServeReturns, SendServeErr, Signal, main, requests, Running
<1>2. CASE ServeStep
  <2>1. proc # "exited" /\ proc' = proc /\ UNCHANGED Outcome
    BY <1>2 DEF ServeStep, Listen, ServeReturns, SendServeErr, main, Outcome
  <2>2. CASE UNCHANGED Phase
    BY <1>1, <2>1, <2>2 DEF GS!vars
  <2>3. CASE Phase' # Phase
    <3>1. \/ Phase = "down" /\ Phase' = "listening"
          \/ Phase = "listening" /\ Phase' = "failing"
      BY <1>1, <1>2, <2>1, <2>3 DEF Attended, ServeStep, Listen, ServeReturns, SendServeErr, Phase
    <3>2. GS!Listen \/ GS!Fail
      BY <1>1, <2>1, <3>1 DEF GS!Listen, GS!Fail
    <3> QED BY <3>2 DEF GS!Next
  <2> QED BY <2>2, <2>3
<1>3. CASE Signal
  <2>1. CASE UNCHANGED <<proc, code>>
    BY <1>1, <1>3, <2>1 DEF Signal, GS!vars, Phase, Outcome
  <2>2. CASE proc \in {"loading", "exiting"} /\ proc' = "exited" /\ code' = "killed"
    <3>1. Phase \in {"down", "failing", "closed"} /\ Phase' = "ended" /\ Outcome' = "failed"
      BY <2>2 DEF Attended, Staged, Phase, Outcome
    <3>2. GS!End("failed")
      BY <1>1, <3>1 DEF GS!End
    <3> QED BY <3>2 DEF GS!Next
  <2> QED BY <1>3, <2>1, <2>2 DEF Signal, Return
<1> QED BY <1>2, <1>3

\* Requests come in until the server shuts down, and are answered until the
\* process ends.
LEMMA RequestSimulation ==
  ASSUME Inv, Attended, NEW r \in Requests, Handle(r) \/ \E k \in Kinds : Accept(r, k)
  PROVE  [GS!Next]_(GS!vars)
<1> USE DEF Inv, server
<1>1. UNCHANGED <<Phase, Outcome>>
  BY DEF Handle, CallEnds, Answer, Accept, main, Phase, Outcome
<1>2. CASE CallEnds(r)
  BY <1>1, <1>2 DEF CallEnds, Running, GS!vars
<1>3. CASE Answer(r)
  <2>1. Running' = Running \ {r}
    BY <1>3 DEF Answer, Running, TypeOK
  <2>2. Phase \in {"listening", "failing", "closed"}
    BY <1>3 DEF Answer, Attended, Phase, TypeOK
  <2>3. GS!Answer(r)
    BY <1>1, <2>1, <2>2 DEF GS!Answer
  <2> QED BY <2>3 DEF GS!Next
<1>4. ASSUME NEW k \in Kinds, Accept(r, k) PROVE [GS!Next]_(GS!vars)
  <2>1. Running' = Running \cup {r}
    <3>1. k # "none" /\ kind' = [kind EXCEPT ![r] = k]
      BY <1>4 DEF Accept, Kinds
    <3>2. kind'[r] = k /\ \A q \in Requests : q # r => kind'[q] = kind[q]
      BY <3>1 DEF TypeOK
    <3> QED BY <3>1, <3>2 DEF Running
  <2>2. Phase \in {"listening", "failing"}
    BY <1>4 DEF Accept, Phase
  <2>3. GS!Accept(r)
    BY <1>1, <2>1, <2>2 DEF GS!Accept
  <2> QED BY <2>3 DEF GS!Next
<1> QED BY <1>2, <1>3, <1>4 DEF Handle

\* Refinement: however signal, listener, deadlines and two goroutines meet,
\* the process does not end while it listens, accepts nothing once it has
\* stopped, and ends well only with nothing cut off.
THEOREM Implementation == Spec => GracefulServerSpec
<1>1. Init => GS!Init
  BY DEF Init, GS!Init, Phase, Outcome, Running
<1>2. Init => Attended
  BY DEF Init, Attended, Running
<1>3. Inv /\ Attended /\ (Tick \/ UNCHANGED vars) => UNCHANGED GS!vars
  BY DEF Tick, vars, main, requests, server, GS!vars, Phase, Outcome, Running
<1>4. Inv /\ Attended /\ [Next]_vars => [GS!Next]_(GS!vars)
  BY <1>3, MainSimulation, ServeSimulation, RequestSimulation DEF Next
<1>5. Inv /\ Attended /\ [Next]_vars => Attended'
  BY AttendedInductive
<1> QED BY Invariance, <1>1, <1>2, <1>4, <1>5, PTL DEF Spec, GS!Spec, GracefulServerSpec
=============================================================================
