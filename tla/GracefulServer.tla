--------------------------- MODULE GracefulServer ---------------------------
(***************************************************************************)
(* What the process promises to its clients and to who has started it,     *)
(* without files, signals, goroutines or time.  It listens at most once;   *)
(* it never ends while it listens; once it shuts down it accepts nothing   *)
(* more and goes on with what it has accepted; and it ends well only after *)
(* it has shut down and answered everything.  If its listener fails, the   *)
(* clients that are connected are served until it ends, which is not well  *)
(* unless it shuts down before.                                            *)
(*                                                                         *)
(* cmd/server/main.go: "starts the HTTP server -> waits for SIGINT/SIGTERM *)
(* and shuts down cleanly".                                                *)
(***************************************************************************)
CONSTANT Requests

VARIABLES phase,       \* "down", "listening", "failing", "closed" or "ended"
          open,        \* the requests that are accepted and not answered
          outcome      \* how it has ended

vars == <<phase, open, outcome>>

TypeOK ==
  /\ phase \in {"down", "listening", "failing", "closed", "ended"}
  /\ open \subseteq Requests
  /\ outcome \in {"none", "ok", "failed"}

Init == phase = "down" /\ open = {} /\ outcome = "none"

Listen ==
  /\ phase = "down" /\ phase' = "listening"
  /\ UNCHANGED <<open, outcome>>

Accept(r) ==
  /\ phase \in {"listening", "failing"}
  /\ open' = open \cup {r}
  /\ UNCHANGED <<phase, outcome>>

Answer(r) ==
  /\ phase \in {"listening", "failing", "closed"}
  /\ open' = open \ {r}
  /\ UNCHANGED <<phase, outcome>>

\* Its listener fails.
Fail ==
  /\ phase = "listening" /\ phase' = "failing"
  /\ UNCHANGED <<open, outcome>>

\* It shuts down, perhaps before it has listened.
Close ==
  /\ phase \in {"down", "listening", "failing"} /\ phase' = "closed"
  /\ UNCHANGED <<open, outcome>>

\* What is still open then is cut off.
End(how) ==
  /\ phase \in {"down", "failing", "closed"} /\ phase' = "ended"
  /\ how = "ok" => phase = "closed" /\ open = {}
  /\ outcome' = how
  /\ UNCHANGED open

Next ==
  \/ Listen \/ Fail \/ Close
  \/ \E r \in Requests : Accept(r) \/ Answer(r)
  \/ \E how \in {"ok", "failed"} : End(how)

Spec == Init /\ [][Next]_vars
=============================================================================
