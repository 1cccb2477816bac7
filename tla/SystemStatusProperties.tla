------------------------- MODULE SystemStatusProperties -------------------------
(***************************************************************************)
(* What the health endpoints of SystemStatus promise.                      *)
(***************************************************************************)
EXTENDS SystemStatus

\* Every variable has its type.
TypeOK ==
  /\ task \in [Requests ->
       [Checks -> Over \union Outcomes \union
                  {"slot", "thread", "asking", "starting", "reading", "reaping"}]]
  /\ reply \in [Requests -> {"none", "pending", "failed"}]
  /\ uses \in [Requests -> Pings \union {None}]
  /\ thread \in [Pings -> {"none", "publishing", "getting", "ended"}]
  /\ queue \subseteq Pings
  /\ results \in [Pings -> {"none", "pong", "failure"}]
  /\ broken \subseteq Requests
  /\ nvidia \in [Requests -> {"none", "running", "killed"}]
  /\ restarts \in 0..MaxRestarts

\* The worker is reported connected only when it ran the ping of this very
\* request, and "error" only when Redis failed this request or the worker
\* stored a FAILURE for its ping: a worker that is silent is a timeout, by
\* whichever of the two clocks (health.py:50-77, errors.py:24-36,
\* test_health.py:91-115).
WorkerVerdictIsTrue == \A r \in Requests :
  /\ task[r]["worker"] = "connected" => results[uses[r]] = "pong"
  /\ task[r]["worker"] = "error" => r \in broken \/ results[uses[r]] = "failure"

\* No request leaves an nvidia-smi behind, whether its check ended by the
\* output, by the timeout or by an error, and even if gather() gave the request
\* up: a process has a check that waits for it (system_status.py:104-113 "cada
\* consulta ao Dashboard poderia deixar um nvidia-smi órfão").
NoOrphanProcess == \A r \in Requests :
  /\ nvidia[r] = "running" => task[r]["gpu"] = "reading"
  /\ nvidia[r] = "killed" => task[r]["gpu"] = "reaping"

\* Every request is answered, or PostgreSQL alone keeps it waiting, unless the
\* process dies: neither a worker that is silent, nor an nvidia-smi that hangs,
\* nor a publish that never returns holds it up (system_status.py:38,
\* health.py:60).
EveryStatusAnswered == \A r \in Requests :
  reply[r] = "pending" ~>
    (reply[r] # "pending" \/ \A c \in Asks[r] \ {"postgres"} : task[r][c] \in Over)

\* What a timeout or gather() abandons ends by itself: the thread that waits
\* for a pong is free again, the process is gone, and no check but that of
\* PostgreSQL runs on for ever without its request (health.py:55-60,
\* system_status.py:38, 104-112).
NothingLeftBehind ==
  /\ \A p \in Pings : []<>(thread[p] # "getting")
  /\ \A r \in Requests : []<>(nvidia[r] = "none")
  /\ \A r \in Requests, c \in Checks \ {"postgres"} : []<>(task[r][c] \in Over)

-----------------------------------------------------------------------------
(* The inductive invariant *)

\* A pong was stored by a worker; an exception that is no timeout comes from
\* Redis or was stored by a worker.
OutcomesOK == \A r \in Requests :
  LET step == task[r]["worker"] IN
  /\ step \in {"thread", "connected", "error"} \union Outcomes => uses[r] \in Pings
  /\ step = "pong" => results[uses[r]] = "pong"
  /\ step \in {"ConnectionError", "Other"} =>
       r \in broken \/ results[uses[r]] = "failure"

\* A ping has no result before it is sent, nor while it is queued.
PingsOK == \A p \in Pings :
  /\ thread[p] \in {"none", "publishing"} => p \notin queue /\ results[p] = "none"
  /\ p \in queue => results[p] = "none"

\* Each check is in one of its own steps, or is not asked at all.
StepsOK == \A r \in Requests :
  /\ \A c \in Checks \ Asks[r] : task[r][c] = "none"
  /\ task[r]["worker"] \notin {"asking", "starting", "reading", "reaping", "raised"}
  /\ task[r]["gpu"] \in {"none", "starting", "reading", "reaping", "reported"}
  /\ task[r]["engine"] \in {"none", "reported", "raised"}
  /\ \A c \in Remote : task[r][c] \in {"none", "asking", "reported", "raised"}

IInv ==
  /\ TypeOK
  /\ PingsOK
  /\ OutcomesOK
  /\ StepsOK
  /\ WorkerVerdictIsTrue
  /\ NoOrphanProcess
=============================================================================
