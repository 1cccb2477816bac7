------------------------------ MODULE SystemStatus ------------------------------
(***************************************************************************)
(* The health endpoints of the API: /status/system, /health/ready and      *)
(* /health/worker.  A request runs a set of checks, each a task of the     *)
(* event loop, and answers when all of them have ended (asyncio.gather) or *)
(* when one of them raises; the others go on then without the request.     *)
(*                                                                         *)
(* Two checks leave the process.  The worker is asked by a ping through    *)
(* Celery, sent and awaited by a thread, behind two timeouts: five seconds *)
(* in result.get(), eight in wait_for(), which abandons the thread.  The   *)
(* GPU is asked by running nvidia-smi, which may hang.                     *)
(*                                                                         *)
(* Left out: /health/ready asks PostgreSQL before Redis, which cannot be   *)
(* told from asking both; timeouts fire at any moment; and a second copy   *)
(* of a ping, left by a retried publish, whose result is one of those the  *)
(* first may have.                                                         *)
(***************************************************************************)
EXTENDS Integers, FiniteSets

CONSTANTS
  Requests,     \* concurrent requests; each may be followed by another one
  Remote,       \* the checks of one call: postgres, redis, storage, openai
  Asks,         \* the checks of a request's endpoint
  MaxPings,     \* BOUND: pings sent
  Slots,        \* threads run_in_threadpool allows at a time
  None,
  MaxRestarts   \* BOUND: deaths of the API process

\* "engine" stands for the checks that await nothing: the API itself and the
\* three render engines.
Checks == Remote \union {"worker", "gpu", "engine"}

\* The task ids of the pings, in the order in which they are taken.
Pings == 1..MaxPings

ASSUME SystemAssumption ==
  /\ Remote \intersect {"worker", "gpu", "engine"} = {}
  /\ Asks \in [Requests -> SUBSET Checks]
  /\ None \notin Pings
  /\ MaxPings \in Nat /\ Slots \in Nat /\ MaxRestarts \in Nat

VARIABLES
  task,      \* how far each check of a request is, or what it reported
  reply,     \* "none", "pending", or "failed": gather() raised
  uses,      \* the ping of a request's check of the worker
  broken,    \* requests whose ping met a Redis that failed
  thread,    \* the thread of a ping: "none", "publishing", "getting", "ended"
  queue,     \* pings in the queue of Celery
  results,   \* what a worker stored for a ping: "none", "pong" or "failure"
  nvidia,    \* the nvidia-smi of a request: "none", "running" or "killed"
  restarts

redis == <<queue, results>>
vars == <<task, reply, uses, broken, thread, queue, results, nvidia, restarts>>

Exceptions == {"TimeoutError", "CeleryTimeoutError", "ConnectionError", "Other"}

\* What the answer says of the worker; "reported" stands for any status of
\* another check, no property tells them apart.
Verdicts == {"connected", "timeout", "error", "reported"}
Over == Verdicts \union {"none", "raised"}

\* What a thread that ends leaves for the check that awaits it.
Outcomes == {"pong"} \union Exceptions

Unasked == [c \in Checks |-> "none"]

Init ==
  /\ task = [r \in Requests |-> Unasked]
  /\ reply = [r \in Requests |-> "none"]
  /\ uses = [r \in Requests |-> None]
  /\ broken = {}
  /\ thread = [p \in Pings |-> "none"]
  /\ queue = {}
  /\ results = [p \in Pings |-> "none"]
  /\ nvidia = [r \in Requests |-> "none"]
  /\ restarts = 0

Goes(r, c, step) ==
  /\ task' = [task EXCEPT ![r][c] = step]
  /\ UNCHANGED <<reply, restarts>>

-----------------------------------------------------------------------------
(* The request *)

\* What a check awaits first.  check_gpu() looks for nvidia-smi and
\* check_render_engine() at its path at once; only the latter can raise:
\* Path.exists() lets through that the path may not be read.
FirstSteps(c) ==
  CASE c = "worker" -> {"slot"}
    [] c = "gpu" -> {"starting", "reported"}
    [] c = "engine" -> {"reported", "raised"}
    [] OTHER -> {"asking"}

Begin(r) == \E first \in [Asks[r] -> UNION {FirstSteps(c) : c \in Checks}] :
  /\ \A c \in Checks : task[r][c] \in Over
  /\ reply[r] # "pending"
  /\ \A c \in Asks[r] : first[c] \in FirstSteps(c)
  /\ task' = [task EXCEPT ![r] =
                [c \in Checks |-> IF c \in Asks[r] THEN first[c] ELSE "none"]]
  /\ reply' = [reply EXCEPT ![r] = "pending"]
  /\ uses' = [uses EXCEPT ![r] = None]
  /\ broken' = broken \ {r}
  /\ UNCHANGED <<thread, nvidia, restarts>>
  /\ UNCHANGED redis

\* The answer has the status of every check.
Answer(r) ==
  /\ reply[r] = "pending"
  /\ \A c \in Asks[r] : task[r][c] \in Verdicts
  /\ reply' = [reply EXCEPT ![r] = "none"]
  /\ task' = [task EXCEPT ![r] = Unasked]
  /\ uses' = [uses EXCEPT ![r] = None]
  /\ broken' = broken \ {r}
  /\ UNCHANGED <<thread, nvidia, restarts>>
  /\ UNCHANGED redis

\* gather() passes the first exception on and leaves the other tasks running.
GatherRaises(r) ==
  /\ reply[r] = "pending"
  /\ \E c \in Asks[r] : task[r][c] = "raised"
  /\ reply' = [reply EXCEPT ![r] = "failed"]
  /\ UNCHANGED <<task, uses, broken, thread, nvidia, restarts>>
  /\ UNCHANGED redis

\* The checks of which not all is inside their try.
Unguarded == {"engine", "redis", "storage"}

\* check_postgres(), check_openai(), check_redis() and get_status() report
\* what they are told and what fails, but for the closing of the client in check_redis(), and
\* for a service account that get_status() fails to load by an exception it
\* does not expect.
RemoteEnds(r, c) ==
  /\ c \in Remote
  /\ task[r][c] = "asking"
  /\ \/ Goes(r, c, "reported")
     \/ c \in Unguarded /\ Goes(r, c, "raised")
  /\ UNCHANGED <<uses, broken, thread, nvidia>>
  /\ UNCHANGED redis

-----------------------------------------------------------------------------
(* check_worker() *)

\* Mutant: only the timeout of Python itself is known.
BuiltinTimeoutOnly(exception) ==
  CASE exception = "TimeoutError" -> "timeout"
    [] exception = "ConnectionError" -> "connection_error"
    [] OTHER -> "internal_error"

\* sanitize_error(), for the exceptions that reach this check.
SanitizeError(exception) ==
  CASE exception \in {"TimeoutError", "CeleryTimeoutError"} -> "timeout"
    [] exception = "ConnectionError" -> "connection_error"
    [] OTHER -> "internal_error"

WorkerVerdict(outcome) ==
  IF outcome = "pong" THEN "connected"
  ELSE IF SanitizeError(outcome) = "timeout" THEN "timeout" ELSE "error"

Awaiting == {r \in Requests : task[r]["worker"] \in {"thread"} \union Outcomes}

StartThread(r) == \E p \in Pings :
  /\ task[r]["worker"] = "slot"
  /\ Cardinality(Awaiting) < Slots
  /\ thread[p] = "none" /\ \A q \in 1..(p - 1) : thread[q] # "none"
  /\ Goes(r, "worker", "thread")
  /\ uses' = [uses EXCEPT ![r] = p]
  /\ thread' = [thread EXCEPT ![p] = "publishing"]
  /\ UNCHANGED <<broken, nvidia>>
  /\ UNCHANGED redis

\* wait_for(..., timeout=8): the slot is given back, the thread runs on.
WorkerCheckExpires(r) ==
  /\ task[r]["worker"] \in {"slot", "thread"}
  /\ Goes(r, "worker", WorkerVerdict("TimeoutError"))
  /\ UNCHANGED <<uses, broken, thread, nvidia>>
  /\ UNCHANGED redis

WorkerCheckEnds(r) ==
  /\ task[r]["worker"] \in Outcomes
  /\ Goes(r, "worker", WorkerVerdict(task[r]["worker"]))
  /\ UNCHANGED <<uses, broken, thread, nvidia>>
  /\ UNCHANGED redis

\* The outcome of a thread goes to the check that still awaits it.
ThreadEnds(p, outcome) ==
  /\ thread' = [thread EXCEPT ![p] = "ended"]
  /\ task' = [r \in Requests |->
                IF uses[r] = p /\ task[r]["worker"] = "thread"
                THEN [task[r] EXCEPT !["worker"] = outcome] ELSE task[r]]
  /\ UNCHANGED <<reply, uses, nvidia, restarts>>

\* apply_async()
Publish(p) ==
  /\ thread[p] = "publishing"
  /\ thread' = [thread EXCEPT ![p] = "getting"]
  /\ queue' = queue \union {p}
  /\ UNCHANGED <<task, reply, uses, broken, results, nvidia, restarts>>

\* A call to Redis fails.  A message it sent may be there all the same.
RedisFails(p) == \E e \in {"TimeoutError", "ConnectionError", "Other"} :
  /\ thread[p] \in {"publishing", "getting"}
  /\ ThreadEnds(p, e)
  /\ broken' = broken \union {r \in Requests : uses[r] = p}
  /\ \/ UNCHANGED queue
     \/ thread[p] = "publishing" /\ queue' = queue \union {p}
  /\ UNCHANGED results

\* Mutant: pings share one task id, so any result will do.
GetAnyResult(p) == \E q \in Pings :
  /\ thread[p] = "getting"
  /\ results[q] # "none"
  /\ ThreadEnds(p, IF results[q] = "pong" THEN "pong" ELSE "Other")
  /\ UNCHANGED broken
  /\ UNCHANGED redis

\* result.get() finds the result of its own task id: it returns the pong and
\* raises the exception of a FAILURE.
GetResult(p) ==
  /\ thread[p] = "getting"
  /\ results[p] # "none"
  /\ ThreadEnds(p, IF results[p] = "pong" THEN "pong" ELSE "Other")
  /\ UNCHANGED broken
  /\ UNCHANGED redis

\* Mutant: result.get() without a timeout.
GetForever(p) ==
  /\ FALSE
  /\ ThreadEnds(p, "CeleryTimeoutError")
  /\ UNCHANGED broken
  /\ UNCHANGED redis

\* result.get(timeout=5)
GetExpires(p) ==
  /\ thread[p] = "getting"
  /\ ThreadEnds(p, "CeleryTimeoutError")
  /\ UNCHANGED broken
  /\ UNCHANGED redis

\* A worker runs ping() and stores the pong, stores a FAILURE instead (its child
\* died, it does not know the task), or is lost with the ping.
RunPing(p) == \E stored \in {"none", "pong", "failure"} :
  /\ p \in queue
  /\ queue' = queue \ {p}
  /\ results' = [results EXCEPT ![p] = stored]
  /\ UNCHANGED <<task, reply, uses, broken, thread, nvidia, restarts>>

-----------------------------------------------------------------------------
(* check_gpu() *)

\* create_subprocess_exec(), or its OSError
GpuStarts(r) ==
  /\ task[r]["gpu"] = "starting"
  /\ \/ /\ Goes(r, "gpu", "reading")
        /\ nvidia' = [nvidia EXCEPT ![r] = "running"]
     \/ /\ Goes(r, "gpu", "reported")
        /\ UNCHANGED nvidia
  /\ UNCHANGED <<uses, broken, thread>>
  /\ UNCHANGED redis

\* nvidia-smi ends by itself, or is killed.
NvidiaEnds(r) ==
  /\ nvidia[r] # "none"
  /\ nvidia' = [nvidia EXCEPT ![r] = "none"]
  /\ UNCHANGED <<task, reply, uses, broken, thread, restarts>>
  /\ UNCHANGED redis

\* Its output is a line about a device, or anything else.
GpuReads(r) ==
  /\ task[r]["gpu"] = "reading"
  /\ nvidia[r] = "none"
  /\ Goes(r, "gpu", "reported")
  /\ UNCHANGED <<uses, broken, thread, nvidia>>
  /\ UNCHANGED redis

\* Mutant: the timeout is reported and the process forgotten.
GpuForgets(r) ==
  /\ task[r]["gpu"] = "reading"
  /\ Goes(r, "gpu", "reported")
  /\ UNCHANGED <<uses, broken, thread, nvidia>>
  /\ UNCHANGED redis

\* Mutant: the process is waited for without being killed.
GpuReapsOnly(r) ==
  /\ task[r]["gpu"] = "reading"
  /\ Goes(r, "gpu", "reaping")
  /\ UNCHANGED <<uses, broken, thread, nvidia>>
  /\ UNCHANGED redis

\* wait_for(proc.communicate(), timeout=5), then proc.kill(): a process that
\* is gone by now is no error.
GpuExpires(r) ==
  /\ task[r]["gpu"] = "reading"
  /\ Goes(r, "gpu", "reaping")
  /\ nvidia' = [nvidia EXCEPT ![r] = IF @ = "running" THEN "killed" ELSE @]
  /\ UNCHANGED <<uses, broken, thread>>
  /\ UNCHANGED redis

\* The second communicate() returns; the TimeoutError goes on and is reported.
GpuReaped(r) ==
  /\ task[r]["gpu"] = "reaping"
  /\ nvidia[r] = "none"
  /\ Goes(r, "gpu", "reported")
  /\ UNCHANGED <<uses, broken, thread, nvidia>>
  /\ UNCHANGED redis

-----------------------------------------------------------------------------
(* The API process dies.  What it sent stays in Redis; an nvidia-smi it       *)
(* started runs until it ends by itself, and is no longer the API's.          *)

Restart ==
  /\ restarts < MaxRestarts
  /\ restarts' = restarts + 1
  /\ task' = [r \in Requests |-> Unasked]
  /\ reply' = [r \in Requests |-> "none"]
  /\ uses' = [r \in Requests |-> None]
  /\ broken' = {}
  /\ thread' = [p \in Pings |-> IF thread[p] = "none" THEN "none" ELSE "ended"]
  /\ nvidia' = [r \in Requests |-> "none"]
  /\ UNCHANGED redis

-----------------------------------------------------------------------------
Get(p) == GetResult(p) \/ GetExpires(p)

\* What PostgreSQL is asked has a timeout for the connection only: the ping of
\* a pooled connection and SELECT 1 may wait for ever.
Bounded == Remote \ {"postgres"}

\* The steps of a request that nothing can hold up for ever.
Proceed(r) ==
  \/ Answer(r) \/ GatherRaises(r) \/ \E c \in Bounded : RemoteEnds(r, c)
  \/ WorkerCheckExpires(r) \/ WorkerCheckEnds(r)
  \/ GpuStarts(r) \/ GpuReads(r) \/ GpuExpires(r) \/ GpuReaped(r)
  \/ nvidia[r] = "killed" /\ NvidiaEnds(r)

Next ==
  \/ \E r \in Requests :
       \/ Begin(r) \/ StartThread(r) \/ Proceed(r) \/ NvidiaEnds(r)
       \/ "postgres" \in Remote /\ RemoteEnds(r, "postgres")
  \/ \E p \in Pings : Publish(p) \/ RedisFails(p) \/ Get(p) \/ RunPing(p)
  \/ Restart

Spec == Init /\ [][Next]_vars

\* The event loop goes on with what can go on, the calls to Redis, OpenAI and
\* Drive and the waits for a worker and for nvidia-smi have their timeouts, and
\* a process that was killed ends.  Not fair: PostgreSQL, workers, Redis, an
\* apply_async(), and an nvidia-smi nobody killed.
FairSpec ==
  /\ Spec
  /\ \A r \in Requests : WF_vars(Proceed(r))
  /\ \A p \in Pings : WF_vars(Get(p))
=============================================================================
