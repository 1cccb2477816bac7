----------------------------- MODULE DiagnosticJobs -----------------------------
(***************************************************************************)
(* The diagnostic job: POST and GET /jobs/diagnostic in the API, the Redis *)
(* that is broker, result backend and keeper of the markers, and the       *)
(* Celery workers.                                                         *)
(*                                                                         *)
(* A submission writes a marker, then publishes from a thread it waits for *)
(* at most 8 seconds: the thread itself goes on after the timeout.  Redis  *)
(* and Celery are external: a message is acknowledged when a worker takes  *)
(* it, a publish whose answer is lost is repeated, a worker reads what is  *)
(* stored of a job and then writes unless that is SUCCESS, and keys expire *)
(* after their time to live.                                               *)
(*                                                                         *)
(* Left out: a write of the result backend that timed out and is executed  *)
(* after a later one of the same worker.                                   *)
(***************************************************************************)
EXTENDS Integers, FiniteSets

CONSTANTS
  Jobs,        \* ids of uuid4(), one for each submission
  Workers,
  Pollers,     \* clients that GET the jobs
  None,
  MaxRepeats,  \* BOUND: publishes whose answer is lost
  MaxCrashes,  \* BOUND: deaths of the API and of workers
  MaxResets    \* BOUND: restarts of Redis that lose its data

ASSUME JobAssumption ==
  /\ None \notin Jobs
  /\ MaxRepeats \in Nat /\ MaxCrashes \in Nat /\ MaxResets \in Nat

VARIABLES
  pc,        \* a submission: where its handler is, or how it ended
  thread,    \* its publishing thread
  marker,    \* jobs that have their marker in Redis
  lateSet,   \* markers whose SET timed out and is still on its way
  expired,   \* jobs whose marker has lived its time
  copies,    \* messages of a job in the queue
  result,    \* what the result backend has of a job
  running,   \* the job a worker has taken, whether it came to report STARTED,
             \* and the state it is about to write
  doubled,   \* history: jobs that two workers had at once
  polling,   \* the job whose marker a GET has found, before it reads the result
  seen,      \* jobs a GET has answered SUCCESS for
  repeats, crashes, resets

submission == <<pc, thread>>
redis == <<marker, lateSet, expired, copies, result>>
clients == <<polling, seen>>
faults == <<repeats, crashes, resets>>
workers == <<running, doubled>>
vars == <<pc, thread, marker, lateSet, expired, copies, result, running, doubled,
          polling, seen, repeats, crashes, resets>>

Ended == {"accepted", "rejected", "aborted"}
Finished == {"SUCCESS", "FAILURE"}
Idle == [job |-> None, started |-> FALSE, writing |-> "nothing"]

Init ==
  /\ pc = [j \in Jobs |-> "new"]
  /\ thread = [j \in Jobs |-> "no"]
  /\ marker = {} /\ lateSet = {} /\ expired = {}
  /\ copies = [j \in Jobs |-> 0]
  /\ result = [j \in Jobs |-> "PENDING"]
  /\ running = [w \in Workers |-> Idle]
  /\ doubled = {}
  /\ polling = [c \in Pollers |-> None]
  /\ seen = {}
  /\ repeats = 0 /\ crashes = 0 /\ resets = 0

-----------------------------------------------------------------------------
(* POST /jobs/diagnostic *)

\* Mutant: the SET is sent but not awaited.
SetNotAwaited(j) ==
  /\ pc[j] = "new"
  /\ lateSet' = lateSet \union {j}
  /\ pc' = [pc EXCEPT ![j] = "publish"]
  /\ thread' = [thread EXCEPT ![j] = "running"]
  /\ UNCHANGED <<marker, expired, copies, result, running, doubled>>
  /\ UNCHANGED clients /\ UNCHANGED faults

SetMarker(j) ==
  /\ pc[j] = "new"
  /\ marker' = marker \union {j}
  /\ pc' = [pc EXCEPT ![j] = "publish"]
  /\ thread' = [thread EXCEPT ![j] = "running"]
  /\ UNCHANGED <<lateSet, expired, copies, result, running, doubled>>
  /\ UNCHANGED clients /\ UNCHANGED faults

\* The SET fails, or it times out and Redis executes it later.
SetFails(j) ==
  /\ pc[j] = "new"
  /\ pc' = [pc EXCEPT ![j] = "cleanup"]
  /\ \/ UNCHANGED lateSet
     \/ lateSet' = lateSet \union {j}
  /\ UNCHANGED <<thread, marker, expired, copies, result, running, doubled>>
  /\ UNCHANGED clients /\ UNCHANGED faults

SetLate(j) ==
  /\ j \in lateSet
  /\ lateSet' = lateSet \ {j}
  /\ marker' = marker \union {j}
  /\ UNCHANGED <<expired, copies, result, running, doubled>>
  /\ UNCHANGED submission /\ UNCHANGED clients /\ UNCHANGED faults

\* apply_async in the thread.  When the answer of Redis is lost, Celery
\* publishes the message again.
Publish(j) ==
  /\ thread[j] = "running"
  /\ copies' = [copies EXCEPT ![j] = @ + 1]
  /\ \/ /\ thread' = [thread EXCEPT ![j] = "published"]
        /\ UNCHANGED repeats
     \/ /\ repeats < MaxRepeats
        /\ repeats' = repeats + 1
        /\ UNCHANGED thread
  /\ UNCHANGED <<pc, marker, lateSet, expired, result, running, doubled, crashes, resets>>
  /\ UNCHANGED clients

PublishFails(j) ==
  /\ thread[j] = "running"
  /\ thread' = [thread EXCEPT ![j] = "failed"]
  /\ UNCHANGED <<pc, running, doubled>>
  /\ UNCHANGED redis /\ UNCHANGED clients /\ UNCHANGED faults

\* Mutant: a publish that takes too long is taken for granted.
AcceptedOnTimeout(j) ==
  /\ pc[j] = "publish"
  /\ thread[j] # "failed"
  /\ pc' = [pc EXCEPT ![j] = "accepted"]
  /\ UNCHANGED <<thread, running, doubled>>
  /\ UNCHANGED redis /\ UNCHANGED clients /\ UNCHANGED faults

Accept(j) ==
  /\ pc[j] = "publish"
  /\ thread[j] = "published"
  /\ pc' = [pc EXCEPT ![j] = "accepted"]
  /\ UNCHANGED <<thread, running, doubled>>
  /\ UNCHANGED redis /\ UNCHANGED clients /\ UNCHANGED faults

\* Mutant: the handler waits for the thread as long as it takes.
GiveUpOnError(j) ==
  /\ pc[j] = "publish"
  /\ thread[j] = "failed"
  /\ pc' = [pc EXCEPT ![j] = "cleanup"]
  /\ UNCHANGED <<thread, running, doubled>>
  /\ UNCHANGED redis /\ UNCHANGED clients /\ UNCHANGED faults

\* The thread raised, or asyncio.wait_for gives up while it runs on.
GiveUp(j) ==
  /\ pc[j] = "publish"
  /\ thread[j] \in {"failed", "running"}
  /\ pc' = [pc EXCEPT ![j] = "cleanup"]
  /\ UNCHANGED <<thread, running, doubled>>
  /\ UNCHANGED redis /\ UNCHANGED clients /\ UNCHANGED faults

\* Deleting the marker is best effort; then 503.
Cleanup(j) ==
  /\ pc[j] = "cleanup"
  /\ pc' = [pc EXCEPT ![j] = "rejected"]
  /\ marker' \in {marker, marker \ {j}}
  /\ UNCHANGED <<thread, lateSet, expired, copies, result, running, doubled>>
  /\ UNCHANGED clients /\ UNCHANGED faults

-----------------------------------------------------------------------------
(* The worker *)

Take(w) == \E j \in Jobs :
  /\ running[w] = Idle
  /\ copies[j] > 0
  /\ copies' = [copies EXCEPT ![j] = @ - 1]
  /\ running' = [running EXCEPT ![w] = [Idle EXCEPT !.job = j]]
  /\ doubled' = IF \E v \in Workers : running[v].job = j THEN doubled \union {j} ELSE doubled
  /\ UNCHANGED <<marker, lateSet, expired, result>>
  /\ UNCHANGED submission /\ UNCHANGED clients /\ UNCHANGED faults

\* task_track_started.  Before each write the worker reads what is stored, and
\* leaves a SUCCESS alone.
ReportStarted(w) ==
  /\ running[w].job # None
  /\ ~running[w].started
  /\ running' = [running EXCEPT
       ![w].started = TRUE,
       ![w].writing = IF result[running[w].job] = "SUCCESS" THEN "nothing" ELSE "STARTED"]
  /\ UNCHANGED doubled
  /\ UNCHANGED submission /\ UNCHANGED redis /\ UNCHANGED clients /\ UNCHANGED faults

Finish(w) == \E state \in Finished :
  /\ running[w].started /\ running[w].writing = "nothing"
  /\ running' = [running EXCEPT
       ![w] = IF result[@.job] = "SUCCESS" THEN Idle ELSE [@ EXCEPT !.writing = state]]
  /\ UNCHANGED doubled
  /\ UNCHANGED submission /\ UNCHANGED redis /\ UNCHANGED clients /\ UNCHANGED faults

\* Mutant: the tasks are declared with ignore_result.
ResultIgnored(j, state) == result

Stored(j, state) == [result EXCEPT ![j] = state]

\* The write, whatever is stored by now.
Store(w) ==
  /\ running[w].writing # "nothing"
  /\ result' = Stored(running[w].job, running[w].writing)
  /\ running' = [running EXCEPT
       ![w] = IF @.writing = "STARTED" THEN [@ EXCEPT !.writing = "nothing"] ELSE Idle]
  /\ UNCHANGED <<marker, lateSet, expired, copies, doubled>>
  /\ UNCHANGED submission /\ UNCHANGED clients /\ UNCHANGED faults

-----------------------------------------------------------------------------
(* GET /jobs/diagnostic/{job_id} *)

\* A job without marker is answered 404 and changes nothing.
Lookup(c) == \E j \in Jobs :
  /\ polling[c] = None
  /\ j \in marker
  /\ polling' = [polling EXCEPT ![c] = j]
  /\ UNCHANGED <<running, doubled, seen>>
  /\ UNCHANGED submission /\ UNCHANGED redis /\ UNCHANGED faults

\* The state is read in a thread, after the connection of the lookup is
\* closed; a timeout or an error is answered 503.
Read(c) ==
  /\ polling[c] # None
  /\ polling' = [polling EXCEPT ![c] = None]
  /\ \/ UNCHANGED seen
     \/ result[polling[c]] = "SUCCESS" /\ seen' = seen \union {polling[c]}
  /\ UNCHANGED workers
  /\ UNCHANGED submission /\ UNCHANGED redis /\ UNCHANGED faults

-----------------------------------------------------------------------------
(* Time, and failures *)

ExpireMarker(j) ==
  /\ j \in marker
  /\ marker' = marker \ {j}
  /\ expired' = expired \union {j}
  /\ UNCHANGED <<lateSet, copies, result, running, doubled>>
  /\ UNCHANGED submission /\ UNCHANGED clients /\ UNCHANGED faults

\* Mutant: the result backend has a shorter time to live than the marker.
ResultIsOld(j) == TRUE

\* result_expires is the time to live of the marker, which is older.
ResultOutlivesMarker(j) == j \notin marker

ExpireResult(j) ==
  /\ result[j] # "PENDING"
  /\ ResultOutlivesMarker(j)
  /\ result' = [result EXCEPT ![j] = "PENDING"]
  /\ UNCHANGED <<marker, lateSet, expired, copies, running, doubled>>
  /\ UNCHANGED submission /\ UNCHANGED clients /\ UNCHANGED faults

\* The API process dies with its handlers and threads.
ApiCrash ==
  /\ crashes < MaxCrashes
  /\ crashes' = crashes + 1
  /\ pc' = [j \in Jobs |-> IF pc[j] \in {"publish", "cleanup"} THEN "aborted" ELSE pc[j]]
  /\ thread' = [j \in Jobs |-> IF thread[j] = "running" THEN "failed" ELSE thread[j]]
  /\ polling' = [c \in Pollers |-> None]
  /\ UNCHANGED <<running, doubled, seen, repeats, resets>>
  /\ UNCHANGED redis

\* A worker dies, or gives up what it cannot store.  A job that was taken is not
\* given to another worker.
WorkerCrash(w) ==
  /\ running[w] # Idle
  /\ crashes < MaxCrashes
  /\ crashes' = crashes + 1
  /\ running' = [running EXCEPT ![w] = Idle]
  /\ UNCHANGED <<doubled, repeats, resets>>
  /\ UNCHANGED submission /\ UNCHANGED redis /\ UNCHANGED clients

\* Redis restarts without a snapshot of what it had: the redis service of
\* docker-compose.yml has no volume of its own.
RedisReset ==
  /\ resets < MaxResets
  /\ resets' = resets + 1
  /\ marker' = {} /\ lateSet' = {}
  /\ copies' = [j \in Jobs |-> 0]
  /\ result' = [j \in Jobs |-> "PENDING"]
  /\ UNCHANGED <<expired, running, doubled, repeats, crashes>>
  /\ UNCHANGED submission /\ UNCHANGED clients

-----------------------------------------------------------------------------
Handler(j) == Accept(j) \/ GiveUp(j) \/ Cleanup(j)
WorkerStep(w) == Take(w) \/ ReportStarted(w) \/ Finish(w) \/ Store(w)

Next ==
  \/ \E j \in Jobs :
       \/ SetMarker(j) \/ SetFails(j) \/ SetLate(j)
       \/ Publish(j) \/ PublishFails(j) \/ Handler(j)
       \/ ExpireMarker(j) \/ ExpireResult(j)
  \/ \E w \in Workers : WorkerStep(w) \/ WorkerCrash(w)
  \/ \E c \in Pollers : Lookup(c) \/ Read(c)
  \/ ApiCrash
  \/ RedisReset

Spec == Init /\ [][Next]_vars

\* Handlers have a timeout on what they wait for, and workers keep working.
\* Nothing says that the marker of a job lives long enough to see it finish.
FairSpec ==
  /\ Spec
  /\ \A j \in Jobs : WF_vars(Handler(j))
  /\ \A w \in Workers : WF_vars(WorkerStep(w))
=============================================================================
