--------------------------- MODULE SystemStatusProofs ---------------------------
(***************************************************************************)
(* Proofs about SystemStatus: what is said of the worker is true and no    *)
(* nvidia-smi is left behind, for any number of requests, checks, pings,   *)
(* threads and restarts.                                                   *)
(***************************************************************************)
EXTENDS SystemStatusProperties, TLAPS

\* The checks of other processes are none of the three of this one.
LEMMA ChecksApart ==
  /\ "worker" \in Checks /\ "gpu" \in Checks /\ "engine" \in Checks
  /\ "worker" \notin Remote /\ "gpu" \notin Remote /\ "engine" \notin Remote
  /\ Remote \subseteq Checks
BY SystemAssumption DEF Checks

LEMMA InitInv == Init => IInv
<1> SUFFICES ASSUME Init PROVE IInv
  OBVIOUS
<1>1. \A r \in Requests, c \in Checks : task[r][c] = "none"
  BY DEF Init, Unasked
<1>2. TypeOK /\ PingsOK
  BY SystemAssumption DEF Init, TypeOK, PingsOK, Unasked, Over
<1>3. OutcomesOK /\ StepsOK
  BY <1>1, ChecksApart DEF OutcomesOK, StepsOK, Outcomes, Exceptions
<1>4. WorkerVerdictIsTrue /\ NoOrphanProcess
  BY <1>1, ChecksApart DEF Init, WorkerVerdictIsTrue, NoOrphanProcess
<1> QED  BY <1>2, <1>3, <1>4 DEF IInv

\* A request begins, is answered, or fails.
LEMMA RequestInv ==
  ASSUME IInv, NEW r \in Requests, Begin(r) \/ Answer(r) \/ GatherRaises(r)
  PROVE  IInv'
<1> USE SystemAssumption, ChecksApart DEF IInv, redis
<1>1. CASE Begin(r)
  <2>1. PICK first \in [Asks[r] -> UNION {FirstSteps(c) : c \in Checks}] :
          /\ \A c \in Checks : task[r][c] \in Over
          /\ \A c \in Asks[r] : first[c] \in FirstSteps(c)
          /\ task' = [task EXCEPT ![r] =
                        [c \in Checks |-> IF c \in Asks[r] THEN first[c] ELSE "none"]]
    BY <1>1 DEF Begin
  <2>2. \A c \in Checks : task'[r][c] = IF c \in Asks[r] THEN first[c] ELSE "none"
    BY <2>1 DEF TypeOK
  <2>3. \A q \in Requests \ {r} : task'[q] = task[q]
    BY <2>1 DEF TypeOK
  <2>4. /\ reply' = [reply EXCEPT ![r] = "pending"]
        /\ uses' = [uses EXCEPT ![r] = None]
        /\ broken' = broken \ {r}
        /\ UNCHANGED <<thread, nvidia, restarts, queue, results>>
    BY <1>1 DEF Begin
  <2>5. /\ task'[r]["worker"] \in {"none", "slot"}
        /\ task'[r]["gpu"] \in {"none", "starting", "reported"}
        /\ task'[r]["engine"] \in {"none", "reported", "raised"}
        /\ \A c \in Remote : task'[r][c] \in {"none", "asking"}
    BY <2>1, <2>2 DEF FirstSteps
  <2>6. \A c \in Checks : task'[r][c] \in {"none", "slot", "starting", "reported",
                                           "raised", "asking"}
    BY <2>5 DEF Checks
  <2>7. nvidia[r] = "none"
    BY <2>1 DEF TypeOK, NoOrphanProcess, Over, Verdicts
  <2>8. TypeOK'
    <3>1. task' \in [Requests -> [Checks -> Over \union Outcomes \union
                  {"slot", "thread", "asking", "starting", "reading", "reaping"}]]
      BY <2>1, <2>2, <2>6 DEF TypeOK, Over, Verdicts
    <3> QED  BY <3>1, <2>4 DEF TypeOK
  <2>9. OutcomesOK'
    BY <2>3, <2>4, <2>5 DEF OutcomesOK, TypeOK, Outcomes, Exceptions
  <2>10. StepsOK'
    BY <2>2, <2>3, <2>5 DEF StepsOK
  <2>11. WorkerVerdictIsTrue'
    <3>1. \A q \in Requests \ {r} : uses'[q] = uses[q] /\ (q \in broken' <=> q \in broken)
      BY <2>4 DEF TypeOK
    <3> QED  BY <2>3, <2>4, <2>5, <3>1 DEF WorkerVerdictIsTrue
  <2>12. NoOrphanProcess'
    BY <2>3, <2>4, <2>7 DEF NoOrphanProcess
  <2>13. PingsOK'
    BY <2>4 DEF PingsOK
  <2> QED  BY <2>8, <2>9, <2>10, <2>11, <2>12, <2>13
<1>2. CASE Answer(r)
  <2>1. \A c \in Checks : task'[r][c] = "none"
    BY <1>2 DEF Answer, Unasked, TypeOK
  <2>2. \A q \in Requests \ {r} : task'[q] = task[q]
    BY <1>2 DEF Answer, TypeOK
  <2>3. /\ reply' = [reply EXCEPT ![r] = "none"]
        /\ uses' = [uses EXCEPT ![r] = None]
        /\ broken' = broken \ {r}
        /\ UNCHANGED <<thread, nvidia, restarts, queue, results>>
    BY <1>2 DEF Answer
  <2>4. nvidia[r] = "none"
    BY <1>2 DEF Answer, TypeOK, NoOrphanProcess, StepsOK, Verdicts
  <2>5. TypeOK'
    BY <1>2, <2>3 DEF Answer, TypeOK, Unasked, Over
  <2>6. PingsOK' /\ OutcomesOK' /\ StepsOK'
    BY <2>1, <2>2, <2>3 DEF PingsOK, OutcomesOK, StepsOK, TypeOK, Outcomes, Exceptions
  <2>7. WorkerVerdictIsTrue' /\ NoOrphanProcess'
    BY <2>1, <2>2, <2>3, <2>4 DEF WorkerVerdictIsTrue, NoOrphanProcess, TypeOK
  <2> QED  BY <2>5, <2>6, <2>7
<1>3. CASE GatherRaises(r)
  BY <1>3 DEF GatherRaises, TypeOK, PingsOK, OutcomesOK, StepsOK, WorkerVerdictIsTrue,
              NoOrphanProcess
<1> QED  BY <1>1, <1>2, <1>3

\* A check of another process ends.
LEMMA RemoteInv ==
  ASSUME IInv, NEW r \in Requests, NEW c \in Remote, RemoteEnds(r, c)
  PROVE  IInv'
<1> USE SystemAssumption, ChecksApart DEF IInv, redis
<1>1. PICK step \in {"reported", "raised"} : task' = [task EXCEPT ![r][c] = step]
  BY DEF RemoteEnds, Goes
<1>2. /\ task[r][c] = "asking" /\ c \in Checks
      /\ UNCHANGED <<reply, restarts, uses, broken, thread, nvidia, queue, results>>
  BY DEF RemoteEnds, Goes
<1>3. \A q \in Requests, d \in Checks : d # c => task'[q][d] = task[q][d]
  BY <1>1, <1>2 DEF TypeOK
<1>4. task'[r][c] = step /\ \A q \in Requests \ {r} : task'[q] = task[q]
  BY <1>1, <1>2 DEF TypeOK
<1>5. TypeOK'
  BY <1>1, <1>2 DEF TypeOK, Over, Verdicts
<1>6. PingsOK' /\ OutcomesOK' /\ WorkerVerdictIsTrue' /\ NoOrphanProcess'
  BY <1>2, <1>3 DEF PingsOK, OutcomesOK, WorkerVerdictIsTrue, NoOrphanProcess
<1>7. StepsOK'
  BY <1>2, <1>3, <1>4 DEF StepsOK
<1> QED  BY <1>5, <1>6, <1>7

\* The check of the worker gets a thread, runs out of time, or hears of it.
LEMMA WorkerInv ==
  ASSUME IInv, NEW r \in Requests,
         StartThread(r) \/ WorkerCheckExpires(r) \/ WorkerCheckEnds(r)
  PROVE  IInv'
<1> USE SystemAssumption, ChecksApart DEF IInv, redis
<1>1. PICK step \in {"thread", "timeout", "connected", "error"} :
        /\ task' = [task EXCEPT ![r]["worker"] = step]
        /\ step = "thread" => uses'[r] \in Pings
        /\ step = "connected" => task[r]["worker"] = "pong" /\ uses' = uses
        /\ step = "error" => /\ task[r]["worker"] \in {"ConnectionError", "Other"}
                            /\ uses' = uses
  BY DEF StartThread, WorkerCheckExpires, WorkerCheckEnds, Goes, WorkerVerdict,
         SanitizeError, Outcomes, Exceptions, TypeOK
<1>2. /\ task[r]["worker"] \in {"slot", "thread"} \union Outcomes
      /\ UNCHANGED <<reply, restarts, broken, nvidia, queue, results>>
      /\ \A q \in Requests \ {r} : uses'[q] = uses[q]
  <2>1. CASE StartThread(r)
    BY <2>1 DEF StartThread, Goes, TypeOK
  <2>2. CASE WorkerCheckExpires(r)
    BY <2>2 DEF WorkerCheckExpires, Goes
  <2>3. CASE WorkerCheckEnds(r)
    BY <2>3 DEF WorkerCheckEnds, Goes
  <2> QED  BY <2>1, <2>2, <2>3
<1>3. \A q \in Requests, d \in Checks : d # "worker" => task'[q][d] = task[q][d]
  BY <1>1 DEF TypeOK
<1>4. task'[r]["worker"] = step /\ \A q \in Requests \ {r} : task'[q] = task[q]
  BY <1>1 DEF TypeOK
<1>5. TypeOK'
  <2>1. uses' \in [Requests -> Pings \union {None}]
        /\ thread' \in [Pings -> {"none", "publishing", "getting", "ended"}]
    <3>1. CASE StartThread(r)
      BY <3>1 DEF StartThread, TypeOK
    <3>2. CASE WorkerCheckExpires(r) \/ WorkerCheckEnds(r)
      BY <3>2 DEF WorkerCheckExpires, WorkerCheckEnds, TypeOK
    <3> QED  BY <3>1, <3>2
  <2> QED  BY <1>1, <1>2, <2>1 DEF TypeOK, Over, Verdicts
<1>6. OutcomesOK' /\ WorkerVerdictIsTrue'
  BY <1>1, <1>2, <1>4
     DEF OutcomesOK, WorkerVerdictIsTrue, Outcomes, Exceptions
<1>8. PingsOK'
  <2>1. CASE StartThread(r)
    BY <2>1 DEF StartThread, PingsOK, TypeOK
  <2>2. CASE WorkerCheckExpires(r) \/ WorkerCheckEnds(r)
    BY <2>2 DEF WorkerCheckExpires, WorkerCheckEnds, PingsOK
  <2> QED  BY <2>1, <2>2
<1>7. StepsOK' /\ NoOrphanProcess'
  <2>1. "worker" \in Asks[r]
    BY <1>2 DEF StepsOK, Outcomes, Exceptions
  <2>2. StepsOK'
    BY <1>2, <1>3, <1>4, <2>1 DEF StepsOK
  <2>3. NoOrphanProcess'
    BY <1>2, <1>3 DEF NoOrphanProcess
  <2> QED  BY <2>2, <2>3
<1> QED  BY <1>5, <1>6, <1>7, <1>8

\* A thread ends, with a pong or an exception that is no timeout only if they
\* were stored or come from Redis.
LEMMA ThreadInv ==
  ASSUME IInv, NEW p \in Pings, NEW outcome \in Outcomes, ThreadEnds(p, outcome),
         queue' \subseteq Pings, UNCHANGED results,
         PingsOK', broken' \subseteq Requests, broken \subseteq broken',
         outcome = "pong" => results[p] = "pong",
         outcome \in {"ConnectionError", "Other"}
           => results[p] = "failure" \/ \A r \in Requests : uses[r] = p => r \in broken'
  PROVE  IInv'
<1> USE SystemAssumption, ChecksApart DEF IInv
<1>1. \A r \in Requests, d \in Checks : d # "worker" => task'[r][d] = task[r][d]
  BY DEF ThreadEnds, TypeOK
<1>2. \A r \in Requests :
        \/ task'[r]["worker"] = task[r]["worker"]
        \/ /\ task[r]["worker"] = "thread" /\ uses[r] = p
           /\ task'[r]["worker"] = outcome
  BY DEF ThreadEnds, TypeOK
<1>3. UNCHANGED <<reply, uses, nvidia, restarts>>
  BY DEF ThreadEnds
<1>4. TypeOK'
  <2>1. task' \in [Requests -> [Checks -> Over \union Outcomes \union
                {"slot", "thread", "asking", "starting", "reading", "reaping"}]]
    BY DEF ThreadEnds, TypeOK
  <2> QED  BY <1>3, <2>1 DEF ThreadEnds, TypeOK
<1>5. OutcomesOK'
  BY <1>2, <1>3 DEF OutcomesOK, Outcomes, Exceptions
<1>6. WorkerVerdictIsTrue'
  BY <1>2, <1>3 DEF WorkerVerdictIsTrue, Outcomes, Exceptions
<1>7. StepsOK'
  BY <1>1, <1>2 DEF StepsOK, Outcomes, Exceptions
<1>8. NoOrphanProcess'
  BY <1>1, <1>3 DEF NoOrphanProcess
<1> QED  BY <1>4, <1>5, <1>6, <1>7, <1>8

\* A ping is sent, run, heard of, or lost.
LEMMA PingInv ==
  ASSUME IInv, NEW p \in Pings, Publish(p) \/ RedisFails(p) \/ Get(p) \/ RunPing(p)
  PROVE  IInv'
<1> USE DEF redis
<1>1. CASE Publish(p) \/ RunPing(p)
  <2>1. /\ UNCHANGED <<task, reply, uses, broken, nvidia, restarts>>
        /\ \A q \in Pings : results[q] # "none" => results'[q] = results[q]
    BY <1>1 DEF IInv, Publish, RunPing, TypeOK, PingsOK
  <2>2. TypeOK' /\ PingsOK'
    BY <1>1, <2>1 DEF IInv, Publish, RunPing, TypeOK, PingsOK
  <2>3. StepsOK' /\ NoOrphanProcess'
    BY <2>1 DEF IInv, StepsOK, NoOrphanProcess
  <2>4. \A r \in Requests, v \in {"pong", "failure"} :
          uses[r] \in Pings /\ results[uses[r]] = v => results'[uses'[r]] = v
    BY <2>1 DEF IInv, TypeOK
  <2>5. OutcomesOK'
    BY <2>1, <2>4 DEF IInv, OutcomesOK, Outcomes, Exceptions
  <2>6. \A r \in Requests : task[r]["worker"] \in {"connected", "error"} => uses[r] \in Pings
    BY DEF IInv, OutcomesOK
  <2>7. WorkerVerdictIsTrue'
    BY <2>1, <2>4, <2>6 DEF IInv, WorkerVerdictIsTrue
  <2> QED  BY <2>2, <2>3, <2>5, <2>7 DEF IInv
<1>2. CASE RedisFails(p)
  <2>1. PICK e \in {"TimeoutError", "ConnectionError", "Other"} : ThreadEnds(p, e)
    BY <1>2 DEF RedisFails
  <2>2. /\ broken' = broken \union {r \in Requests : uses[r] = p}
        /\ UNCHANGED results
        /\ queue' \subseteq queue \union {p}
    BY <1>2 DEF RedisFails
  <2>3. PingsOK'
    BY <1>2, <2>1 DEF RedisFails, ThreadEnds, IInv, PingsOK, TypeOK
  <2> QED  BY <2>1, <2>2, <2>3, ThreadInv DEF IInv, TypeOK, Outcomes, Exceptions
<1>3. CASE GetResult(p)
  <2>1. PICK outcome \in {"pong", "Other"} :
          /\ ThreadEnds(p, outcome)
          /\ outcome = "pong" <=> results[p] = "pong"
    BY <1>3 DEF GetResult
  <2>2. results[p] \in {"pong", "failure"} /\ UNCHANGED <<broken, queue, results>>
    BY <1>3 DEF GetResult, IInv, TypeOK
  <2>3. PingsOK'
    BY <2>1, <2>2 DEF ThreadEnds, IInv, PingsOK, TypeOK
  <2> QED  BY <2>1, <2>2, <2>3, ThreadInv DEF IInv, TypeOK, Outcomes, Exceptions
<1>4. CASE GetExpires(p)
  <2>1. PingsOK'
    BY <1>4 DEF GetExpires, ThreadEnds, IInv, PingsOK, TypeOK
  <2> QED  BY <1>4, <2>1, ThreadInv DEF GetExpires, IInv, TypeOK, Outcomes, Exceptions
<1> QED  BY <1>1, <1>2, <1>3, <1>4 DEF Get

\* check_gpu() goes on, or its process ends.
LEMMA GpuInv ==
  ASSUME IInv, NEW r \in Requests,
         GpuStarts(r) \/ NvidiaEnds(r) \/ GpuReads(r) \/ GpuExpires(r) \/ GpuReaped(r)
  PROVE  IInv'
<1> USE SystemAssumption, ChecksApart DEF IInv, redis
<1>1. CASE NvidiaEnds(r)
  <2>1. /\ nvidia' = [nvidia EXCEPT ![r] = "none"]
        /\ UNCHANGED <<task, reply, uses, broken, thread, restarts, queue, results>>
    BY <1>1 DEF NvidiaEnds
  <2>2. TypeOK' /\ PingsOK' /\ OutcomesOK' /\ StepsOK' /\ WorkerVerdictIsTrue'
    BY <2>1 DEF TypeOK, PingsOK, OutcomesOK, StepsOK, WorkerVerdictIsTrue
  <2>3. NoOrphanProcess'
    BY <2>1 DEF TypeOK, NoOrphanProcess
  <2> QED  BY <2>2, <2>3
<1>2. CASE GpuStarts(r) \/ GpuReads(r) \/ GpuExpires(r) \/ GpuReaped(r)
  <2>1. PICK step \in {"reading", "reported", "reaping"} :
          task' = [task EXCEPT ![r]["gpu"] = step]
    BY <1>2 DEF GpuStarts, GpuReads, GpuExpires, GpuReaped, Goes
  <2>2. /\ task[r]["gpu"] \in {"starting", "reading", "reaping"}
        /\ UNCHANGED <<reply, restarts, uses, broken, thread, queue, results>>
    BY <1>2 DEF GpuStarts, GpuReads, GpuExpires, GpuReaped, Goes
  <2>3. \A q \in Requests, d \in Checks : d # "gpu" => task'[q][d] = task[q][d]
    BY <2>1 DEF TypeOK
  <2>4. task'[r]["gpu"] = step /\ \A q \in Requests \ {r} : task'[q] = task[q]
    BY <2>1 DEF TypeOK
  <2>5. TypeOK'
    <3>1. nvidia' \in [Requests -> {"none", "running", "killed"}]
      BY <1>2 DEF GpuStarts, GpuReads, GpuExpires, GpuReaped, TypeOK
    <3> QED  BY <2>1, <2>2, <3>1 DEF TypeOK, Over, Verdicts
  <2>6. PingsOK' /\ OutcomesOK' /\ WorkerVerdictIsTrue'
    BY <2>2, <2>3 DEF PingsOK, OutcomesOK, WorkerVerdictIsTrue
  <2>7. StepsOK'
    BY <2>2, <2>3, <2>4 DEF StepsOK
  <2>8. NoOrphanProcess'
    BY <1>2, <2>4 DEF GpuStarts, GpuReads, GpuExpires, GpuReaped, Goes, TypeOK,
                      NoOrphanProcess
  <2> QED  BY <2>5, <2>6, <2>7, <2>8
<1> QED  BY <1>1, <1>2

\* The API process dies and is started again.
LEMMA RestartInv ==
  ASSUME IInv, Restart
  PROVE  IInv'
<1> USE SystemAssumption, ChecksApart DEF IInv, redis
<1>1. \A r \in Requests, c \in Checks : task'[r][c] = "none"
  BY DEF Restart, Unasked
<1>2. TypeOK' /\ PingsOK'
  BY DEF Restart, TypeOK, PingsOK, Unasked, Over
<1>3. OutcomesOK' /\ StepsOK'
  BY <1>1 DEF OutcomesOK, StepsOK, Outcomes, Exceptions
<1>4. WorkerVerdictIsTrue' /\ NoOrphanProcess'
  BY <1>1 DEF Restart, WorkerVerdictIsTrue, NoOrphanProcess
<1> QED  BY <1>2, <1>3, <1>4

LEMMA NextInv == IInv /\ [Next]_vars => IInv'
<1> SUFFICES ASSUME IInv, [Next]_vars PROVE IInv'
  OBVIOUS
<1>1. CASE UNCHANGED vars
  BY <1>1 DEF vars, redis, IInv, TypeOK, PingsOK, OutcomesOK, StepsOK, WorkerVerdictIsTrue,
              NoOrphanProcess
<1>2. ASSUME NEW r \in Requests, Proceed(r)
      PROVE  IInv'
  BY <1>2, RequestInv, RemoteInv, WorkerInv, GpuInv DEF Proceed, Bounded
<1>3. CASE Next
  BY <1>2, <1>3, RequestInv, RemoteInv, WorkerInv, GpuInv, PingInv, RestartInv DEF Next
<1> QED  BY <1>1, <1>3

\* Checks, threads, pings and processes fit together in every reachable state.
THEOREM SystemInvariant == Spec => []IInv
<1> QED  BY InitInv, NextInv, PTL DEF Spec

\* The worker is reported connected only if it ran the ping of that request,
\* and in error only if Redis failed the request or the worker stored a FAILURE
\* for its ping (health.py:52-83).
THEOREM WorkerVerdicts == Spec => []WorkerVerdictIsTrue
<1>1. IInv => WorkerVerdictIsTrue  BY DEF IInv
<1> QED  BY <1>1, SystemInvariant, PTL

\* Every nvidia-smi has a check that waits for it (system_status.py:101-110).
THEOREM NoOrphans == Spec => []NoOrphanProcess
<1>1. IInv => NoOrphanProcess  BY DEF IInv
<1> QED  BY <1>1, SystemInvariant, PTL
=============================================================================
