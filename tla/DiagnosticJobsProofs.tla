-------------------------- MODULE DiagnosticJobsProofs --------------------------
(***************************************************************************)
(* Proofs about DiagnosticJobs: IInv is inductive, and the safety          *)
(* properties follow from it for any number of jobs, workers and faults.   *)
(***************************************************************************)
EXTENDS DiagnosticJobsProperties, TLAPS

LEMMA InitInv == Init => IInv
BY JobAssumption
   DEF Init, IInv, TypeOK, ControlOK, MarkerKept, PublishedKept, WritesOK,
       SuccessIsFinal, Ended, Finished, Idle

\* Writing the marker: in time, not at all, or late.
LEMMA MarkerInv ==
  ASSUME IInv, NEW j \in Jobs, SetMarker(j) \/ SetFails(j) \/ SetLate(j)
  PROVE  IInv'
<1> USE JobAssumption DEF IInv, Ended, Finished, faults, clients, submission, workers
<1>1. TypeOK'
  BY DEF SetMarker, SetFails, SetLate, TypeOK, ControlOK
<1>2. ControlOK'
  BY DEF SetMarker, SetFails, SetLate, TypeOK, ControlOK
<1>3. MarkerKept' /\ PublishedKept'
  BY DEF SetMarker, SetFails, SetLate, TypeOK, ControlOK, MarkerKept, PublishedKept
<1>4. WritesOK' /\ SuccessIsFinal'
  BY DEF SetMarker, SetFails, SetLate, TypeOK, ControlOK, WritesOK, SuccessIsFinal
<1> QED  BY <1>1, <1>2, <1>3, <1>4

\* The publishing thread, and the handler that waits for it: a job becomes
\* accepted only after its thread has published.
LEMMA SubmissionInv ==
  ASSUME IInv, NEW j \in Jobs, Publish(j) \/ PublishFails(j) \/ Handler(j)
  PROVE  IInv'
<1> USE JobAssumption DEF IInv, Handler, Ended, Finished, faults, clients, redis
<1>1. TypeOK'
  BY DEF Publish, PublishFails, Accept, GiveUp, Cleanup, TypeOK, ControlOK
<1>2. ControlOK'
  BY DEF Publish, PublishFails, Accept, GiveUp, Cleanup, TypeOK, ControlOK
<1>3. MarkerKept'
  BY DEF Publish, PublishFails, Accept, GiveUp, Cleanup, TypeOK, ControlOK, MarkerKept
<1>4. PublishedKept'
  BY DEF Publish, PublishFails, Accept, GiveUp, Cleanup, TypeOK, ControlOK, PublishedKept
<1>5. WritesOK' /\ SuccessIsFinal'
  BY DEF Publish, PublishFails, Accept, GiveUp, Cleanup, TypeOK, ControlOK, WritesOK,
         SuccessIsFinal
<1> QED  BY <1>1, <1>2, <1>3, <1>4, <1>5

\* A worker keeps the job it took until it has stored the outcome, or found a
\* SUCCESS.
LEMMA WorkerInv ==
  ASSUME IInv, NEW w \in Workers, WorkerStep(w)
  PROVE  IInv'
<1> USE JobAssumption DEF IInv, Ended, Finished, faults, clients, submission, redis
<1>1. CASE Take(w)
  <2>1. PICK j \in Jobs :
          /\ copies[j] > 0
          /\ copies' = [copies EXCEPT ![j] = @ - 1]
          /\ running' = [running EXCEPT ![w] = [Idle EXCEPT !.job = j]]
          /\ doubled' = IF \E v \in Workers : running[v].job = j
                        THEN doubled \union {j} ELSE doubled
    BY <1>1 DEF Take
  <2>2. UNCHANGED <<pc, thread, marker, lateSet, expired, result, polling, seen, repeats,
                    crashes, resets>>
    BY <1>1 DEF Take
  <2>3. /\ running'[w].job = j
        /\ ~running'[w].started
        /\ running'[w].writing = "nothing"
        /\ \A v \in Workers \ {w} : running'[v] = running[v]
        /\ thread[j] # "no"
    <3>1. running'[w] = [Idle EXCEPT !.job = j]
      BY <2>1 DEF TypeOK
    <3>2. \A v \in Workers \ {w} : running'[v] = running[v]
      BY <2>1 DEF TypeOK
    <3>3. thread[j] # "no"
      BY <2>1 DEF TypeOK
    <3> QED  BY <3>1, <3>2, <3>3 DEF Idle
  <2>4. /\ copies' \in [Jobs -> Nat]
        /\ \A i \in Jobs : copies'[i] > 0 => copies[i] > 0
        /\ \A i \in Jobs : copies[i] > 0 => copies'[i] > 0 \/ i = j
        /\ \A i \in Jobs : copies[i] = 0 => copies'[i] = 0
    BY <2>1 DEF TypeOK
  <2>5. TypeOK'
    <3>1. running' \in [Workers -> [job : Jobs \union {None}, started : BOOLEAN,
                                    writing : {"nothing", "STARTED"} \union Finished]]
      BY <2>1 DEF TypeOK, Idle
    <3> QED  BY <2>1, <2>2, <2>4, <3>1 DEF TypeOK
  <2>6. ControlOK' /\ MarkerKept'
    BY <2>2, <2>3 DEF ControlOK, MarkerKept
  <2>7. running[w].job = None
    BY <1>1 DEF Take, Idle
  <2>8. PublishedKept'
    BY <2>2, <2>3, <2>4, <2>7 DEF PublishedKept
  <2>9. WritesOK' /\ SuccessIsFinal'
    BY <2>1, <2>2, <2>3 DEF WritesOK, SuccessIsFinal
  <2> QED  BY <2>5, <2>6, <2>8, <2>9
<1>2. CASE ReportStarted(w)
  <2>1. running[w].job \in Jobs
    BY <1>2 DEF ReportStarted, TypeOK
  <2>2. PICK next \in {"nothing", "STARTED"} :
          /\ running' = [running EXCEPT ![w].started = TRUE, ![w].writing = next]
          /\ result[running[w].job] = "SUCCESS" => next = "nothing"
    BY <1>2 DEF ReportStarted
  <2>3. /\ running'[w].job = running[w].job
        /\ running'[w].started
        /\ running'[w].writing = next
        /\ \A v \in Workers \ {w} : running'[v] = running[v]
    BY <2>2 DEF TypeOK
  <2>4. /\ UNCHANGED <<pc, thread, marker, lateSet, expired, copies, result, doubled,
                       polling, seen, repeats, crashes, resets>>
    BY <1>2 DEF ReportStarted
  <2>5. TypeOK'
    BY <2>2, <2>4 DEF TypeOK
  <2>6. ControlOK' /\ MarkerKept' /\ PublishedKept'
    BY <2>1, <2>3, <2>4 DEF ControlOK, MarkerKept, PublishedKept
  <2>7. WritesOK'
    <3>1. \A v \in Workers : running'[v].job = running[v].job
      BY <2>3
    <3>2. ASSUME NEW j \in Jobs, j \notin doubled, NEW v \in Workers, running[v].job = j,
                 result[j] = "SUCCESS"
          PROVE  running'[v].writing = "nothing"
      <4>1. CASE v = w
        BY <2>2, <2>3, <3>2, <4>1
      <4>2. CASE v # w
        BY <2>3, <3>2, <4>2 DEF WritesOK
      <4> QED  BY <4>1, <4>2
    <3> QED  BY <2>4, <3>1, <3>2 DEF WritesOK
  <2>8. SuccessIsFinal'
    BY <2>4 DEF SuccessIsFinal
  <2> QED  BY <2>5, <2>6, <2>7, <2>8
<1>3. CASE Finish(w)
  <2>1. PICK state \in Finished :
          running' = [running EXCEPT ![w] = IF result[@.job] = "SUCCESS"
                                            THEN Idle ELSE [@ EXCEPT !.writing = state]]
    BY <1>3 DEF Finish
  <2>2. /\ running[w].job \in Jobs /\ running[w].started
        /\ UNCHANGED <<pc, thread, marker, lateSet, expired, copies, result, doubled,
                       polling, seen, repeats, crashes, resets>>
    BY <1>3 DEF Finish, ControlOK
  <2>3. \A v \in Workers \ {w} : running'[v] = running[v]
    BY <2>1 DEF TypeOK
  <2>4. IF result[running[w].job] = "SUCCESS" THEN running'[w] = Idle
        ELSE /\ running'[w].job = running[w].job
             /\ running'[w].started
             /\ running'[w].writing = state
    BY <2>1, <2>2 DEF TypeOK
  <2>5. TypeOK'
    <3>1. running' \in [Workers -> [job : Jobs \union {None}, started : BOOLEAN,
                                    writing : {"nothing", "STARTED"} \union Finished]]
      BY <2>1 DEF TypeOK, Idle
    <3> QED  BY <2>2, <3>1 DEF TypeOK
  <2>6. ControlOK' /\ MarkerKept' /\ PublishedKept'
    BY <2>2, <2>3, <2>4 DEF ControlOK, MarkerKept, PublishedKept, Idle
  <2>7. WritesOK' /\ SuccessIsFinal'
    BY <2>2, <2>3, <2>4 DEF WritesOK, SuccessIsFinal, Idle
  <2> QED  BY <2>5, <2>6, <2>7
<1>4. CASE Store(w)
  <2> DEFINE j == running[w].job
             state == running[w].writing
  <2>1. /\ j \in Jobs /\ state \in {"STARTED"} \union Finished /\ thread[j] # "no"
        /\ running[w].started
    BY <1>4 DEF Store, TypeOK, ControlOK
  <2>2. /\ result' = [result EXCEPT ![j] = state]
        /\ running' = [running EXCEPT
             ![w] = IF @.writing = "STARTED" THEN [@ EXCEPT !.writing = "nothing"] ELSE Idle]
        /\ UNCHANGED <<pc, thread, marker, lateSet, expired, copies, doubled,
                       polling, seen, repeats, crashes, resets>>
    BY <1>4 DEF Store, Stored
  <2>3. \A v \in Workers \ {w} : running'[v] = running[v]
    BY <2>2 DEF TypeOK
  <2>4. IF state # "STARTED" THEN running'[w] = Idle
        ELSE /\ running'[w].job = j
             /\ running'[w].started
             /\ running'[w].writing = "nothing"
    BY <2>1, <2>2 DEF TypeOK
  <2>5. result'[j] = state /\ \A i \in Jobs \ {j} : result'[i] = result[i]
    BY <2>1, <2>2 DEF TypeOK
  <2>6. TypeOK'
    <3>1. running' \in [Workers -> [job : Jobs \union {None}, started : BOOLEAN,
                                    writing : {"nothing", "STARTED"} \union Finished]]
      BY <2>2 DEF TypeOK, Idle
    <3>2. result' \in [Jobs -> {"PENDING", "STARTED"} \union Finished]
      BY <2>1, <2>2 DEF TypeOK
    <3> QED  BY <2>1, <2>2, <2>5, <3>1, <3>2 DEF TypeOK
  <2> HIDE DEF j, state
  <2>7. ControlOK' /\ MarkerKept'
    BY <2>1, <2>2, <2>3, <2>4 DEF ControlOK, MarkerKept, Idle, j
  <2>8. PublishedKept'
    BY <2>1, <2>2, <2>3, <2>4, <2>5 DEF PublishedKept, Idle, j
  <2>9. WritesOK'
    BY <2>1, <2>2, <2>3, <2>4, <2>5 DEF WritesOK, Idle, j, state
  <2>10. SuccessIsFinal'
    BY <2>1, <2>2, <2>5 DEF SuccessIsFinal, WritesOK, j, state
  <2> QED  BY <2>6, <2>7, <2>8, <2>9, <2>10
<1> QED  BY <1>1, <1>2, <1>3, <1>4 DEF WorkerStep

\* The two halves of a GET.
LEMMA PollInv ==
  ASSUME IInv, NEW c \in Pollers, Lookup(c) \/ Read(c)
  PROVE  IInv'
<1> USE JobAssumption DEF IInv, Ended, Finished, faults, submission, redis, workers
<1>1. TypeOK' /\ ControlOK'
  BY DEF Lookup, Read, TypeOK, ControlOK
<1>2. MarkerKept' /\ PublishedKept'
  BY DEF Lookup, Read, MarkerKept, PublishedKept
<1>3. WritesOK' /\ SuccessIsFinal'
  BY DEF Lookup, Read, TypeOK, WritesOK, SuccessIsFinal
<1> QED  BY <1>1, <1>2, <1>3

\* The time to live of a marker, then of the result.
LEMMA ExpiryInv ==
  ASSUME IInv, NEW j \in Jobs, ExpireMarker(j) \/ ExpireResult(j)
  PROVE  IInv'
<1> USE JobAssumption DEF IInv, Ended, Finished, faults, clients, submission
<1>1. TypeOK' /\ ControlOK'
  BY DEF ExpireMarker, ExpireResult, TypeOK, ControlOK
<1>2. MarkerKept'
  BY DEF ExpireMarker, ExpireResult, MarkerKept
<1>3. PublishedKept'
  BY DEF ExpireMarker, ExpireResult, ResultOutlivesMarker, TypeOK, MarkerKept,
         PublishedKept
<1>4. WritesOK' /\ SuccessIsFinal'
  BY DEF ExpireMarker, ExpireResult, ResultOutlivesMarker, TypeOK, WritesOK,
         SuccessIsFinal
<1> QED  BY <1>1, <1>2, <1>3, <1>4

\* Deaths, of the API, of a worker and of Redis.
LEMMA FaultInv ==
  ASSUME IInv, ApiCrash \/ RedisReset \/ \E w \in Workers : WorkerCrash(w)
  PROVE  IInv'
<1> USE JobAssumption DEF IInv, Ended, Finished, Idle, clients, submission, redis
<1>1. TypeOK'
  <2>1. CASE ApiCrash
    BY <2>1 DEF ApiCrash, TypeOK
  <2>2. CASE RedisReset
    BY <2>2 DEF RedisReset, TypeOK
  <2>3. CASE \E w \in Workers : WorkerCrash(w)
    BY <2>3 DEF WorkerCrash, TypeOK
  <2> QED  BY <2>1, <2>2, <2>3
<1>2. ControlOK'
  BY DEF ApiCrash, RedisReset, WorkerCrash, TypeOK, ControlOK
<1>3. MarkerKept' /\ PublishedKept'
  <2>1. MarkerKept'
    BY DEF ApiCrash, RedisReset, WorkerCrash, TypeOK, MarkerKept
  <2>2. PublishedKept'
    BY DEF ApiCrash, RedisReset, WorkerCrash, TypeOK, PublishedKept
  <2> QED  BY <2>1, <2>2
<1>4. WritesOK' /\ SuccessIsFinal'
  BY DEF ApiCrash, RedisReset, WorkerCrash, TypeOK, WritesOK, SuccessIsFinal
<1> QED  BY <1>1, <1>2, <1>3, <1>4

LEMMA NextInv == IInv /\ [Next]_vars => IInv'
<1> SUFFICES ASSUME IInv, [Next]_vars PROVE IInv'
  OBVIOUS
<1>1. CASE UNCHANGED vars
  BY <1>1 DEF vars, IInv, TypeOK, ControlOK, MarkerKept, PublishedKept, WritesOK,
              SuccessIsFinal
<1>2. CASE Next
  BY <1>2, MarkerInv, SubmissionInv, WorkerInv, PollInv, ExpiryInv, FaultInv DEF Next
<1> QED  BY <1>1, <1>2

\* The marker, the message and the result of every job agree with how far its
\* submission has come, in every reachable state.
THEOREM JobInvariant == Spec => []IInv
<1> QED  BY InitInv, NextInv, PTL DEF Spec

\* Every variable of the jobs stays in its set (jobs.py, celery_app.py).
THEOREM JobTypes == Spec => []TypeOK
<1>1. IInv => TypeOK  BY DEF IInv
<1> QED  BY <1>1, JobInvariant, PTL

\* A 202 can be queried until its marker expires or Redis loses its data
\* (jobs.py:46-66).
THEOREM AcceptedStaysQueryable == Spec => []AcceptedIsQueryable
<1>1. IInv => AcceptedIsQueryable  BY DEF IInv, MarkerKept, AcceptedIsQueryable
<1> QED  BY <1>1, JobInvariant, PTL

\* An accepted job is queued, taken or finished, unless a process died or Redis
\* lost its data (jobs.py:48-57).
THEOREM AcceptedStaysSomewhere == Spec => []AcceptedIsNotLost
<1>1. IInv => AcceptedIsNotLost
  BY DEF IInv, ControlOK, PublishedKept, AcceptedIsNotLost
<1> QED  BY <1>1, JobInvariant, PTL

\* A SUCCESS that was answered stays as long as the marker, unless two workers
\* had the job at once (jobs.py:69-107, celery_app.py:30).
THEOREM SuccessStays == Spec => []SuccessIsFinal
<1>1. IInv => SuccessIsFinal  BY DEF IInv
<1> QED  BY <1>1, JobInvariant, PTL
=============================================================================
