----------------------- MODULE DiagnosticJobsProperties -----------------------
(***************************************************************************)
(* What the diagnostic jobs of DiagnosticJobs guarantee.                   *)
(***************************************************************************)
EXTENDS DiagnosticJobs

\* Every variable has its type; a submission that waits for its thread has
\* one, and only a published job is ever taken.
TypeOK ==
  /\ pc \in [Jobs -> {"new", "publish", "cleanup"} \union Ended]
  /\ thread \in [Jobs -> {"no", "running", "published", "failed"}]
  /\ marker \subseteq Jobs /\ lateSet \subseteq Jobs /\ expired \subseteq Jobs
  /\ copies \in [Jobs -> Nat]
  /\ result \in [Jobs -> {"PENDING", "STARTED"} \union Finished]
  /\ running \in [Workers -> [job : Jobs \union {None}, started : BOOLEAN,
                              writing : {"nothing", "STARTED"} \union Finished]]
  /\ doubled \subseteq Jobs
  /\ polling \in [Pollers -> Jobs \union {None}]
  /\ seen \subseteq Jobs
  /\ repeats \in 0..MaxRepeats /\ crashes \in 0..MaxCrashes /\ resets \in 0..MaxResets
  /\ \A j \in Jobs :
       /\ pc[j] \in {"publish", "accepted"} => thread[j] # "no"
       /\ thread[j] = "no" => copies[j] = 0 /\ result[j] = "PENDING"

\* "the marker comes before the publish, so a 202 can always be queried"
\* (jobs.py:46): until the marker expires, unless Redis lost it.
AcceptedIsQueryable ==
  \A j \in Jobs :
    (pc[j] = "accepted" /\ j \notin expired /\ resets = 0) => j \in marker

\* A job answered 202 is in the queue, with a worker or finished, until its
\* marker expires, as long as no process of the API or of a worker dies and
\* Redis keeps its data: a publish that is given up, repeated or raced by
\* another worker's result loses none (jobs.py:48-57).
AcceptedIsNotLost ==
  \A j \in Jobs :
    (pc[j] = "accepted" /\ j \notin expired /\ crashes = 0 /\ resets = 0)
      => \/ copies[j] > 0
         \/ \E w \in Workers : running[w].job = j
         \/ result[j] \in Finished

\* Once a GET has answered SUCCESS for a job, SUCCESS is what the backend has
\* as long as its marker is there, though messages are repeated, workers read
\* before they write and keys expire: a GET whose marker lives until it reads
\* the state answers no less (jobs.py:47, 79, 90-107, celery_app.py:30).  Not so
\* if two workers had the job at once: one may write over the other's SUCCESS
\* what it decided to write before.
SuccessIsFinal ==
  \A j \in Jobs : (j \in seen /\ j \in marker /\ j \notin doubled) => result[j] = "SUCCESS"

(* The inductive invariant behind the safety properties *)

\* What the steps of a submission leave behind them: nothing is known of a
\* job whose thread never ran, and a SET that comes late is of such a job.
ControlOK ==
  /\ \A j \in Jobs :
       /\ pc[j] = "new" => thread[j] = "no"
       /\ pc[j] = "accepted" => thread[j] = "published"
       /\ j \in lateSet => pc[j] # "new" /\ thread[j] = "no"
       /\ thread[j] = "no" => j \notin seen /\ \A w \in Workers : running[w].job # j
  /\ \A w \in Workers :
       /\ running[w].started => running[w].job \in Jobs
       /\ running[w].writing # "nothing" => running[w].started

\* A handler that may still accept its job has set the marker ...
MarkerKept ==
  \A j \in Jobs :
    (pc[j] \in {"publish", "accepted"} /\ j \notin expired /\ resets = 0) => j \in marker

\* ... and once its thread has published, somebody has the job.
PublishedKept ==
  \A j \in Jobs :
    (/\ pc[j] \in {"publish", "accepted"} /\ thread[j] = "published"
     /\ j \notin expired /\ crashes = 0 /\ resets = 0)
      => \/ copies[j] > 0
         \/ \E w \in Workers : running[w].job = j
         \/ result[j] \in Finished

\* Without a second worker, nothing is about to be written over a SUCCESS.
WritesOK ==
  \A j \in Jobs \ doubled : \A w \in Workers :
    running[w].job = j =>
      /\ \A v \in Workers : running[v].job = j => v = w
      /\ result[j] = "SUCCESS" => running[w].writing = "nothing"

\* In every reachable state the marker, the message and the result of a job
\* agree with how far its handler, its thread and its workers have come
\* (jobs.py:45-66).
IInv ==
  /\ TypeOK /\ ControlOK
  /\ MarkerKept /\ PublishedKept
  /\ WritesOK /\ SuccessIsFinal

\* Every submission is answered, with 202 or 503, unless the API dies, and a
\* job answered 202 finishes unless it was lost to a death
\* (jobs.py:48-66).
SubmissionsAreAnswered == \A j \in Jobs : pc[j] # "new" ~> pc[j] \in Ended
AcceptedFinishes ==
  \A j \in Jobs :
    pc[j] = "accepted" ~> (\/ result[j] \in Finished
                           \/ j \in expired
                           \/ crashes > 0
                           \/ resets > 0)
=============================================================================
