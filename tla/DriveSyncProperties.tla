-------------------------- MODULE DriveSyncProperties --------------------------
(***************************************************************************)
(* What sync() promises in DriveSync.                                      *)
(***************************************************************************)
EXTENDS DriveSync, DriveFilesProperties

\* Every variable of DriveSync has its type.
SyncTypeOK ==
  /\ localFile \in [Places -> Contents \union {None}]
  /\ stage \in [Syncers -> {"idle", "next", "lookup", "upload", "returned", "aborted"}]
  /\ listed \in [Syncers -> SUBSET Places]
  /\ todo \in [Syncers -> SUBSET Places]
  /\ current \in [Syncers -> Places \union {None}]
  /\ digest \in [Syncers -> Contents \union {None}]
  /\ report \in [Syncers -> [uploaded : SUBSET Places, skipped : SUBSET Places,
                             failed : SUBSET Places, gone : SUBSET Places]]
  /\ touched \in [Syncers -> SUBSET Places]
  /\ edits \in 0..MaxEdits

Named(s) == report[s].uploaded \union report[s].skipped \union report[s].failed

\* The report names each file of the directory in one of its lists and no
\* more, however its lookups and uploads ended; a file it does not name was
\* no file any more when its turn came (google_drive.py:506-534).
ReportIsComplete == \A s \in Syncers :
  LET r == report[s] IN
  /\ r.uploaded \intersect r.skipped = {}
  /\ r.failed \intersect (r.uploaded \union r.skipped) = {}
  /\ r.gone \intersect Named(s) = {}
  /\ stage[s] = "returned" => Named(s) \union r.gone = listed[s]

\* A file reported as uploaded or unchanged is in Drive with the content it
\* has in the directory, unless somebody touched either side since its turn
\* began: neither a retried PUT, nor the moment between lookup and upload,
\* nor a failure of another file spoils it (google_drive.py:512-525).
ReportedIsMirrored == \A s \in Syncers :
  \A p \in (report[s].uploaded \union report[s].skipped) \ touched[s] :
    localFile[p] \in Seen(file, p)

Going(s) == stage[s] \notin {"idle", "returned", "aborted"}

\* The calls a sync() may still make for its current file.
CallsLeft(s) ==
  CASE stage[s] = "lookup" -> 4
    [] stage[s] = "upload" /\ pc[s] = "find" -> 3
    [] stage[s] = "upload" /\ pc[s] = "initiate" -> 2
    [] stage[s] = "upload" /\ pc[s] = "put" -> 1
    [] OTHER -> 0

AttemptsLeft(s) ==
  (5 * Cardinality(todo[s]) + CallsLeft(s)) * (MaxRetries + 1) - attempt[s]
    + (IF Going(s) THEN 1 ELSE 0)

\* A step of a sync() leaves it fewer attempts.
Spends(s) == Sync(s) => AttemptsLeft(s)' < AttemptsLeft(s)

\* A sync() is never stuck, each of its steps leaves it fewer attempts, and no
\* lookup or upload that fails ends it: the next file has its turn, whatever
\* happened to this one inside the try (google_drive.py:512-529).  Only what
\* is_file() raises before the try (507) takes it away from its report.
SyncReports ==
  [][\A s \in Syncers :
       /\ Going(s) => ENABLED Sync(s)
       /\ Spends(s)
       /\ (stage[s] \in {"lookup", "upload"} /\ Sync(s)) => Going(s)']_allVars

-----------------------------------------------------------------------------
(* Why ReportIsComplete holds *)

Current(s) == IF stage[s] \in {"lookup", "upload"} THEN {current[s]} ELSE {}

\* Each file listed is to come, or has its turn, or is in one list.
FilesAccounted == \A s \in Syncers :
  LET r == report[s] IN
  /\ listed[s] = todo[s] \union Current(s) \union Named(s) \union r.gone
  /\ todo[s] \intersect (Current(s) \union Named(s) \union r.gone) = {}
  /\ Current(s) \intersect (Named(s) \union r.gone) = {}
  /\ stage[s] = "returned" => todo[s] = {}

ReportFits == SyncTypeOK /\ FilesAccounted /\ ReportIsComplete

-----------------------------------------------------------------------------
(* Why each step of a sync() leaves it fewer attempts *)

\* What sync() asks of the provider.
SyncRequests ==
  [op : {"lookup", "upload"}, place : Places, dst : {None}, content : Contents \union {None}]

\* Only a call that is awaited has been tried, and no more often than with_retry
\* allows.
AttemptsFit ==
  /\ pc \in [Tasks -> Resting \union Changing \union
                      {"find", "initiate", "open", "stream"}]
  /\ call \in [Tasks -> Calls \union SyncRequests \union {None}]
  /\ attempt \in [Tasks -> 0..MaxRetries]
  /\ \A s \in Syncers :
       /\ stage[s] \notin {"lookup", "upload"} => attempt[s] = 0
       /\ stage[s] = "lookup" =>
            pc[s] = "find" /\ call[s] \in SyncRequests /\ call[s].op = "lookup"
       /\ stage[s] = "upload" =>
            /\ pc[s] \in {"find", "initiate", "put"}
            /\ call[s] \in SyncRequests /\ call[s].op = "upload"

-----------------------------------------------------------------------------
(* Why ReportedIsMirrored holds where the tasks beside a sync() transfer    *)
(* files and do not delete, copy or move them.                              *)

\* What a task is about to send.
Sends(t) ==
  /\ pc[t] \notin Resting =>
       /\ call[t] \in IF t \in Syncers THEN SyncRequests ELSE Calls
       /\ call[t].op \in {"upload", "download", "lookup"}
  /\ pc[t] = "initiate" => call[t].op = "upload" /\ found[t] \in Known \union {None}
  /\ pc[t] = "put" => /\ call[t].op = "upload"
                      /\ found[t] \in 1..Len(sessions)
                      /\ sessions[found[t]].place = call[t].place
  /\ pc[t] # "change"

SendsFit ==
  /\ ServerOK
  /\ \A q \in inAir : q.op = "upload"
  /\ pc \in [Tasks -> Resting \union Changing \union
                      {"find", "initiate", "open", "stream"}]
  /\ call \in [Tasks -> Calls \union SyncRequests \union {None}]
  /\ found \in [Tasks -> Files \union {None} \union Nat]
  /\ \A t \in Tasks : Sends(t)
  /\ \A t, u \in Tasks :
       (pc[t] = "put" /\ pc[u] = "put" /\ found[t] = found[u]) => t = u

\* A sync() awaits the lookup of its current file, whose digest it knows, or
\* its upload, whose content is that of the local file.
SyncAsks == \A s \in Syncers :
  LET p == current[s] IN
  /\ stage[s] \notin {"lookup", "upload"} => pc[s] \in Resting
  /\ stage[s] \in {"lookup", "upload"} =>
       pc[s] \in {"find", "initiate", "put"} /\ call[s].place = p
  /\ stage[s] = "lookup" =>
       /\ pc[s] = "find" /\ call[s].op = "lookup"
       /\ digest[s] = localFile[p] \/ p \in touched[s]
  /\ stage[s] = "upload" => call[s].op = "upload" /\ call[s].content = localFile[p]

\* Nothing leaves its place: an upload is for a file where it looked.
FilesStay ==
  /\ \A f \in Known : file[f].state = "live"
  /\ \A i \in 1..Len(sessions) :
       sessions[i].target # None =>
         file[sessions[i].target].place = sessions[i].place
  /\ \A t \in Tasks :
       (pc[t] = "initiate" /\ found[t] # None) =>
         file[found[t]].place = call[t].place

\* A PUT of the current file has the content of the local file, on its way or
\* applied, unless somebody touched either side.
PutsMirror ==
  \A s \in Syncers :
    LET p == current[s] IN
    (pc[s] = "put" /\ p \notin touched[s]) =>
      /\ \A q \in inAir : q.file = found[s] => q.content = localFile[p]
      /\ sessions[found[s]].made # None => localFile[p] \in Seen(file, p)

\* The inductive invariant, where TransfersOnly.
SyncIInv ==
  /\ ReportFits
  /\ SendsFit /\ SyncAsks /\ FilesStay /\ PutsMirror
  /\ ReportedIsMirrored
=============================================================================
