------------------------------- MODULE DriveSync -------------------------------
(***************************************************************************)
(* sync() of the Google Drive storage provider: it lists the files of a    *)
(* local directory and, one by one, compares the digest of each with the   *)
(* metadata of its file in Drive and uploads it unless they agree.  Its    *)
(* lookups and uploads are those of DriveFiles, beside other tasks that    *)
(* change the same folder and people who edit the local files.  A local    *)
(* file is named by the place sync() gives it in Drive.                    *)
(*                                                                         *)
(* A digest is the content itself.  The content of an upload is read while *)
(* it is sent: an edit of the same length changes what is sent, another    *)
(* one breaks the length announced, which is a request that is refused.    *)
(***************************************************************************)
EXTENDS DriveFiles

CONSTANTS
  Syncers,   \* the tasks that run sync()
  MaxEdits   \* BOUND: edits of local files

ASSUME SyncAssumption == Syncers \subseteq Tasks /\ MaxEdits \in Nat

VARIABLES
  localFile,  \* the content of each local file, None where there is none
  stage,      \* of a sync(): "idle", "next", "lookup", "upload", "returned", "aborted"
  listed,     \* the files it listed
  todo,       \* those whose turn has not come
  current,    \* the file whose turn it is
  digest,     \* "local_md5"
  report,     \* its lists, and the files that were gone when their turn came
  touched,    \* files others changed on either side since their turn began
  edits       \* edits so far

syncVars == <<localFile, stage, listed, todo, current, digest, report, touched, edits>>
allVars == <<vars, syncVars>>

EmptyReport == [uploaded |-> {}, skipped |-> {}, failed |-> {}, gone |-> {}]

SyncInit ==
  /\ Init
  /\ localFile \in [Places -> Contents \union {None}]
  /\ stage = [s \in Syncers |-> "idle"]
  /\ listed = [s \in Syncers |-> {}]
  /\ todo = [s \in Syncers |-> {}]
  /\ current = [s \in Syncers |-> None]
  /\ digest = [s \in Syncers |-> None]
  /\ report = [s \in Syncers |-> EmptyReport]
  /\ touched = [s \in Syncers |-> {}]
  /\ edits = 0

Seen(files, p) ==
  {files[f].content : f \in {g \in Files : /\ files[g] # None
                                           /\ files[g].place = p
                                           /\ files[g].state = "live"}}

\* History: what a step of anyone else takes away from what Drive shows, and
\* what it changes of the local files, of those whose turn has come.
OthersTouch(own) ==
  touched' = [s \in Syncers |->
    IF s \in own THEN touched[s]
    ELSE touched[s] \union
           {p \in listed[s] \ todo[s] : \/ localFile'[p] # localFile[p]
                                       \/ ~ Seen(file, p) \subseteq Seen(file', p)}]

-----------------------------------------------------------------------------
\* sorted(local_root.rglob("*")), all at once
SyncBegins(s) ==
  /\ stage[s] \in {"idle", "returned", "aborted"}
  /\ stage' = [stage EXCEPT ![s] = "next"]
  /\ listed' = [listed EXCEPT ![s] = {p \in Places : localFile[p] # None}]
  /\ todo' = [todo EXCEPT ![s] = listed'[s]]
  /\ report' = [report EXCEPT ![s] = EmptyReport]
  /\ touched' = [touched EXCEPT ![s] = {}]
  /\ UNCHANGED <<localFile, current, digest, edits>>
  /\ UNCHANGED vars

\* The provider is called with a file, and begins by looking it up.
Calling(s, op, p, content) ==
  /\ call' = [call EXCEPT ![s] = [op |-> op, place |-> p, dst |-> None, content |-> content]]
  /\ pc' = [pc EXCEPT ![s] = "find"]
  /\ attempt' = [attempt EXCEPT ![s] = 0]

Reports(s, p, list) ==
  /\ report' = [report EXCEPT ![s][list] = @ \union {p}]
  /\ stage' = [stage EXCEPT ![s] = "next"]

\* Mutant: the exception of one file ends the sync.
FileRaises(s, p) ==
  /\ stage' = [stage EXCEPT ![s] = "aborted"]
  /\ UNCHANGED report

\* Whatever is raised inside the try is noted, and the next file has its turn.
FileFails(s, p) == Reports(s, p, "failed")

\* The turn of a file: it is no file any more, cannot be read, or is read and
\* get_metadata() called.
SyncTakes(s) == \E p \in todo[s] :
  /\ stage[s] = "next"
  /\ todo' = [todo EXCEPT ![s] = @ \ {p}]
  /\ current' = [current EXCEPT ![s] = p]
  /\ \/ /\ localFile[p] = None
        /\ Reports(s, p, "gone")
        /\ UNCHANGED <<digest, pc, call, attempt>>
     \/ /\ FileFails(s, p)
        /\ UNCHANGED <<digest, pc, call, attempt>>
     \/ /\ localFile[p] # None
        /\ digest' = [digest EXCEPT ![s] = localFile[p]]
        /\ stage' = [stage EXCEPT ![s] = "lookup"]
        /\ Calling(s, "lookup", p, None)
        /\ UNCHANGED report
  /\ UNCHANGED <<localFile, listed, touched, edits, found>>
  /\ UNCHANGED server
  /\ UNCHANGED local

UploadBegins(s) ==
  /\ stage' = [stage EXCEPT ![s] = "upload"]
  /\ Calling(s, "upload", current[s], localFile[current[s]])
  /\ UNCHANGED <<found, report>>

\* Mutant: a file that is there is taken to be the same.
SameName(s, f) == f # None

SameContent(s, f) == f # None /\ file[f].content = digest[s]

\* Mutant: no "continue" after a file that was skipped.
SkipAndUpload(s) ==
  /\ report' = [report EXCEPT ![s].skipped = @ \union {current[s]}]
  /\ stage' = [stage EXCEPT ![s] = "upload"]
  /\ Calling(s, "upload", current[s], localFile[current[s]])
  /\ UNCHANGED found

Skip(s) ==
  /\ Reports(s, current[s], "skipped")
  /\ End(s, "done")

\* The metadata arrive: skip the file, or upload it if it is still there.
SyncCompares(s) ==
  /\ stage[s] = "lookup" /\ pc[s] = "find"
  /\ \E f \in Matches(s) :
     \/ /\ SameContent(s, f)
        /\ Skip(s)
     \/ /\ ~SameContent(s, f)
        /\ localFile[current[s]] # None
        /\ UploadBegins(s)
     \/ /\ ~SameContent(s, f)
        /\ localFile[current[s]] = None
        /\ FileFails(s, current[s])
        /\ End(s, "failed")
  /\ UNCHANGED <<localFile, listed, todo, current, digest, touched, edits>>
  /\ UNCHANGED server
  /\ UNCHANGED local

\* What sync() does when a call it awaits returns or raises.
Follows(s) ==
  CASE pc'[s] = "done" -> Reports(s, current[s], "uploaded")
    [] pc'[s] = "failed" -> FileFails(s, current[s])
    [] OTHER -> UNCHANGED <<report, stage>>

\* A body that cannot be read any more is not sent.
Readable(s) == call[s].content # None

SyncCalls(s) ==
  /\ stage[s] \in {"lookup", "upload"}
  /\ \/ stage[s] = "upload" /\ (Find(s) \/ Initiate(s))
     \/ Readable(s) /\ (Answered(s) \/ TimesOut(s))
     \/ Transient(s)
     \/ Refused(s)
  /\ Follows(s)
  /\ UNCHANGED <<localFile, listed, todo, current, digest, edits>>
  /\ OthersTouch({s})

\* After the last file sync() returns its report.  is_file() is outside the
\* try: what it raises, of a directory that may not be searched or a medium that
\* cannot be read, ends the sync() at that file without a report.
SyncEnds(s) == \E how \in {"returned", "aborted"} :
  /\ stage[s] = "next"
  /\ how = "returned" <=> todo[s] = {}
  /\ stage' = [stage EXCEPT ![s] = how]
  /\ current' = [current EXCEPT ![s] = None]
  /\ digest' = [digest EXCEPT ![s] = None]
  /\ pc' = [pc EXCEPT ![s] = "idle"]
  /\ UNCHANGED <<localFile, listed, todo, report, touched, edits, call, found, attempt>>
  /\ UNCHANGED server
  /\ UNCHANGED local

-----------------------------------------------------------------------------
(* Everybody else *)

\* A local file is written, or removed.
Edit == \E p \in Places, c \in Contents \union {None} :
  /\ edits < MaxEdits
  /\ edits' = edits + 1
  /\ c # localFile[p]
  /\ localFile' = [localFile EXCEPT ![p] = c]
  /\ call' = [t \in Tasks |->
                IF t \in Syncers /\ pc[t] \notin Resting /\ stage[t] = "upload" /\ current[t] = p
                THEN [call[t] EXCEPT !.content = c] ELSE call[t]]
  /\ UNCHANGED <<pc, found, attempt>>
  /\ UNCHANGED server
  /\ UNCHANGED local
  /\ OthersTouch({})
  /\ UNCHANGED <<stage, listed, todo, current, digest, report>>

Others ==
  /\ \/ \E t \in Tasks \ Syncers :
          \/ Begin(t) \/ Find(t) \/ Initiate(t) \/ Answered(t)
          \/ Transient(t) \/ TimesOut(t) \/ Refused(t)
          \/ Open(t) \/ Complete(t) \/ BreakOff(t)
     \/ ApplyLate
  /\ UNCHANGED <<localFile, stage, listed, todo, current, digest, report, edits>>
  /\ OthersTouch({})

\* The process dies; a body that could not be read is not on its way.
Dies ==
  /\ Crash
  /\ \A q \in inAir' : q.op = "upload" => q.content # None
  /\ stage' = [s \in Syncers |-> "idle"]
  /\ listed' = [s \in Syncers |-> {}]
  /\ todo' = [s \in Syncers |-> {}]
  /\ current' = [s \in Syncers |-> None]
  /\ digest' = [s \in Syncers |-> None]
  /\ report' = [s \in Syncers |-> EmptyReport]
  /\ touched' = [s \in Syncers |-> {}]
  /\ UNCHANGED <<localFile, edits>>

-----------------------------------------------------------------------------
Sync(s) == SyncTakes(s) \/ SyncCompares(s) \/ SyncCalls(s) \/ SyncEnds(s)

SyncNext ==
  \/ \E s \in Syncers : SyncBegins(s) \/ Sync(s)
  \/ Edit
  \/ Others
  \/ Dies

SyncSpec == SyncInit /\ [][SyncNext]_allVars
=============================================================================
