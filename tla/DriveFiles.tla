------------------------------- MODULE DriveFiles -------------------------------
(***************************************************************************)
(* The file operations of the Google Drive storage provider                *)
(* (services/storage): upload, download, delete, copy, move and the        *)
(* lookups, as the sequence of Drive API calls each of them makes.  The    *)
(* folders of a path are taken as resolved (module DriveFolders).          *)
(*                                                                         *)
(* Drive is external.  It identifies files by id, lets several files of a  *)
(* folder have one name, and applies a request at one instant.  A request  *)
(* whose answer does not arrive is an error for the provider, which        *)
(* repeats it, and may still be applied later.  An upload is two calls: the*)
(* first opens a session, the second sends the content; a session that is  *)
(* complete answers a repeated PUT with the file it made.                  *)
(***************************************************************************)
EXTENDS Integers, Sequences, FiniteSets

CONSTANTS
  Tasks,        \* concurrent callers of the provider
  Operations,   \* the operations they use
  Files,        \* ids Drive may give to files
  Folders, Names, Contents,
  Scratch,      \* the places of which is_within_scratch() is true
  None, Partial,
  MaxRetries,   \* google_drive_max_retries
  MaxLost,      \* BOUND: requests without an answer
  MaxSessions   \* BOUND: upload sessions opened

Places == [folder : Folders, name : Names]

ASSUME FileAssumption ==
  /\ Operations \subseteq {"upload", "download", "trash", "purge", "copy", "move",
                           "lookup"}
  /\ Scratch \subseteq Places
  /\ None \notin Files \union Contents /\ Partial \notin Contents
  /\ None # Partial
  /\ None \notin [place : Places, content : Contents,
                 state : {"live", "trashed", "purged"}]
  /\ IsFiniteSet(Tasks) /\ MaxRetries \in Nat /\ MaxLost \in Nat

\* "trash" and "purge" are delete() without and with allow_permanent.
Calls ==
  UNION {
    IF op = "upload"
      THEN [op : {op}, place : Places, dst : {None}, content : Contents]
    ELSE IF op \in {"copy", "move"}
      THEN [op : {op}, place : Places, dst : Places, content : {None}]
    ELSE [op : {op}, place : Places, dst : {None}, content : {None}]
    : op \in Operations}

VARIABLES
  file,      \* id -> its file [place, content, state]; ids are never reused
  sessions,  \* the upload sessions opened: [target, place, made]
  inAir,     \* requests given up by the provider, not yet applied
  lost,      \* how many requests were given up so far
  disk,      \* the local file that downloads replace
  part,      \* the temporary file of a task's download
  litter,    \* temporary files left behind by a process that died
  pc,        \* the call to Drive a task is suspended in
  call,      \* the operation it runs
  found,     \* "existing", the file its lookup returned; then its session
  attempt    \* "attempt" of with_retry

server == <<file, sessions, inAir, lost>>
local == <<disk, part, litter>>
task == <<pc, call, found, attempt>>
vars == <<file, sessions, inAir, lost, disk, part, litter, pc, call, found, attempt>>

Known == {f \in Files : file[f] # None}
At(p) == {f \in Known : file[f].state = "live" /\ file[f].place = p}
Purged(f) == f \in Known /\ file[f].state = "purged"
Resting == {"idle", "done", "failed"}

Init ==
  /\ file = [f \in Files |-> None]
  /\ sessions = <<>>
  /\ inAir = {}
  /\ lost = 0
  /\ disk = None
  /\ part = [t \in Tasks |-> None]
  /\ litter = 0
  /\ pc = [t \in Tasks |-> "idle"]
  /\ call = [t \in Tasks |-> None]
  /\ found = [t \in Tasks |-> None]
  /\ attempt = [t \in Tasks |-> 0]

Goto(t, step) ==
  /\ pc' = [pc EXCEPT ![t] = step]
  /\ attempt' = [attempt EXCEPT ![t] = 0]
  /\ UNCHANGED call

\* Mutant: the file found is not forgotten.
EndKeepsFound(t, outcome) ==
  /\ pc' = [pc EXCEPT ![t] = outcome]
  /\ call' = [call EXCEPT ![t] = None]
  /\ attempt' = [attempt EXCEPT ![t] = 0]
  /\ UNCHANGED found

\* The operation returns ("done") or raises ("failed").
End(t, outcome) ==
  /\ pc' = [pc EXCEPT ![t] = outcome]
  /\ call' = [call EXCEPT ![t] = None]
  /\ found' = [found EXCEPT ![t] = None]
  /\ attempt' = [attempt EXCEPT ![t] = 0]

-----------------------------------------------------------------------------
(* Beginning an operation, and looking its file up *)

\* Mutant: no call is blocked.
AlwaysPermitted(c) == TRUE

\* StoragePermanentDeleteBlockedError is raised before Drive is asked anything.
Permitted(c) == c.op = "trash" => c.place \in Scratch

Begin(t) == \E c \in Calls :
  /\ pc[t] \in Resting
  /\ Permitted(c)
  /\ call' = [call EXCEPT ![t] = c]
  /\ pc' = [pc EXCEPT ![t] = "find"]
  /\ UNCHANGED <<found, attempt>>
  /\ UNCHANGED server
  /\ UNCHANGED local

\* Mutant: an upload does not look whether the file is there.
NeverFound(t) == {None}

\* Mutant: the query does not leave out what is in the trash.
MatchesTrash(t) ==
  LET all == {f \in Known : ~Purged(f) /\ file[f].place = call[t].place}
  IN  IF all = {} THEN {None} ELSE all

\* files_only[0]: any file of that place, or none.
Matches(t) == IF At(call[t].place) = {} THEN {None} ELSE At(call[t].place)

NextCall(op) ==
  CASE op = "upload" -> "initiate"
    [] op = "download" -> "open"
    [] OTHER -> "change"

Find(t) ==
  /\ pc[t] = "find"
  /\ \E f \in Matches(t) :
     \/ /\ call[t].op = "lookup"
        /\ End(t, "done")
     \/ /\ f = None
        /\ call[t].op \notin {"lookup", "upload"}
        /\ End(t, "failed")
     \/ /\ call[t].op # "lookup"
        /\ f # None \/ call[t].op = "upload"
        /\ found' = [found EXCEPT ![t] = f]
        /\ Goto(t, NextCall(call[t].op))
  /\ UNCHANGED server
  /\ UNCHANGED local

-----------------------------------------------------------------------------
(* What Drive does with a request *)

\* Mutant: a repeated PUT sends what its first attempt left of the stream.
StreamReused(t) ==
  [op |-> call[t].op, file |-> found[t], dst |-> call[t].dst,
   content |-> IF attempt[t] = 0 THEN call[t].content ELSE Partial,
   number |-> lost]

\* The request of a task that is suspended in "put" or "change".
Request(t) ==
  [op |-> call[t].op, file |-> found[t], dst |-> call[t].dst,
   content |-> call[t].content, number |-> lost]

Accepts(q) ==
  IF q.op = "upload"
  THEN LET s == sessions[q.file] IN
       s.made # None \/ ~Purged(s.target)
  ELSE q.op = "purge" \/ ~Purged(q.file)

NewFile(p, c) == [place |-> p, content |-> c, state |-> "live"]

\* The content of a session: a new file, or the content and the name (not the
\* folder) of the one it was opened for.
ApplyPut(q) ==
  LET s == sessions[q.file] IN
  \/ s.made # None /\ UNCHANGED <<file, sessions>>
  \/ /\ s.made = None
     /\ s.target = None
     /\ \E f \in Files \ Known :
          /\ file' = [file EXCEPT ![f] = NewFile(s.place, q.content)]
          /\ sessions' = [sessions EXCEPT ![q.file].made = f]
  \/ /\ s.made = None
     /\ s.target # None
     /\ file' = [file EXCEPT ![s.target].content = q.content,
                             ![s.target].place.name = s.place.name]
     /\ sessions' = [sessions EXCEPT ![q.file].made = s.target]

ApplyChange(q) ==
  /\ CASE q.op = "trash" -> file' = [file EXCEPT ![q.file].state = "trashed"]
       [] q.op = "purge" -> file' = [file EXCEPT ![q.file].state = "purged"]
       [] q.op = "move" -> file' = [file EXCEPT ![q.file].place = q.dst]
       [] q.op = "copy" ->
            \E f \in Files \ Known :
              file' = [file EXCEPT ![f] = NewFile(q.dst, file[q.file].content)]
  /\ UNCHANGED sessions

\* BOUND: while there are ids left for new files.
Apply(q) ==
  /\ Accepts(q)
  /\ IF q.op = "upload" THEN ApplyPut(q) ELSE ApplyChange(q)

-----------------------------------------------------------------------------
(* The calls that change something, and their failures *)

\* initiate_resumable_upload: PATCH on the file found, or POST.
Initiate(t) ==
  /\ pc[t] = "initiate"
  /\ Len(sessions) < MaxSessions
  /\ ~Purged(found[t])
  /\ sessions' = Append(sessions, [target |-> found[t], place |-> call[t].place,
                                   made |-> None])
  /\ found' = [found EXCEPT ![t] = Len(sessions')]
  /\ Goto(t, "put")
  /\ UNCHANGED <<file, inAir, lost>>
  /\ UNCHANGED local

Changing == {"put", "change"}

Answered(t) ==
  /\ pc[t] \in Changing
  /\ Apply(Request(t))
  /\ End(t, "done")
  /\ UNCHANGED <<inAir, lost>>
  /\ UNCHANGED local

\* with_retry: another attempt, or RetryExhaustedError after the last one.
RetryOrFail(t) ==
  \/ /\ attempt[t] < MaxRetries
     /\ attempt' = [attempt EXCEPT ![t] = @ + 1]
     /\ UNCHANGED <<pc, call, found>>
  \/ /\ attempt[t] = MaxRetries
     /\ End(t, "failed")

Transient(t) ==
  /\ pc[t] \in {"find", "initiate"} \union Changing
  /\ RetryOrFail(t)
  /\ UNCHANGED server
  /\ UNCHANGED local

GiveUp(t) ==
  /\ pc[t] \in Changing
  /\ lost < MaxLost
  /\ inAir' = inAir \union {Request(t)}
  /\ lost' = lost + 1
  /\ UNCHANGED <<file, sessions>>

TimesOut(t) ==
  /\ GiveUp(t)
  /\ RetryOrFail(t)
  /\ UNCHANGED local

\* Any other answer, a 404 for a file that is gone among them, propagates.
Refused(t) ==
  /\ pc[t] \in {"find", "initiate"} \union Changing
  /\ End(t, "failed")
  /\ UNCHANGED server
  /\ UNCHANGED local

ApplyLate == \E q \in inAir :
  /\ inAir' = inAir \ {q}
  /\ \/ Apply(q)
     \/ ~Accepts(q) /\ UNCHANGED <<file, sessions>>
  /\ UNCHANGED lost
  /\ UNCHANGED task
  /\ UNCHANGED local

-----------------------------------------------------------------------------
(* download() *)

\* Mutant: the chunks are written to the destination itself.
OpenInPlace(t) ==
  /\ pc[t] = "open"
  /\ ~Purged(found[t])
  /\ part' = [part EXCEPT ![t] = file[found[t]].content]
  /\ disk' = Partial
  /\ Goto(t, "stream")
  /\ UNCHANGED <<found, litter>>
  /\ UNCHANGED server

\* mkstemp() and the request; Drive streams the content of this moment.
Open(t) ==
  /\ pc[t] = "open"
  /\ ~Purged(found[t])
  /\ part' = [part EXCEPT ![t] = file[found[t]].content]
  /\ Goto(t, "stream")
  /\ UNCHANGED <<found, disk, litter>>
  /\ UNCHANGED server

\* os.replace() after the last chunk.
Complete(t) ==
  /\ pc[t] = "stream"
  /\ disk' = part[t]
  /\ part' = [part EXCEPT ![t] = None]
  /\ End(t, "done")
  /\ UNCHANGED litter
  /\ UNCHANGED server

\* Not retried: an error, or the cancellation of the task, removes the
\* temporary file and propagates.
BreakOff(t) ==
  /\ pc[t] \in {"open", "stream"}
  /\ part' = [part EXCEPT ![t] = None]
  /\ End(t, "failed")
  /\ UNCHANGED <<disk, litter>>
  /\ UNCHANGED server

\* The process dies, perhaps with a request on its way.
Crash ==
  /\ \E t \in Tasks : pc[t] \notin Resting
  /\ \/ \E t \in Tasks : GiveUp(t)
     \/ UNCHANGED server
  /\ litter' = litter + Cardinality({t \in Tasks : part[t] # None})
  /\ litter' <= 1  \* BOUND
  /\ part' = [t \in Tasks |-> None]
  /\ pc' = [t \in Tasks |-> "idle"]
  /\ call' = [t \in Tasks |-> None]
  /\ found' = [t \in Tasks |-> None]
  /\ attempt' = [t \in Tasks |-> 0]
  /\ UNCHANGED disk

-----------------------------------------------------------------------------
Next ==
  \/ \E t \in Tasks :
       \/ Begin(t) \/ Find(t) \/ Initiate(t) \/ Answered(t)
       \/ Transient(t) \/ TimesOut(t) \/ Refused(t)
       \/ Open(t) \/ Complete(t) \/ BreakOff(t)
  \/ ApplyLate
  \/ Crash

Spec == Init /\ [][Next]_vars
=============================================================================
