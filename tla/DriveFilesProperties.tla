------------------------- MODULE DriveFilesProperties -------------------------
(***************************************************************************)
(* What the file operations of DriveFiles guarantee.                       *)
(***************************************************************************)
EXTENDS DriveFiles

\* A request that changes something, sent now or late.
RequestOK(q) ==
  /\ q.op \in {"upload", "trash", "purge", "copy", "move"}
  /\ IF q.op = "upload"
     THEN q.file \in 1..Len(sessions) /\ q.content \in Contents
     ELSE q.file \in Known
  /\ q.op \in {"copy", "move"} => q.dst \in Places

\* What Drive holds and what it is asked late: sessions name files it knows,
\* and a request a session or such a file.
ServerOK ==
  /\ file \in [Files -> [place : Places, content : Contents,
                        state : {"live", "trashed", "purged"}] \union {None}]
  /\ sessions \in Seq([target : Known \union {None}, place : Places,
                       made : Known \union {None}])
  /\ lost \in 0..MaxLost
  /\ \A q \in inAir : RequestOK(q) /\ q.number \in 0..(lost - 1)

\* What a task found is a file Drive knows, or a session it opened.
TaskOK(t) ==
  /\ pc[t] \notin Resting => call[t] \in Calls
  /\ pc[t] \in Resting \union {"find"} => found[t] = None
  /\ pc[t] = "initiate" => call[t].op = "upload" /\ found[t] \in Known \union {None}
  /\ pc[t] \in Changing => RequestOK(Request(t))
  /\ pc[t] \in {"open", "stream"} => call[t].op = "download" /\ found[t] \in Known
  /\ pc[t] = "stream" => part[t] \in Contents

\* Every variable has its type.
TypeOK ==
  /\ ServerOK
  /\ disk \in Contents \union {None, Partial}
  /\ part \in [Tasks -> Contents \union {None}]
  /\ litter \in Nat
  /\ pc \in [Tasks -> Resting \union Changing \union
                     {"find", "initiate", "open", "stream"}]
  /\ call \in [Tasks -> Calls \union {None}]
  /\ found \in [Tasks -> Files \union {None} \union (1..Len(sessions))]
  /\ attempt \in [Tasks -> 0..MaxRetries]
  /\ \A t \in Tasks : TaskOK(t)

\* Uploads make no second file of one name, but for callers who all looked
\* before any of them had sent its own, and for a PUT that was given up and is
\* applied after the next upload has looked (google_drive.py:317-331,
\* drive_api.py:114-116).
NamesTaken == \A p \in Places : Cardinality(At(p)) =< Cardinality(Tasks) + lost

\* The PUT of a task was applied before the one that is answered, and with a
\* second answer lost, a PUT of an earlier upload may have followed it.
Overtaken(t) == lost > 1 /\ sessions[found[t]].made # None

\* When an upload that no other task overlaps returns, its content is at its
\* path, however often its PUT was repeated, and whatever an earlier upload
\* left in the air, unless it was overtaken by that (google_drive.py:309-351).
UploadIsVisible ==
  [][\A t \in Tasks :
       (pc[t] = "put" /\ pc'[t] = "done" /\ ~Overtaken(t)) =>
         \E f \in Files : file'[f] = NewFile(call[t].place, call[t].content)]_vars

\* delete() without allow_permanent only acts inside SCRATCH_PREFIX
\* (google_drive.py:7-8, STORAGE_GOOGLE_DRIVE.md:76-77): no file of another
\* place is ever moved to the trash.
OnlyScratchIsTrashed ==
  [][\A f \in Known :
       (file[f].state = "live" /\ file'[f].state = "trashed")
         => file[f].place \in Scratch]_vars

\* A destination holds a complete copy or what it held before, and a .part
\* file outlives its download only if the process died
\* (google_drive.py:366-384).
LocalCopyIntact ==
  /\ disk # Partial
  /\ \A t \in Tasks : part[t] # None => pc[t] = "stream"

-----------------------------------------------------------------------------
(* Why they hold *)

\* Tasks, requests, sessions and the local copies fit together.
CallsFit == TypeOK /\ LocalCopyIntact

\* What callers ask for is what the provider lets through, and each call to
\* Drive belongs to its operation (google_drive.py:455-459).
CallsOK ==
  /\ \A t \in Tasks :
       /\ pc[t] \notin Resting => Permitted(call[t])
       /\ pc[t] = "put" => /\ call[t].op = "upload"
                           /\ sessions[found[t]].place = call[t].place
       /\ pc[t] = "change" => call[t].op # "upload"
  /\ \A q \in inAir : q.op \in Operations

\* Drive knows finitely many files, and has a request to apply late for each
\* answer that was lost, at most.
FewRequests ==
  /\ IsFiniteSet(Known)
  /\ IsFiniteSet(inAir)
  /\ Cardinality(inAir) =< lost

\* No operation changes the place of a file.
NothingMoves == Operations \cap {"copy", "move"} = {}

\* Sessions are for files that are where the upload looked.
SessionsInPlace == NothingMoves =>
  /\ \A i \in 1..Len(sessions) :
       sessions[i].target # None =>
         file[sessions[i].target].place = sessions[i].place
  /\ \A t \in Tasks :
       (pc[t] = "initiate" /\ found[t] # None) =>
         file[found[t]].place = call[t].place

\* Sessions whose content, once applied, is a new file at p, and those of
\* them that have a PUT in the air.
Fresh(p) ==
  {i \in 1..Len(sessions) :
     sessions[i].target = None /\ sessions[i].made = None /\ sessions[i].place = p}
Pending(p) == {i \in Fresh(p) : \E q \in inAir : q.op = "upload" /\ q.file = i}

\* Callers who found no file at p and have not yet sent their own.
Uploaders(p) ==
  {t \in Tasks :
     \/ pc[t] = "initiate" /\ found[t] = None /\ call[t].place = p
     \/ pc[t] = "put" /\ found[t] \in Fresh(p) \ Pending(p)}

\* A path has at most one file, there or to come, for each caller and each
\* lost answer.
NamesCounted == NothingMoves =>
  \A p \in Places :
    Cardinality(At(p)) + Cardinality(Pending(p)) + Cardinality(Uploaders(p))
      =< Cardinality(Tasks) + lost

\* There is one caller.
Alone == \A t, u \in Tasks : t = u

TransfersOnly == Operations \subseteq {"upload", "download", "lookup"}

\* While one answer at most is lost, a PUT that was applied before its answer
\* is the last thing that happened to its file.
UploadsIntact == (Alone /\ TransfersOnly) =>
  /\ \A f \in Known : file[f].state = "live"
  /\ \A t \in Tasks : pc[t] = "put" =>
       /\ \A q \in inAir : q.file = found[t] => q.content = call[t].content
       /\ sessions[found[t]].made # None =>
            \/ lost > 1
            \/ /\ lost = 1 /\ inAir = {}
               /\ file[sessions[found[t]].made] = NewFile(call[t].place, call[t].content)

\* While nobody disturbs a caller, what its lookup returned stays true until
\* the operation ends.
Undisturbed == (Alone /\ lost = 0) =>
  \A t \in Tasks :
    LET here == At(call[t].place) IN
    /\ pc[t] = "initiate" =>
         IF found[t] = None THEN here = {} ELSE found[t] \in here
    /\ pc[t] \in {"open", "change"} => found[t] \in here
    /\ pc[t] = "stream" => \E f \in here : part[t] = file[f].content
    /\ pc[t] = "put" =>
         /\ sessions[found[t]].made = None
         /\ IF sessions[found[t]].target = None THEN here = {}
            ELSE sessions[found[t]].target \in here

\* The inductive invariant.
IInv ==
  /\ CallsFit /\ CallsOK /\ FewRequests
  /\ SessionsInPlace /\ NamesCounted
  /\ UploadsIntact /\ Undisturbed
=============================================================================
