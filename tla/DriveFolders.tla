------------------------------ MODULE DriveFolders ------------------------------
(***************************************************************************)
(* Folder resolution of the Google Drive storage provider                  *)
(* (services/storage): asyncio tasks of one or more processes turn a       *)
(* logical path into a folder id, walking it segment by segment through    *)
(* the cache of their process and through calls to the Drive API, which    *)
(* has no "create folder if absent".                                       *)
(*                                                                         *)
(* A task suspends at an await: the lock, the access token, and each call  *)
(* to the API.  What runs between two awaits is one step.  Drive itself    *)
(* is external: a call takes effect at one instant, if at all, and its     *)
(* answer may be lost, so a request that timed out may still be executed.  *)
(***************************************************************************)
EXTENDS Integers, Sequences, FiniteSets

CONSTANTS
  Processes,    \* processes, each with one provider (factory.py)
  Slots,
  Tasks,        \* concurrent tasks, each a slot of a process
  Official,     \* OFFICIAL_TOP_LEVEL_FOLDERS
  Present,      \* the official folders that exist; each is its own id
  Paths,        \* the folder paths callers ask for, sequences of names
  FolderIds,    \* ids Drive may give to new folders
  Root,         \* google_drive_root_folder_id
  None,
  MaxRetries,   \* google_drive_max_retries
  MaxLost,      \* BOUND: requests that time out and may be executed late
  MaxRemoved    \* BOUND: folders a person removes

Ids == FolderIds \union Present
Names == Official \union UNION {{p[i] : i \in DOMAIN p} : p \in Paths}
Prefix(path, k) == SubSeq(path, 1, k)
Prefixes == UNION {{Prefix(path, k) : k \in 1..Len(path)} : path \in Paths}
FolderRecords == [parent : Ids \union {Root},
                  path : Prefixes \union {<<f>> : f \in Present},
                  live : BOOLEAN]

ASSUME FolderAssumption ==
  /\ IsFiniteSet(Processes) /\ Processes # {}
  /\ Tasks \subseteq Processes \X Slots
  /\ Present \subseteq Official
  /\ Paths \subseteq Seq(Names)
  /\ FolderIds \intersect Present = {}
  /\ {Root, None} \intersect Ids = {}
  /\ None \notin FolderRecords \union {Root}
  /\ MaxRetries \in Nat /\ MaxLost \in Nat /\ MaxRemoved \in Nat

VARIABLES
  drive,      \* id -> the folder [parent, path, live]; ids are never reused
  inAir,      \* create requests given up by the provider, not yet executed
  lost,       \* how many requests were given up so far
  removed,    \* how many folders were removed so far
  cache,      \* FolderIdCache of each process
  lock,       \* _path_create_lock: its holder, then the waiters, in order
  pc,         \* where a task is suspended
  path,       \* "segments"
  creating,   \* "create_missing"
  depth,      \* how many segments are resolved
  parent,     \* "parent_id": the folder they resolve to
  attempt     \* "attempt" of with_retry

server == <<drive, inAir, lost, removed>>
vars == <<drive, inAir, lost, removed, cache, lock, pc, path, creating, depth,
          parent, attempt>>

Folders == {f \in Ids : drive[f] # None}
Exists(f) == f = Root \/ (f \in Folders /\ drive[f].live)
PathOf(f) == IF f = Root THEN <<>> ELSE drive[f].path

Children(f, name) ==
  {g \in Folders : drive[g].live /\ drive[g].parent = f
                                 /\ drive[g].path = Append(PathOf(f), name)}

Init ==
  /\ drive = [f \in Ids |-> IF f \in Present
                            THEN [parent |-> Root, path |-> <<f>>, live |-> TRUE]
                            ELSE None]
  /\ inAir = {}
  /\ lost = 0
  /\ removed = 0
  /\ cache = [p \in Processes |-> [key \in Prefixes |-> None]]
  /\ lock = [p \in Processes |-> <<>>]
  /\ pc = [t \in Tasks |-> "idle"]
  /\ path = [t \in Tasks |-> <<>>]
  /\ creating = [t \in Tasks |-> FALSE]
  /\ depth = [t \in Tasks |-> 0]
  /\ parent = [t \in Tasks |-> Root]
  /\ attempt = [t \in Tasks |-> 0]

-----------------------------------------------------------------------------
(* Entering and leaving a resolution *)

Resting == {"idle", "resolved", "failed"}
CallStates == {"list", "create"}

\* Mutant: the lock is handed over only by a resolution that succeeds.
LockKept(t) ==
  IF creating[t] /\ pc'[t] = "resolved" THEN [lock EXCEPT ![t[1]] = Tail(@)] ELSE lock

\* Leaving "async with", normally or by an exception, passes the lock on.
LockPassedOn(t) ==
  IF creating[t] THEN [lock EXCEPT ![t[1]] = Tail(@)] ELSE lock

Begin(t) == \E p \in Paths, create \in BOOLEAN :
  /\ pc[t] \in Resting
  /\ pc' = [pc EXCEPT ![t] = "start"]
  /\ path' = [path EXCEPT ![t] = p]
  /\ creating' = [creating EXCEPT ![t] = create]
  /\ depth' = [depth EXCEPT ![t] = 0]
  /\ parent' = [parent EXCEPT ![t] = Root]
  /\ lock' = IF create THEN [lock EXCEPT ![t[1]] = Append(@, t)] ELSE lock
  /\ UNCHANGED <<cache, attempt>>
  /\ UNCHANGED server

Fail(t) ==
  /\ pc' = [pc EXCEPT ![t] = "failed"]
  /\ path' = [path EXCEPT ![t] = <<>>]
  /\ creating' = [creating EXCEPT ![t] = FALSE]
  /\ depth' = [depth EXCEPT ![t] = 0]
  /\ parent' = [parent EXCEPT ![t] = Root]
  /\ attempt' = [attempt EXCEPT ![t] = 0]
  /\ lock' = LockPassedOn(t)
  /\ UNCHANGED cache

\* Mutant: the key is the official folder and the last name.
ShortKey(p, k) == IF k = 1 THEN Prefix(p, 1) ELSE <<p[1], p[k]>>

\* "resolved": the logical path of the first k segments.
Key(p, k) == Prefix(p, k)

\* From depth d the entries of c take a walk along p to depth k, no further.
Reaches(c, p, d, k) ==
  /\ \A j \in (d + 1)..k : c[Key(p, j)] # None
  /\ k < Len(p) => c[Key(p, k + 1)] = None

\* Walk on; then return the id or suspend in list_children.
Advance(t, c, d) == \E k \in d..Len(path[t]) :
  /\ Reaches(c, path[t], d, k)
  /\ depth' = [depth EXCEPT ![t] = k]
  /\ parent' = [parent EXCEPT ![t] = IF k = 0 THEN Root ELSE c[Key(path[t], k)]]
  /\ attempt' = [attempt EXCEPT ![t] = 0]
  /\ pc' = [pc EXCEPT ![t] = IF k = Len(path[t]) THEN "resolved" ELSE "list"]
  /\ creating' = [creating EXCEPT ![t] = @ /\ k < Len(path[t])]
  /\ lock' = IF k = Len(path[t]) THEN LockPassedOn(t) ELSE lock
  /\ cache' = [cache EXCEPT ![t[1]] = c]
  /\ UNCHANGED path

\* Mutant: create_missing does not wait for the lock.
LockNotAwaited(t) == TRUE

LockAcquired(t) == creating[t] => Head(lock[t[1]]) = t

\* The checks made before anything is awaited.
Start(t) ==
  /\ pc[t] = "start"
  /\ LockAcquired(t)
  /\ \/ /\ path[t] = <<>>
        /\ Advance(t, cache[t[1]], 0)
     \/ /\ path[t] # <<>>
        /\ path[t][1] \notin Official
        /\ Fail(t)
     \/ /\ path[t] # <<>>
        /\ path[t][1] \in Official
        /\ pc' = [pc EXCEPT ![t] = "token"]
        /\ UNCHANGED <<cache, lock, path, creating, depth, parent, attempt>>
  /\ UNCHANGED server

\* _get_token() refreshes the token in a thread, or raises.
Token(t) ==
  /\ pc[t] = "token"
  /\ \/ Advance(t, cache[t[1]], 0)
     \/ Fail(t)
  /\ UNCHANGED server

-----------------------------------------------------------------------------
(* The calls to the Drive API *)

\* The segment being resolved, and the cache once it is found to be f.
Segment(t) == path[t][depth[t] + 1]
CacheSet(t, f) == [cache[t[1]] EXCEPT ![Key(path[t], depth[t] + 1)] = f]

\* matches[0] is any of the children of that name: the query sets no order.
ListFound(t) ==
  /\ pc[t] = "list"
  /\ Exists(parent[t])
  /\ \E f \in Children(parent[t], Segment(t)) :
       Advance(t, CacheSet(t, f), depth[t])
  /\ UNCHANGED server

\* Mutant: a missing folder is created whoever asks, wherever it is.
AlwaysCreates(t) == TRUE

MayCreate(t) == creating[t] /\ depth[t] > 0

ListEmpty(t) ==
  /\ pc[t] = "list"
  /\ Exists(parent[t])
  /\ Children(parent[t], Segment(t)) = {}
  /\ \/ /\ MayCreate(t)
        /\ pc' = [pc EXCEPT ![t] = "create"]
        /\ attempt' = [attempt EXCEPT ![t] = 0]
        /\ UNCHANGED <<cache, lock, path, creating, depth, parent>>
     \/ /\ ~MayCreate(t)
        /\ Fail(t)
  /\ UNCHANGED server

NewFolder(f, name) == [parent |-> f, path |-> Append(PathOf(f), name), live |-> TRUE]

\* The POST succeeds and is answered.  BOUND: while there are ids left.
Create(t) ==
  /\ pc[t] = "create"
  /\ Exists(parent[t])
  /\ \E f \in Ids \ Folders :
       /\ drive' = [drive EXCEPT ![f] = NewFolder(parent[t], Segment(t))]
       /\ Advance(t, CacheSet(t, f), depth[t])
  /\ UNCHANGED <<inAir, lost, removed>>

\* with_retry: another attempt, or RetryExhaustedError after the last one.
RetryOrFail(t) ==
  \/ /\ attempt[t] < MaxRetries
     /\ attempt' = [attempt EXCEPT ![t] = @ + 1]
     /\ UNCHANGED <<cache, lock, pc, path, creating, depth, parent>>
  \/ /\ attempt[t] = MaxRetries
     /\ Fail(t)

\* 429, 5xx or a transport error, and the request has no effect.
Transient(t) ==
  /\ pc[t] \in CallStates
  /\ RetryOrFail(t)
  /\ UNCHANGED server

\* A request is identified by its number among those given up.
GiveUp(t) ==
  /\ lost < MaxLost
  /\ inAir' = inAir \union {[number |-> lost, parent |-> parent[t], name |-> Segment(t)]}
  /\ lost' = lost + 1

\* The POST times out: for the provider a transport error like the others.
CreateTimesOut(t) ==
  /\ pc[t] = "create"
  /\ GiveUp(t)
  /\ RetryOrFail(t)
  /\ UNCHANGED <<drive, removed>>

\* Any other answer, a 404 for a removed folder among them, propagates.
Refused(t) ==
  /\ pc[t] \in CallStates
  /\ Fail(t)
  /\ UNCHANGED server

-----------------------------------------------------------------------------
(* Drive, people and restarts *)

\* Drive executes a request whose sender no longer waits for the answer.
ExecuteLate == \E q \in inAir :
  /\ inAir' = inAir \ {q}
  /\ IF Exists(q.parent)
     THEN \E f \in Ids \ Folders :
            drive' = [drive EXCEPT ![f] = NewFolder(q.parent, q.name)]
     ELSE UNCHANGED drive
  /\ UNCHANGED <<lost, removed, cache, lock, pc, path, creating, depth, parent,
                 attempt>>

\* A person removes a folder, a tree of them from the leaves up.
Remove == \E f \in Folders :
  /\ removed < MaxRemoved
  /\ drive[f].live
  /\ \A g \in Folders : drive[g].parent = f => ~drive[g].live
  /\ drive' = [drive EXCEPT ![f].live = FALSE]
  /\ removed' = removed + 1
  /\ UNCHANGED <<inAir, lost, cache, lock, pc, path, creating, depth, parent,
                 attempt>>

\* A process dies, perhaps with a POST on its way, and starts with no cache.
Restart(p) ==
  /\ \E t \in Tasks : t[1] = p /\ pc[t] # "idle"
  /\ \/ UNCHANGED <<inAir, lost>>
     \/ \E t \in Tasks : t[1] = p /\ pc[t] = "create" /\ GiveUp(t)
  /\ cache' = [cache EXCEPT ![p] = [key \in Prefixes |-> None]]
  /\ lock' = [lock EXCEPT ![p] = <<>>]
  /\ pc' = [t \in Tasks |-> IF t[1] = p THEN "idle" ELSE pc[t]]
  /\ path' = [t \in Tasks |-> IF t[1] = p THEN <<>> ELSE path[t]]
  /\ creating' = [t \in Tasks |-> IF t[1] = p THEN FALSE ELSE creating[t]]
  /\ depth' = [t \in Tasks |-> IF t[1] = p THEN 0 ELSE depth[t]]
  /\ parent' = [t \in Tasks |-> IF t[1] = p THEN Root ELSE parent[t]]
  /\ attempt' = [t \in Tasks |-> IF t[1] = p THEN 0 ELSE attempt[t]]
  /\ UNCHANGED <<drive, removed>>

-----------------------------------------------------------------------------
Answered(t) == ListFound(t) \/ ListEmpty(t) \/ Create(t)
TaskStep(t) ==
  Start(t) \/ Token(t) \/ Answered(t) \/ Transient(t) \/ CreateTimesOut(t)
    \/ Refused(t)

Next ==
  \/ \E t \in Tasks : Begin(t) \/ TaskStep(t)
  \/ ExecuteLate
  \/ Remove
  \/ \E p \in Processes : Restart(p)

Spec == Init /\ [][Next]_vars

\* The event loop resumes a task whose await is over; no caller has to call,
\* and no process has to die.
FairSpec == Spec /\ \A t \in Tasks : WF_vars(TaskStep(t))
=============================================================================
