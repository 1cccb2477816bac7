------------------------ MODULE DriveFoldersProperties ------------------------
(***************************************************************************)
(* What the folder resolution of DriveFolders guarantees.                  *)
(***************************************************************************)
EXTENDS DriveFolders

\* Every variable has its type: ids in the cache are ids of folders, a task
\* has resolved no more segments than it was given, and those in the queue of
\* a process's lock are creators of that process.
TypeOK ==
  /\ drive \in [Ids -> FolderRecords \union {None}]
  /\ lost \in 0..MaxLost /\ removed \in 0..MaxRemoved
  /\ \A q \in inAir : q.number \in 0..(lost - 1) /\ q.parent \in Folders
  /\ cache \in [Processes -> [Prefixes -> Folders \union {None}]]
  /\ lock \in [Processes -> Seq(Tasks)]
  /\ \A p \in Processes : \A i \in 1..Len(lock[p]) :
       lock[p][i][1] = p /\ creating[lock[p][i]]
  /\ pc \in [Tasks -> Resting \union CallStates \union {"start", "token"}]
  /\ path \in [Tasks -> Paths \union {<<>>}]
  /\ creating \in [Tasks -> BOOLEAN]
  /\ depth \in [Tasks -> Nat] /\ \A t \in Tasks : depth[t] =< Len(path[t])
  /\ parent \in [Tasks -> Folders \union {Root}]
  /\ attempt \in [Tasks -> 0..MaxRetries]

\* An id in the cache, or in a task's hands, is that of a folder with the
\* logical path it stands for, whatever was duplicated, lost or removed: as
\* long as no person renames or moves a folder in Drive, nothing is uploaded
\* under another path (google_drive.py:156-201).
FoldersNamePaths ==
  /\ \A p \in Processes, key \in Prefixes :
       cache[p][key] # None => PathOf(cache[p][key]) = key
  /\ \A t \in Tasks : PathOf(parent[t]) = Prefix(path[t], depth[t])

\* Of the tasks of one process that may create folders, at most one is past
\* the lock (google_drive.py:71-74, 136-140).
CreatorsTakeTurns ==
  \A t, u \in Tasks :
    (/\ t[1] = u[1]
     /\ creating[t] /\ pc[t] # "start"
     /\ creating[u] /\ pc[u] # "start") => t = u

(* The inductive invariant behind FoldersNamePaths and OnlyUploadersCreate *)

\* A request given up names a folder that some path asked for.
InAirOK == \A q \in inAir : Append(PathOf(q.parent), q.name) \in Prefixes

\* A task that calls Drive has a segment left, and one that creates was told
\* to and is below an official folder.
WalkOK ==
  \A t \in Tasks :
    /\ pc[t] \in CallStates => depth[t] < Len(path[t])
    /\ pc[t] = "create" => creating[t] /\ depth[t] > 0

\* A creator is in the queue of its lock once, at the head when it goes on.
LockOK ==
  /\ \A p \in Processes : \A i, j \in 1..Len(lock[p]) :
       lock[p][i] = lock[p][j] => i = j
  /\ \A t \in Tasks :
       /\ creating[t] => \E i \in 1..Len(lock[t[1]]) : lock[t[1]][i] = t
       /\ (creating[t] /\ pc[t] # "start") => Head(lock[t[1]]) = t
       /\ pc[t] \in Resting => ~creating[t]

\* Caches, walks, the queue of the lock and the requests given up fit together.
WalksFit == TypeOK /\ FoldersNamePaths /\ InAirOK /\ WalkOK /\ LockOK

\* A name is taken in a folder at most once for each process and once for
\* each POST that was given up: without timeouts one process never creates a
\* folder twice (google_drive.py:71-74, 136-140).
DuplicatesExplained ==
  \A f \in Folders :
    drive[f].live =>
      Cardinality({g \in Folders : drive[g].live /\ drive[g].parent = drive[f].parent
                                   /\ drive[g].path = drive[f].path})
        =< Cardinality(Processes) + lost

\* While no request was given up and no folder removed, the cache of a
\* single process is a subtree of Drive: the parent of a cached folder is the
\* one cached for the path above (google_drive.py:175-199).
CacheIsASubtree ==
  (lost = 0 /\ removed = 0) =>
    \A p \in Processes, key \in Prefixes :
      (Len(key) > 1 /\ cache[p][key] # None) =>
        cache[p][Prefix(key, Len(key) - 1)] = drive[cache[p][key]].parent

(* The inductive invariant behind DuplicatesExplained and CacheIsASubtree *)

\* A folder lies in one with the path above its own, which is there as long
\* as the folder is; a folder that is gone was removed.
TreeOK ==
  \A f \in Folders :
    /\ drive[f].parent \in Folders \union {Root}
    /\ PathOf(drive[f].parent) = Prefix(drive[f].path, Len(drive[f].path) - 1)
    /\ drive[f].live => Exists(drive[f].parent)
    /\ removed = 0 => drive[f].live

\* A cache that knows a folder knows the path to it, and knows all that a
\* task of its process has walked.
CacheClosed ==
  /\ \A p \in Processes, key \in Prefixes :
       (Len(key) > 1 /\ cache[p][key] # None)
         => cache[p][Prefix(key, Len(key) - 1)] # None
  /\ \A t \in Tasks :
       depth[t] > 0 => cache[t[1]][Prefix(path[t], depth[t])] # None

\* One process that loses no request makes each folder once: while one of its
\* tasks is about to create a folder, there is none of that path.
Alone == \A p, q \in Processes : p = q
MadeOnce ==
  (Alone /\ lost = 0) =>
    /\ \A f, g \in Folders :
         (drive[f].live /\ drive[g].live /\ drive[f].path = drive[g].path) => f = g
    /\ \A t \in Tasks : pc[t] = "create" =>
         \A f \in Folders :
           drive[f].live => drive[f].path # Prefix(path[t], depth[t] + 1)

\* Those who have taken a name of a folder, are about to, or may do so late.
Siblings(f, p) ==
  {g \in Folders : drive[g].live /\ drive[g].parent = f /\ drive[g].path = p}
Creators(f, p) ==
  {t \in Tasks : /\ pc[t] = "create" /\ parent[t] = f
                 /\ Prefix(path[t], depth[t] + 1) = p}
Requests(f, p) == {q \in inAir : q.parent = f /\ Append(PathOf(f), q.name) = p}

\* They are no more than the processes and the requests ever given up: when a
\* task sets out to create a folder there is none, each process has one task
\* that does, and each request given up has its number.
NamesCounted ==
  /\ \A q, r \in inAir : q.number = r.number => q = r
  /\ \A f \in Ids \union {Root}, p \in Prefixes \union {<<g>> : g \in Present} :
       /\ IsFiniteSet(Siblings(f, p))
       /\ Cardinality(Siblings(f, p)) + Cardinality(Creators(f, p))
            + Cardinality(Requests(f, p)) =< Cardinality(Processes) + lost

\* In every reachable state Drive, caches, walks and the queues of the locks
\* fit together: no folder is made that is not accounted for by a process or a
\* request given up (google_drive.py:136-201).
IInv == WalksFit /\ TreeOK /\ CacheClosed /\ MadeOnce /\ NamesCounted

\* Resolving never creates an official folder, and a resolution that was not
\* told to create never creates anything (STORAGE_GOOGLE_DRIVE.md:64-67).
NewFolders == {f \in Ids : drive[f] = None /\ drive'[f] # None}
OnlyUploadersCreate ==
  [][\A f \in NewFolders :
       /\ drive'[f].parent # Root
       /\ \/ \E t \in Tasks : creating[t] /\ pc[t] = "create" /\ pc'[t] # "create"
          \/ inAir' # inAir]_vars

\* "creation is serialised within each process to avoid local duplicates"
\* (STORAGE_GOOGLE_DRIVE.md:66-67): folders have different paths.
NoLocalDuplicates ==
  \A f, g \in Folders :
    (f # g /\ drive[f].live /\ drive[g].live) => drive[f].path # drive[g].path

\* Every resolution ends, with an id or with an exception: whatever fails,
\* the lock passes on to the one that waits (google_drive.py:136-140).
EveryResolutionEnds == \A t \in Tasks : pc[t] \notin Resting ~> pc[t] \in Resting
=============================================================================
