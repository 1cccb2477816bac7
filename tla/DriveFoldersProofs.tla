------------------------- MODULE DriveFoldersProofs -------------------------
(* Proofs about the folder resolution, for every value of its constants.     *)
EXTENDS DriveFoldersProperties, SequenceTheorems, FiniteSetTheorems, TLAPS

-----------------------------------------------------------------------------
(* Prefixes of paths *)

\* The first k names of a path that is asked for are a key of the cache.
LEMMA PrefixIsKey ==
  ASSUME NEW p \in Paths, NEW k \in 1..Len(p)
  PROVE  Prefix(p, k) \in Prefixes
  BY DEF Prefixes

LEMMA PrefixType ==
  ASSUME NEW p \in Paths \union {<<>>}, NEW k \in 0..Len(p)
  PROVE  /\ Prefix(p, k) \in Seq(Names)
         /\ Len(Prefix(p, k)) = k
         /\ k = 0 => Prefix(p, k) = <<>>
<1>1. p \in Seq(Names)
  BY FolderAssumption, EmptySeq
<1>2. Len(p) \in Nat
  BY <1>1
<1>3. /\ SubSeq(p, 1, k) \in Seq(Names)
      /\ Len(SubSeq(p, 1, k)) = k
  BY <1>1, <1>2 DEF Prefix
<1>4. k = 0 => SubSeq(p, 1, k) = <<>>
  BY <1>3, EmptySeq
<1> QED
  BY <1>3, <1>4 DEF Prefix

\* A walk that goes on by a segment has resolved one more name.
LEMMA PrefixExtends ==
  ASSUME NEW p \in Paths, NEW d \in 0..Len(p), d < Len(p)
  PROVE  Append(Prefix(p, d), p[d + 1]) = Prefix(p, d + 1)
<1>1. p \in Seq(Names) /\ Len(p) \in Nat
  BY FolderAssumption
<1>2. d + 1 \in 0..Len(p) /\ d \in Nat
  BY <1>1
<1> DEFINE a == Append(Prefix(p, d), p[d + 1])
           b == Prefix(p, d + 1)
<1>3. a \in Seq(Names) /\ b \in Seq(Names) /\ Len(a) = d + 1 /\ Len(b) = d + 1
  BY <1>1, <1>2, PrefixType
<1>4. \A i \in 1..(d + 1) : a[i] = b[i]
  BY <1>1, <1>2, PrefixType DEF Prefix
<1> QED
  BY <1>2, <1>3, <1>4, SeqEqual

-----------------------------------------------------------------------------
(* What all steps of Drive have in common *)

\* The path an id of the present state will have.
PathNext(f) == IF f = Root THEN <<>> ELSE drive'[f].path

\* A folder keeps its id and its path, whatever happens to it.
Kept == \A f \in Folders : f \in Folders' /\ PathNext(f) = PathOf(f)

\* The cache c and the segments it resolves are right for Drive as it will be.
Right(c) ==
  /\ c \in [Prefixes -> Folders' \union {None}]
  /\ \A key \in Prefixes : c[key] # None => PathNext(c[key]) = key

LEMMA NewFolderKept ==
  ASSUME WalksFit, NEW f \in Folders, NEW name, NEW g \in Ids \ Folders,
         Append(PathOf(f), name) \in Prefixes,
         drive' = [drive EXCEPT ![g] = NewFolder(f, name)]
  PROVE  /\ Kept
         /\ drive' \in [Ids -> FolderRecords \union {None}]
         /\ g \in Folders'
         /\ PathNext(g) = Append(PathOf(f), name)
<1>1. NewFolder(f, name) \in FolderRecords
  BY DEF NewFolder, FolderRecords, Folders
<1>2. drive \in [Ids -> FolderRecords \union {None}]
  BY DEF WalksFit, TypeOK
<1>3. None \notin FolderRecords /\ Root \notin Ids
  BY FolderAssumption
<1>4. NewFolder(f, name).path = Append(PathOf(f), name)
  BY DEF NewFolder
<1> QED
  BY <1>1, <1>2, <1>3, <1>4 DEF Kept, Folders, PathOf, PathNext

\* A cache that was right stays right, and with one more entry too.
LEMMA CacheStaysRight ==
  ASSUME WalksFit, Kept, NEW p \in Processes
  PROVE  Right(cache[p])
<1>1. cache[p] \in [Prefixes -> Folders \union {None}]
  BY DEF WalksFit, TypeOK
<1>2. \A key \in Prefixes : cache[p][key] # None => PathOf(cache[p][key]) = key
  BY DEF WalksFit, FoldersNamePaths
<1> QED
  BY <1>1, <1>2 DEF Right, Kept

LEMMA CacheSetRight ==
  ASSUME WalksFit, Kept, NEW t \in Tasks, pc[t] \in CallStates, NEW f \in Folders',
         PathNext(f) = Prefix(path[t], depth[t] + 1)
  PROVE  /\ path[t] \in Paths
         /\ Key(path[t], depth[t] + 1) \in Prefixes
         /\ Right(CacheSet(t, f))
         /\ CacheSet(t, f)[Key(path[t], depth[t] + 1)] # None
<1>1. t[1] \in Processes
  BY FolderAssumption
<1>2. path[t] \in Paths /\ depth[t] \in Nat /\ depth[t] < Len(path[t])
  BY EmptySeq DEF WalksFit, TypeOK, WalkOK
<1>3. Len(path[t]) \in Nat
  BY <1>2, FolderAssumption
<1>4. Key(path[t], depth[t] + 1) \in Prefixes
  BY <1>2, <1>3, PrefixIsKey DEF Key
<1>5. None \notin Ids
  BY FolderAssumption
<1>6. Right(cache[t[1]])
  BY <1>1, CacheStaysRight
<1>7. cache[t[1]] \in [Prefixes -> Folders' \union {None}]
  BY <1>6 DEF Right
<1>8. f # None
  BY <1>5 DEF Folders
<1> QED
  BY <1>2, <1>4, <1>6, <1>7, <1>8 DEF Right, CacheSet, Key

-----------------------------------------------------------------------------
(* The parts of the invariant *)

DriveInv ==
  /\ drive \in [Ids -> FolderRecords \union {None}]
  /\ lost \in 0..MaxLost /\ removed \in 0..MaxRemoved
  /\ \A q \in inAir : q.number \in 0..(lost - 1) /\ q.parent \in Folders
  /\ InAirOK

LockInv ==
  /\ lock \in [Processes -> Seq(Tasks)]
  /\ \A p \in Processes : \A i \in 1..Len(lock[p]) :
       lock[p][i][1] = p /\ creating[lock[p][i]]
  /\ LockOK

WalkInv ==
  /\ cache \in [Processes -> [Prefixes -> Folders \union {None}]]
  /\ pc \in [Tasks -> Resting \union CallStates \union {"start", "token"}]
  /\ path \in [Tasks -> Paths \union {<<>>}]
  /\ creating \in [Tasks -> BOOLEAN]
  /\ depth \in [Tasks -> Nat] /\ \A t \in Tasks : depth[t] =< Len(path[t])
  /\ parent \in [Tasks -> Folders \union {Root}]
  /\ attempt \in [Tasks -> 0..MaxRetries]
  /\ FoldersNamePaths
  /\ WalkOK

LEMMA Parts == WalksFit <=> (DriveInv /\ LockInv /\ WalkInv)
  BY DEF WalksFit, TypeOK, DriveInv, LockInv, WalkInv

LEMMA PartsNext == WalksFit' <=> (DriveInv' /\ LockInv' /\ WalkInv')
  BY DEF WalksFit, TypeOK, DriveInv, LockInv, WalkInv

-----------------------------------------------------------------------------
(* The lock *)

\* A task that may not go on, or does, without leaving the lock.
LEMMA LockUntouched ==
  ASSUME WalksFit, NEW t \in Tasks, NEW s,
         creating[t] /\ s # "start" => Head(lock[t[1]]) = t,
         s \in Resting => ~creating[t],
         pc' = [pc EXCEPT ![t] = s],
         UNCHANGED <<lock, creating>>
  PROVE  LockInv'
<1>1. pc \in [Tasks -> Resting \union CallStates \union {"start", "token"}]
  BY DEF WalksFit, TypeOK
<1>2. LockInv
  BY Parts
<1> QED
  BY <1>1, <1>2 DEF LockInv, LockOK

\* A task that ends leaves the lock to the next in the queue.
LEMMA LockLeft ==
  ASSUME WalksFit, NEW t \in Tasks, NEW s \in Resting,
         creating[t] => Head(lock[t[1]]) = t,
         pc' = [pc EXCEPT ![t] = s],
         creating' = [creating EXCEPT ![t] = FALSE],
         lock' = LockPassedOn(t)
  PROVE  LockInv'
<1>1. /\ pc \in [Tasks -> Resting \union CallStates \union {"start", "token"}]
      /\ creating \in [Tasks -> BOOLEAN]
      /\ t[1] \in Processes
  BY FolderAssumption DEF WalksFit, TypeOK
<1>2. LockInv
  BY Parts
<1>3. CASE ~creating[t]
  BY <1>1, <1>2, <1>3 DEF LockInv, LockOK, LockPassedOn
<1>4. CASE creating[t]
  <2> DEFINE q == lock[t[1]]
  <2>1. lock' = [lock EXCEPT ![t[1]] = Tail(q)]
    BY <1>4 DEF LockPassedOn
  <2>2. q \in Seq(Tasks) /\ q # <<>> /\ q[1] = t
    BY <1>1, <1>2, <1>4, EmptySeq DEF LockInv, LockOK
  <2>3. /\ Tail(q) \in Seq(Tasks)
        /\ Len(Tail(q)) = Len(q) - 1
        /\ \A i \in 1..Len(Tail(q)) : Tail(q)[i] = q[i + 1]
    BY <2>2, HeadTailProperties
  <2>4. Len(q) \in Nat \ {0}
    BY <2>2, EmptySeq
  <2>5. \A i \in 1..Len(Tail(q)) : Tail(q)[i] # t /\ i + 1 \in 1..Len(q)
    BY <1>1, <1>2, <2>2, <2>3, <2>4 DEF LockInv, LockOK
  <2>6. lock' \in [Processes -> Seq(Tasks)]
    BY <1>2, <2>1, <2>3 DEF LockInv
  <2>7. \A p \in Processes : \A i \in 1..Len(lock'[p]) :
          lock'[p][i][1] = p /\ creating'[lock'[p][i]]
    BY <1>1, <1>2, <2>1, <2>3, <2>5 DEF LockInv
  <2>8. \A p \in Processes : \A i, j \in 1..Len(lock'[p]) :
          lock'[p][i] = lock'[p][j] => i = j
    BY <1>1, <1>2, <2>1, <2>3, <2>4, <2>5 DEF LockInv, LockOK
  <2>9. \A r \in Tasks : creating'[r] => \E i \in 1..Len(lock'[r[1]]) : lock'[r[1]][i] = r
    <3> SUFFICES ASSUME NEW r \in Tasks, creating'[r]
                 PROVE  \E i \in 1..Len(lock'[r[1]]) : lock'[r[1]][i] = r
      OBVIOUS
    <3>1. creating[r] /\ r # t /\ r[1] \in Processes
      BY <1>1, FolderAssumption
    <3>2. PICK i \in 1..Len(lock[r[1]]) : lock[r[1]][i] = r
      BY <1>2, <3>1 DEF LockInv, LockOK
    <3>3. CASE r[1] # t[1]
      BY <1>1, <1>2, <2>1, <3>1, <3>2, <3>3 DEF LockInv
    <3>4. CASE r[1] = t[1]
      <4>1. i \in 1..Len(q) /\ q[i] = r /\ i # 1
        BY <2>2, <3>1, <3>2, <3>4
      <4>2. i - 1 \in 1..Len(Tail(q)) /\ Tail(q)[i - 1] = r
        BY <2>3, <2>4, <4>1
      <4>3. lock'[r[1]] = Tail(q)
        BY <1>1, <1>2, <2>1, <3>4 DEF LockInv
      <4> QED
        BY <4>2, <4>3
    <3> QED
      BY <3>3, <3>4
  <2>10. \A r \in Tasks : (creating'[r] /\ pc'[r] # "start") => Head(lock'[r[1]]) = r
    BY <1>1, <1>2, <1>4, <2>1, <2>2 DEF LockInv, LockOK
  <2>11. \A r \in Tasks : pc'[r] \in Resting => ~creating'[r]
    BY <1>1, <1>2 DEF LockInv, LockOK
  <2> QED
    BY <2>6, <2>7, <2>8, <2>9, <2>10, <2>11 DEF LockInv, LockOK
<1> QED
  BY <1>1, <1>3, <1>4

\* A task that begins and is told to create joins the queue.
LEMMA LockAwaited ==
  ASSUME WalksFit, NEW t \in Tasks, pc[t] \in Resting, NEW create \in BOOLEAN,
         pc' = [pc EXCEPT ![t] = "start"],
         creating' = [creating EXCEPT ![t] = create],
         lock' = IF create THEN [lock EXCEPT ![t[1]] = Append(@, t)] ELSE lock
  PROVE  LockInv'
<1>1. /\ pc \in [Tasks -> Resting \union CallStates \union {"start", "token"}]
      /\ creating \in [Tasks -> BOOLEAN]
      /\ t[1] \in Processes
  BY FolderAssumption DEF WalksFit, TypeOK
<1>2. LockInv
  BY Parts
<1>3. ~creating[t]
  BY <1>2 DEF LockInv, LockOK
<1>4. CASE ~create
  BY <1>1, <1>2, <1>3, <1>4 DEF LockInv, LockOK, Resting
<1>5. CASE create
  <2> DEFINE q == lock[t[1]]
             a == Append(q, t)
  <2>1. lock' = [lock EXCEPT ![t[1]] = a]
    BY <1>5
  <2>2. q \in Seq(Tasks) /\ Len(q) \in Nat
    BY <1>1, <1>2 DEF LockInv
  <2>3. /\ a \in Seq(Tasks)
        /\ Len(a) = Len(q) + 1
        /\ \A i \in 1..Len(q) : a[i] = q[i]
        /\ a[Len(q) + 1] = t
    BY <2>2, AppendProperties
  <2> HIDE DEF a
  <2>4. \A i \in 1..Len(q) : q[i] # t
    BY <1>1, <1>2, <1>3 DEF LockInv
  <2>5. lock' \in [Processes -> Seq(Tasks)]
    BY <1>2, <2>1, <2>3 DEF LockInv
  <2>6. \A p \in Processes \ {t[1]} : lock'[p] = lock[p]
    BY <1>2, <2>1 DEF LockInv
  <2>7. lock'[t[1]] = a
    BY <1>1, <1>2, <2>1 DEF LockInv
  <2>8. \A p \in Processes : \A i \in 1..Len(lock'[p]) :
          lock'[p][i][1] = p /\ creating'[lock'[p][i]]
    <3> SUFFICES ASSUME NEW p \in Processes, NEW i \in 1..Len(lock'[p])
                 PROVE  lock'[p][i][1] = p /\ creating'[lock'[p][i]]
      OBVIOUS
    <3>1. CASE p # t[1]
      <4>1. /\ lock'[p] = lock[p] /\ lock[p] \in Seq(Tasks)
            /\ lock[p][i][1] = p /\ creating[lock[p][i]]
        BY <1>2, <2>6, <3>1 DEF LockInv
      <4>2. lock[p][i] \in Tasks \ {t}
        BY <1>3, <3>1, <4>1
      <4> QED
        BY <1>1, <4>1, <4>2
    <3>2. CASE p = t[1] /\ i = Len(q) + 1
      BY <1>1, <1>5, <2>3, <2>7, <3>2
    <3>3. CASE p = t[1] /\ i # Len(q) + 1
      <4>1. /\ i \in 1..Len(q) /\ lock'[p][i] = q[i] /\ q[i] \in Tasks
            /\ q[i][1] = t[1] /\ creating[q[i]]
        BY <1>1, <1>2, <2>2, <2>3, <2>7, <3>3 DEF LockInv
      <4> QED
        BY <1>1, <2>4, <3>3, <4>1
    <3> QED
      BY <3>1, <3>2, <3>3
  <2>9. \A p \in Processes : \A i, j \in 1..Len(lock'[p]) :
          lock'[p][i] = lock'[p][j] => i = j
    <3>1. \A i, j \in 1..Len(q) : q[i] = q[j] => i = j
      BY <1>1, <1>2 DEF LockInv, LockOK
    <3>2. \A i, j \in 1..Len(a) : a[i] = a[j] => i = j
      BY <2>2, <2>3, <2>4, <3>1
    <3>3. ASSUME NEW p \in Processes \ {t[1]}, NEW i \in 1..Len(lock'[p]),
                 NEW j \in 1..Len(lock'[p]), lock'[p][i] = lock'[p][j]
          PROVE  i = j
      BY <1>2, <2>6, <3>3 DEF LockInv, LockOK
    <3>4. ASSUME NEW i \in 1..Len(lock'[t[1]]), NEW j \in 1..Len(lock'[t[1]]),
                 lock'[t[1]][i] = lock'[t[1]][j]
          PROVE  i = j
      BY <2>7, <3>2, <3>4
    <3> QED
      BY <3>3, <3>4
  <2>10. \A r \in Tasks : creating'[r] => \E i \in 1..Len(lock'[r[1]]) : lock'[r[1]][i] = r
    <3> SUFFICES ASSUME NEW r \in Tasks, creating'[r]
                 PROVE  \E i \in 1..Len(lock'[r[1]]) : lock'[r[1]][i] = r
      OBVIOUS
    <3>1. CASE r = t
      BY <2>2, <2>3, <2>7, <3>1
    <3>2. CASE r # t
      <4>1. creating[r] /\ r[1] \in Processes
        BY <1>1, <3>2, FolderAssumption
      <4>2. PICK i \in 1..Len(lock[r[1]]) : lock[r[1]][i] = r
        BY <1>2, <4>1 DEF LockInv, LockOK
      <4>3. i \in 1..Len(lock'[r[1]]) /\ lock'[r[1]][i] = r
        BY <2>2, <2>3, <2>6, <2>7, <4>1, <4>2
      <4> QED
        BY <4>3
    <3> QED
      BY <3>1, <3>2
  <2>11. \A r \in Tasks : (creating'[r] /\ pc'[r] # "start") => Head(lock'[r[1]]) = r
    <3> SUFFICES ASSUME NEW r \in Tasks, creating'[r], pc'[r] # "start"
                 PROVE  Head(lock'[r[1]]) = r
      OBVIOUS
    <3>1. r # t /\ creating[r] /\ r[1] \in Processes /\ Head(lock[r[1]]) = r
      BY <1>1, <1>2, FolderAssumption DEF LockInv, LockOK
    <3>2. PICK i \in 1..Len(lock[r[1]]) : lock[r[1]][i] = r
      BY <1>2, <3>1 DEF LockInv, LockOK
    <3>3. CASE r[1] # t[1]
      BY <2>6, <3>1, <3>3
    <3>4. CASE r[1] = t[1]
      <4>1. 1 \in 1..Len(q) /\ Head(q) = q[1] /\ Head(a) = a[1]
        BY <2>2, <2>3, <3>2, <3>4
      <4> QED
        BY <2>3, <2>7, <3>1, <3>4, <4>1
    <3> QED
      BY <3>3, <3>4
  <2>12. \A r \in Tasks : pc'[r] \in Resting => ~creating'[r]
    BY <1>1, <1>2 DEF LockInv, LockOK, Resting
  <2> QED
    BY <2>5, <2>8, <2>9, <2>10, <2>11, <2>12 DEF LockInv, LockOK
<1> QED
  BY <1>4, <1>5

-----------------------------------------------------------------------------
(* The walk *)

\* Ids that are not exchanged for others go on to name their paths.
LEMMA NamesStay ==
  ASSUME WalksFit, Kept, UNCHANGED <<cache, path, depth, parent>>
  PROVE  /\ cache' \in [Processes -> [Prefixes -> Folders' \union {None}]]
         /\ parent' \in [Tasks -> Folders' \union {Root}]
         /\ FoldersNamePaths'
<1>1. WalkInv
  BY Parts
<1>2. cache' \in [Processes -> [Prefixes -> Folders' \union {None}]]
  BY <1>1, CacheStaysRight DEF WalkInv, Right
<1>3. \A p \in Processes, key \in Prefixes :
        cache'[p][key] # None => PathNext(cache'[p][key]) = key
  BY CacheStaysRight DEF Right
<1>4. \A t \in Tasks : /\ parent'[t] \in Folders' \union {Root}
                       /\ PathNext(parent'[t]) = Prefix(path'[t], depth'[t])
  BY <1>1 DEF WalkInv, Kept, FoldersNamePaths, PathNext, PathOf
<1>5. parent' \in [Tasks -> Folders' \union {Root}]
  BY <1>1, <1>4 DEF WalkInv
<1>6. FoldersNamePaths'
  BY <1>3, <1>4 DEF FoldersNamePaths, PathNext, PathOf
<1> QED
  BY <1>2, <1>5, <1>6

\* Tasks that do not move stay right when Drive changes.
LEMMA WalkStays ==
  ASSUME WalksFit, Kept, UNCHANGED <<cache, pc, path, creating, depth, parent, attempt>>
  PROVE  WalkInv'
<1>1. WalkInv
  BY Parts
<1> QED
  BY <1>1, NamesStay DEF WalkInv, WalkOK

\* A task that stays at its folder, and suspends somewhere else or again.
LEMMA WalkStands ==
  ASSUME WalksFit, Kept, NEW t \in Tasks,
         NEW s \in Resting \union CallStates \union {"start", "token"},
         NEW a \in 0..MaxRetries,
         s \in CallStates => depth[t] < Len(path[t]),
         s = "create" => creating[t] /\ depth[t] > 0,
         pc' = [pc EXCEPT ![t] = s],
         attempt' = [attempt EXCEPT ![t] = a],
         UNCHANGED <<cache, path, creating, depth, parent>>
  PROVE  WalkInv'
<1>1. WalkInv
  BY Parts
<1>2. WalkOK'
  BY <1>1 DEF WalkInv, WalkOK
<1> QED
  BY <1>1, <1>2, NamesStay DEF WalkInv

\* A task that takes a step is right if it comes to stand on a folder with
\* the path of the segments it has resolved.
LEMMA WalkMoves ==
  ASSUME WalksFit, Kept, NEW t \in Tasks,
         NEW s \in Resting \union CallStates \union {"start", "token"},
         NEW p \in Paths \union {<<>>}, NEW b \in BOOLEAN, NEW d \in 0..Len(p),
         NEW f \in Folders' \union {Root}, NEW a \in 0..MaxRetries, NEW c, Right(c),
         PathNext(f) = Prefix(p, d),
         s \in CallStates => d < Len(p),
         s = "create" => b /\ d > 0,
         cache' = [cache EXCEPT ![t[1]] = c],
         pc' = [pc EXCEPT ![t] = s],
         path' = [path EXCEPT ![t] = p],
         creating' = [creating EXCEPT ![t] = b],
         depth' = [depth EXCEPT ![t] = d],
         parent' = [parent EXCEPT ![t] = f],
         attempt' = [attempt EXCEPT ![t] = a]
  PROVE  WalkInv'
<1>1. WalkInv /\ t[1] \in Processes
  BY Parts, FolderAssumption
<1>2. \A q \in Processes : Right(cache'[q])
  BY <1>1, CacheStaysRight DEF WalkInv
<1>3. /\ cache' \in [Processes -> [Prefixes -> Folders' \union {None}]]
      /\ \A q \in Processes, key \in Prefixes :
           cache'[q][key] # None => PathNext(cache'[q][key]) = key
  BY <1>1, <1>2 DEF WalkInv, Right
<1>4. \A r \in Tasks : /\ parent'[r] \in Folders' \union {Root}
                       /\ PathNext(parent'[r]) = Prefix(path'[r], depth'[r])
  BY <1>1 DEF WalkInv, Kept, FoldersNamePaths, PathNext, PathOf
<1>5. parent' \in [Tasks -> Folders' \union {Root}]
  BY <1>1, <1>4 DEF WalkInv
<1>6. FoldersNamePaths'
  BY <1>3, <1>4 DEF FoldersNamePaths, PathNext, PathOf
<1>7. WalkOK'
  BY <1>1 DEF WalkInv, WalkOK
<1>8. /\ pc' \in [Tasks -> Resting \union CallStates \union {"start", "token"}]
      /\ path' \in [Tasks -> Paths \union {<<>>}]
      /\ creating' \in [Tasks -> BOOLEAN]
      /\ attempt' \in [Tasks -> 0..MaxRetries]
      /\ depth' \in [Tasks -> Nat] /\ \A r \in Tasks : depth'[r] =< Len(path'[r])
  BY <1>1 DEF WalkInv
<1> QED
  BY <1>3, <1>5, <1>6, <1>7, <1>8 DEF WalkInv

\* An exception leaves the walk, and the lock to the next in the queue.
LEMMA FailKeeps ==
  ASSUME WalksFit, Kept, NEW t \in Tasks,
         creating[t] => Head(lock[t[1]]) = t,
         Fail(t)
  PROVE  LockInv' /\ WalkInv'
<1>1. LockInv'
  BY LockLeft DEF Fail, Resting
<1>2. WalkInv /\ t[1] \in Processes
  BY Parts, FolderAssumption
<1>3. /\ <<>> \in Paths \union {<<>>} /\ 0 \in 0..Len(<<>>)
      /\ Prefix(<<>>, 0) = <<>> /\ PathNext(Root) = <<>>
  BY EmptySeq, PrefixType DEF PathNext
<1>4. 0 \in 0..MaxRetries /\ Right(cache[t[1]])
  BY <1>2, CacheStaysRight, FolderAssumption
<1>5. cache' = [cache EXCEPT ![t[1]] = cache[t[1]]]
  BY <1>2 DEF Fail, WalkInv
<1>6. WalkInv'
  BY <1>3, <1>4, <1>5, WalkMoves DEF Fail, Resting, CallStates
<1> QED
  BY <1>1, <1>6

\* A walk along right entries from the root, or over a segment just found.
LEMMA AdvanceKeeps ==
  ASSUME WalksFit, Kept, NEW t \in Tasks,
         creating[t] => Head(lock[t[1]]) = t,
         NEW c, Right(c),
         NEW d \in 0..Len(path[t]),
         d = 0 \/ (d < Len(path[t]) /\ c[Key(path[t], d + 1)] # None),
         Advance(t, c, d)
  PROVE  LockInv' /\ WalkInv'
<1>1. WalkInv /\ t[1] \in Processes
  BY Parts, FolderAssumption
<1> DEFINE p == path[t]
<1>2. p \in Paths \union {<<>>} /\ p \in Seq(Names) /\ Len(p) \in Nat
  <2>1. p \in Paths \union {<<>>}
    BY <1>1 DEF WalkInv
  <2>2. p \in Seq(Names)
    BY <2>1, EmptySeq, FolderAssumption
  <2> QED
    BY <2>1, <2>2
<1>3. PICK k \in d..Len(p) :
        /\ Reaches(c, p, d, k)
        /\ depth' = [depth EXCEPT ![t] = k]
        /\ parent' = [parent EXCEPT ![t] = IF k = 0 THEN Root ELSE c[Key(p, k)]]
        /\ attempt' = [attempt EXCEPT ![t] = 0]
        /\ pc' = [pc EXCEPT ![t] = IF k = Len(p) THEN "resolved" ELSE "list"]
        /\ creating' = [creating EXCEPT ![t] = @ /\ k < Len(p)]
        /\ lock' = IF k = Len(p) THEN LockPassedOn(t) ELSE lock
        /\ cache' = [cache EXCEPT ![t[1]] = c]
        /\ UNCHANGED path
  BY DEF Advance
<1> DEFINE f == IF k = 0 THEN Root ELSE c[Key(p, k)]
<1>4. k \in 0..Len(p) /\ k \in Nat
  BY <1>2, <1>3
<1>5. f \in Folders' \union {Root} /\ PathNext(f) = Prefix(p, k)
  <2>1. CASE k = 0
    BY <1>2, <2>1, PrefixType DEF PathNext
  <2>2. CASE k > 0
    <3>1. p \in Paths /\ Prefix(p, k) \in Prefixes
      BY <1>2, <1>4, <2>2, EmptySeq, PrefixIsKey
    <3>2. c[Key(p, k)] # None
      BY <1>2, <1>3, <1>4, <2>2 DEF Reaches
    <3> QED
      BY <2>2, <3>1, <3>2 DEF Right, Key
  <2> QED
    BY <1>4, <2>1, <2>2
<1>6. LockInv'
  <2>1. CASE k = Len(p)
    <3>1. /\ pc' = [pc EXCEPT ![t] = "resolved"]
          /\ creating' = [creating EXCEPT ![t] = FALSE]
          /\ lock' = LockPassedOn(t)
      <4>1. ~(k < Len(p))
        BY <1>2, <2>1
      <4>2. (creating[t] /\ k < Len(p)) = FALSE
        BY <4>1
      <4> HIDE DEF p
      <4> QED
        BY <1>3, <2>1, <4>2
    <3> QED
      BY <3>1, LockLeft DEF Resting
  <2>2. CASE k # Len(p)
    <3>1. /\ pc' = [pc EXCEPT ![t] = "list"]
          /\ creating' = [creating EXCEPT ![t] = creating[t]]
          /\ lock' = lock
      <4>1. k < Len(p)
        BY <1>2, <1>4, <2>2
      <4>2. (creating[t] /\ k < Len(p)) = creating[t]
        BY <1>1, <4>1 DEF WalkInv
      <4> HIDE DEF p
      <4> QED
        BY <1>3, <2>2, <4>2
    <3>2. creating' = creating
      BY <1>1, <3>1 DEF WalkInv
    <3> QED
      BY <3>1, <3>2, LockUntouched DEF Resting
  <2> QED
    BY <2>1, <2>2
<1>7. WalkInv'
  <2> DEFINE s == IF k = Len(p) THEN "resolved" ELSE "list"
             b == creating[t] /\ k < Len(p)
  <2>1. s \in Resting \union CallStates \union {"start", "token"} /\ b \in BOOLEAN
    BY DEF Resting, CallStates
  <2>2. (s \in CallStates => k < Len(p)) /\ s # "create"
    BY <1>2, <1>4 DEF CallStates
  <2>3. path' = [path EXCEPT ![t] = p]
    BY <1>1, <1>3 DEF WalkInv
  <2>4. 0 \in 0..MaxRetries
    BY FolderAssumption
  <2>5. /\ depth' = [depth EXCEPT ![t] = k] /\ parent' = [parent EXCEPT ![t] = f]
        /\ attempt' = [attempt EXCEPT ![t] = 0] /\ pc' = [pc EXCEPT ![t] = s]
        /\ creating' = [creating EXCEPT ![t] = b]
        /\ cache' = [cache EXCEPT ![t[1]] = c]
    BY <1>3
  <2> HIDE DEF s, b, f, p
  <2> QED
    BY <1>2, <1>4, <1>5, <2>1, <2>2, <2>3, <2>4, <2>5, WalkMoves
<1> QED
  BY <1>6, <1>7

-----------------------------------------------------------------------------
(* The steps *)

LEMMA InitFits == Init => WalksFit
<1> SUFFICES ASSUME Init PROVE WalksFit
  OBVIOUS
<1>2. DriveInv
  <2>1. drive \in [Ids -> FolderRecords \union {None}]
    <3>1. ASSUME NEW f \in Present
          PROVE  [parent |-> Root, path |-> <<f>>, live |-> TRUE] \in FolderRecords
      <4>1. <<f>> \in Prefixes \union {<<g>> : g \in Present}
        OBVIOUS
      <4> QED
        BY <4>1 DEF FolderRecords
    <3> QED
      BY <3>1 DEF Init
  <2> QED
    BY <2>1, FolderAssumption DEF Init, DriveInv, InAirOK
<1>3. LockInv
  BY EmptySeq DEF Init, LockInv, LockOK
<1>4. WalkInv
  <2>1. Len(<<>>) = 0 /\ 0 \in 0..MaxRetries
    BY EmptySeq, FolderAssumption
  <2>2. Prefix(<<>>, 0) = <<>>
    BY <2>1, PrefixType
  <2>3. FoldersNamePaths
    BY <2>2 DEF Init, FoldersNamePaths, PathOf
  <2>4. WalkOK
    BY DEF Init, WalkOK, CallStates
  <2> QED
    BY <2>1, <2>3, <2>4 DEF Init, WalkInv, Resting
<1> QED
  BY <1>2, <1>3, <1>4, Parts

\* A step that leaves Drive alone keeps its folders.
LEMMA ServerStays ==
  ASSUME WalksFit, UNCHANGED server
  PROVE  Kept /\ DriveInv'
<1>1. DriveInv
  BY Parts
<1> QED
  BY <1>1 DEF server, Kept, Folders, PathOf, PathNext, DriveInv, InAirOK

\* A task that has left "start" has the lock if it needs it.
LEMMA HasLock ==
  ASSUME WalksFit, NEW t \in Tasks, pc[t] # "start"
  PROVE  creating[t] => Head(lock[t[1]]) = t
  BY DEF WalksFit, LockOK

LEMMA BeginStep ==
  ASSUME WalksFit, NEW t \in Tasks, Begin(t)
  PROVE  WalksFit'
<1>1. Kept /\ DriveInv'
  BY ServerStays DEF Begin
<1>2. WalkInv /\ t[1] \in Processes
  BY Parts, FolderAssumption
<1>3. PICK p \in Paths, create \in BOOLEAN :
        /\ pc[t] \in Resting
        /\ pc' = [pc EXCEPT ![t] = "start"]
        /\ path' = [path EXCEPT ![t] = p]
        /\ creating' = [creating EXCEPT ![t] = create]
        /\ depth' = [depth EXCEPT ![t] = 0]
        /\ parent' = [parent EXCEPT ![t] = Root]
        /\ lock' = IF create THEN [lock EXCEPT ![t[1]] = Append(@, t)] ELSE lock
        /\ UNCHANGED <<cache, attempt>>
  BY DEF Begin
<1>4. LockInv'
  BY <1>3, LockAwaited
<1>5. p \in Seq(Names) /\ 0 \in 0..Len(p) /\ Prefix(p, 0) = <<>>
  <2>1. p \in Seq(Names) /\ 0 \in 0..Len(p)
    BY FolderAssumption
  <2> QED
    BY <2>1, PrefixType
<1>6. /\ cache' = [cache EXCEPT ![t[1]] = cache[t[1]]]
      /\ attempt' = [attempt EXCEPT ![t] = attempt[t]]
      /\ attempt[t] \in 0..MaxRetries
      /\ PathNext(Root) = <<>>
  BY <1>2, <1>3 DEF WalkInv, PathNext
<1>7. Right(cache[t[1]])
  BY <1>1, <1>2, CacheStaysRight
<1>8. WalkInv'
  BY <1>1, <1>3, <1>5, <1>6, <1>7, WalkMoves DEF CallStates
<1> QED
  BY <1>1, <1>4, <1>8, PartsNext

LEMMA StartStep ==
  ASSUME WalksFit, NEW t \in Tasks, Start(t)
  PROVE  WalksFit'
<1>1. Kept /\ DriveInv'
  BY ServerStays DEF Start
<1>2. WalkInv /\ t[1] \in Processes
  BY Parts, FolderAssumption
<1>3. creating[t] => Head(lock[t[1]]) = t
  BY DEF Start, LockAcquired
<1>4. CASE Advance(t, cache[t[1]], 0)
  <2>1. Right(cache[t[1]])
    BY <1>1, <1>2, CacheStaysRight
  <2>2. 0 \in 0..Len(path[t])
    BY <1>2, EmptySeq, FolderAssumption DEF WalkInv
  <2> QED
    BY <1>1, <1>3, <1>4, <2>1, <2>2, AdvanceKeeps, PartsNext
<1>5. CASE Fail(t)
  BY <1>1, <1>3, <1>5, FailKeeps, PartsNext
<1>6. CASE /\ pc' = [pc EXCEPT ![t] = "token"]
           /\ UNCHANGED <<cache, lock, path, creating, depth, parent, attempt>>
  <2>1. LockInv'
    BY <1>3, <1>6, LockUntouched DEF Resting
  <2>2. WalkInv'
    BY <1>1, <1>2, <1>6, ServerStays DEF WalkInv, FoldersNamePaths, WalkOK, CallStates,
       Start, server, Folders, PathOf
  <2> QED
    BY <1>1, <2>1, <2>2, PartsNext
<1> QED
  BY <1>4, <1>5, <1>6 DEF Start

LEMMA TokenStep ==
  ASSUME WalksFit, NEW t \in Tasks, Token(t)
  PROVE  WalksFit'
<1>1. Kept /\ DriveInv'
  BY ServerStays DEF Token
<1>2. WalkInv /\ t[1] \in Processes
  BY Parts, FolderAssumption
<1>3. creating[t] => Head(lock[t[1]]) = t
  BY HasLock DEF Token
<1>4. CASE Advance(t, cache[t[1]], 0)
  <2>1. Right(cache[t[1]])
    BY <1>1, <1>2, CacheStaysRight
  <2>2. 0 \in 0..Len(path[t])
    BY <1>2, EmptySeq, FolderAssumption DEF WalkInv
  <2> QED
    BY <1>1, <1>3, <1>4, <2>1, <2>2, AdvanceKeeps, PartsNext
<1>5. CASE Fail(t)
  BY <1>1, <1>3, <1>5, FailKeeps, PartsNext
<1> QED
  BY <1>4, <1>5 DEF Token

\* What a task asks Drive for is the next prefix of its path.
LEMMA NextSegment ==
  ASSUME WalksFit, NEW t \in Tasks, pc[t] \in CallStates
  PROVE  /\ Append(PathOf(parent[t]), Segment(t)) = Prefix(path[t], depth[t] + 1)
         /\ Prefix(path[t], depth[t] + 1) \in Prefixes
         /\ depth[t] \in 0..Len(path[t]) /\ depth[t] < Len(path[t])
         /\ parent[t] \in Folders \union {Root}
         /\ pc[t] = "create" => parent[t] \in Folders
<1>1. path[t] \in Paths /\ depth[t] \in Nat /\ depth[t] < Len(path[t])
  BY EmptySeq DEF WalksFit, TypeOK, WalkOK
<1>2. Len(path[t]) \in Nat
  BY <1>1, FolderAssumption
<1>3. Prefix(path[t], depth[t] + 1) \in Prefixes
  BY <1>1, <1>2, PrefixIsKey
<1>4. PathOf(parent[t]) = Prefix(path[t], depth[t]) /\ parent[t] \in Folders \union {Root}
  BY DEF WalksFit, TypeOK, FoldersNamePaths
<1>5. Append(PathOf(parent[t]), Segment(t)) = Prefix(path[t], depth[t] + 1)
  BY <1>1, <1>2, <1>4, PrefixExtends DEF Segment
<1>6. ASSUME pc[t] = "create" PROVE parent[t] \in Folders
  <2>1. Len(Prefix(path[t], depth[t])) = depth[t] /\ depth[t] > 0
    BY <1>1, <1>2, <1>6, PrefixType DEF WalksFit, WalkOK
  <2>2. parent[t] # Root
    BY <1>4, <2>1, EmptySeq DEF PathOf
  <2> QED
    BY <1>4, <2>2
<1> QED
  BY <1>1, <1>2, <1>3, <1>4, <1>5, <1>6

LEMMA RetryKeeps ==
  ASSUME WalksFit, Kept, NEW t \in Tasks, pc[t] \in CallStates, RetryOrFail(t)
  PROVE  LockInv' /\ WalkInv'
<1>1. creating[t] => Head(lock[t[1]]) = t
  BY HasLock DEF CallStates
<1>2. CASE /\ attempt[t] < MaxRetries
           /\ attempt' = [attempt EXCEPT ![t] = @ + 1]
           /\ UNCHANGED <<cache, lock, pc, path, creating, depth, parent>>
  <2>1. WalkInv /\ t[1] \in Processes
    BY Parts, FolderAssumption
  <2>2. LockInv'
    BY <1>2, Parts DEF LockInv, LockOK
  <2>3. /\ pc' = [pc EXCEPT ![t] = pc[t]]
        /\ attempt' = [attempt EXCEPT ![t] = attempt[t] + 1]
        /\ pc[t] \in Resting \union CallStates \union {"start", "token"}
        /\ attempt[t] + 1 \in 0..MaxRetries
    BY <1>2, <2>1, FolderAssumption DEF WalkInv
  <2>4. depth[t] < Len(path[t]) /\ (pc[t] = "create" => creating[t] /\ depth[t] > 0)
    BY DEF WalksFit, WalkOK
  <2>5. WalkInv'
    BY <1>2, <2>3, <2>4, WalkStands
  <2> QED
    BY <2>2, <2>5
<1>3. CASE Fail(t)
  BY <1>1, <1>3, FailKeeps
<1> QED
  BY <1>2, <1>3 DEF RetryOrFail

LEMMA ListFoundStep ==
  ASSUME WalksFit, NEW t \in Tasks, ListFound(t)
  PROVE  WalksFit'
<1>1. Kept /\ DriveInv' /\ pc[t] \in CallStates
  BY ServerStays DEF ListFound, CallStates
<1>2. creating[t] => Head(lock[t[1]]) = t
  BY HasLock DEF ListFound
<1>3. PICK f \in Children(parent[t], Segment(t)) : Advance(t, CacheSet(t, f), depth[t])
  BY DEF ListFound
<1>4. f \in Folders' /\ PathNext(f) = Prefix(path[t], depth[t] + 1)
  <2>1. f \in Folders /\ drive[f].path = Prefix(path[t], depth[t] + 1) /\ f # Root
    BY <1>1, NextSegment, FolderAssumption DEF Children, Folders
  <2> QED
    BY <1>1, <2>1 DEF Kept, PathOf
<1>5. /\ Right(CacheSet(t, f))
      /\ CacheSet(t, f)[Key(path[t], depth[t] + 1)] # None
  BY <1>1, <1>4, CacheSetRight
<1>6. depth[t] \in 0..Len(path[t]) /\ depth[t] < Len(path[t])
  BY <1>1, NextSegment
<1> QED
  BY <1>1, <1>2, <1>3, <1>5, <1>6, AdvanceKeeps, PartsNext

LEMMA ListEmptyStep ==
  ASSUME WalksFit, NEW t \in Tasks, ListEmpty(t)
  PROVE  WalksFit'
<1>1. Kept /\ DriveInv' /\ pc[t] \in CallStates /\ pc[t] # "start"
  BY ServerStays DEF ListEmpty, CallStates
<1>2. creating[t] => Head(lock[t[1]]) = t
  BY <1>1, HasLock
<1>3. CASE /\ MayCreate(t)
           /\ pc' = [pc EXCEPT ![t] = "create"]
           /\ attempt' = [attempt EXCEPT ![t] = 0]
           /\ UNCHANGED <<cache, lock, path, creating, depth, parent>>
  <2>1. LockInv'
    BY <1>2, <1>3, LockUntouched DEF Resting
  <2>2. depth[t] < Len(path[t]) /\ creating[t] /\ depth[t] > 0
    BY <1>1, <1>3, NextSegment DEF MayCreate
  <2>3. 0 \in 0..MaxRetries /\ "create" \in Resting \union CallStates \union {"start", "token"}
    BY FolderAssumption DEF CallStates
  <2>4. WalkInv'
    BY <1>1, <1>3, <2>2, <2>3, WalkStands
  <2> QED
    BY <1>1, <2>1, <2>4, PartsNext
<1>4. CASE Fail(t)
  BY <1>1, <1>2, <1>4, FailKeeps, PartsNext
<1> QED
  BY <1>3, <1>4 DEF ListEmpty

\* Requests given up still name folders that were asked for when Drive grows.
LEMMA InAirStays ==
  ASSUME WalksFit, Kept, drive' \in [Ids -> FolderRecords \union {None}],
         inAir' \subseteq inAir, lost' = lost, removed' \in 0..MaxRemoved
  PROVE  DriveInv'
<1>1. DriveInv
  BY Parts
<1>2. \A q \in inAir' : /\ q.number \in 0..(lost' - 1) /\ q.parent \in Folders'
                        /\ PathNext(q.parent) = PathOf(q.parent)
  BY <1>1 DEF DriveInv, Kept
<1>3. InAirOK'
  BY <1>1, <1>2 DEF DriveInv, InAirOK, PathNext, PathOf
<1> QED
  BY <1>1, <1>2, <1>3 DEF DriveInv

LEMMA CreateStep ==
  ASSUME WalksFit, NEW t \in Tasks, Create(t)
  PROVE  WalksFit'
<1>1. pc[t] \in CallStates /\ pc[t] = "create" /\ pc[t] # "start"
  BY DEF Create, CallStates
<1>2. creating[t] => Head(lock[t[1]]) = t
  BY <1>1, HasLock
<1>3. PICK f \in Ids \ Folders :
        /\ drive' = [drive EXCEPT ![f] = NewFolder(parent[t], Segment(t))]
        /\ Advance(t, CacheSet(t, f), depth[t])
  BY DEF Create
<1>4. /\ parent[t] \in Folders
      /\ Append(PathOf(parent[t]), Segment(t)) = Prefix(path[t], depth[t] + 1)
      /\ Append(PathOf(parent[t]), Segment(t)) \in Prefixes
      /\ depth[t] \in 0..Len(path[t]) /\ depth[t] < Len(path[t])
  BY <1>1, NextSegment
<1>5. /\ Kept /\ drive' \in [Ids -> FolderRecords \union {None}]
      /\ f \in Folders' /\ PathNext(f) = Prefix(path[t], depth[t] + 1)
  BY <1>3, <1>4, NewFolderKept
<1>6. DriveInv'
  BY <1>5, InAirStays DEF Create, WalksFit, TypeOK
<1>7. /\ Right(CacheSet(t, f))
      /\ CacheSet(t, f)[Key(path[t], depth[t] + 1)] # None
  BY <1>1, <1>5, CacheSetRight
<1> QED
  BY <1>2, <1>3, <1>4, <1>5, <1>6, <1>7, AdvanceKeeps, PartsNext

LEMMA TransientStep ==
  ASSUME WalksFit, NEW t \in Tasks, Transient(t)
  PROVE  WalksFit'
  BY ServerStays, RetryKeeps, PartsNext DEF Transient

LEMMA GiveUpKeeps ==
  ASSUME WalksFit, NEW t \in Tasks, pc[t] = "create", GiveUp(t), UNCHANGED <<drive, removed>>
  PROVE  Kept /\ DriveInv'
<1>1. DriveInv
  BY Parts
<1>2. Kept /\ Folders' = Folders /\ \A f : PathOf(f)' = PathOf(f)
  BY DEF Kept, Folders, PathOf, PathNext
<1>3. parent[t] \in Folders /\ Append(PathOf(parent[t]), Segment(t)) \in Prefixes
  BY NextSegment DEF CallStates
<1>4. lost \in Nat /\ lost' = lost + 1 /\ lost' \in 0..MaxLost
  BY <1>1, FolderAssumption DEF GiveUp, DriveInv
<1>5. ASSUME NEW q \in inAir'
      PROVE  /\ q.number \in 0..(lost' - 1) /\ q.parent \in Folders
             /\ Append(PathOf(q.parent), q.name) \in Prefixes
  <2>1. CASE q \in inAir
    BY <1>1, <1>4, <2>1 DEF DriveInv, InAirOK
  <2>2. CASE q = [number |-> lost, parent |-> parent[t], name |-> Segment(t)]
    BY <1>3, <1>4, <2>2
  <2> QED
    BY <2>1, <2>2 DEF GiveUp
<1>6. InAirOK'
  BY <1>2, <1>5 DEF InAirOK
<1> QED
  BY <1>1, <1>2, <1>4, <1>5, <1>6 DEF DriveInv

LEMMA CreateTimesOutStep ==
  ASSUME WalksFit, NEW t \in Tasks, CreateTimesOut(t)
  PROVE  WalksFit'
  BY GiveUpKeeps, RetryKeeps, PartsNext DEF CreateTimesOut, CallStates

LEMMA RefusedStep ==
  ASSUME WalksFit, NEW t \in Tasks, Refused(t)
  PROVE  WalksFit'
<1>1. Kept /\ DriveInv'
  BY ServerStays DEF Refused
<1>2. creating[t] => Head(lock[t[1]]) = t
  BY HasLock DEF Refused, CallStates
<1> QED
  BY <1>1, <1>2, FailKeeps, PartsNext DEF Refused

LEMMA ExecuteLateStep ==
  ASSUME WalksFit, ExecuteLate
  PROVE  WalksFit'
<1>1. PICK q \in inAir :
        /\ inAir' = inAir \ {q}
        /\ IF Exists(q.parent)
           THEN \E f \in Ids \ Folders :
                  drive' = [drive EXCEPT ![f] = NewFolder(q.parent, q.name)]
           ELSE UNCHANGED drive
  BY DEF ExecuteLate
<1>2. Kept /\ drive' \in [Ids -> FolderRecords \union {None}]
  <2>1. CASE UNCHANGED drive
    BY <2>1 DEF Kept, Folders, PathOf, PathNext, WalksFit, TypeOK
  <2>2. CASE \E f \in Ids \ Folders :
               drive' = [drive EXCEPT ![f] = NewFolder(q.parent, q.name)]
    <3>1. q.parent \in Folders /\ Append(PathOf(q.parent), q.name) \in Prefixes
      BY DEF WalksFit, TypeOK, InAirOK
    <3> QED
      BY <2>2, <3>1, NewFolderKept
  <2> QED
    BY <1>1, <2>1, <2>2
<1>3. DriveInv'
  BY <1>1, <1>2, InAirStays DEF ExecuteLate, WalksFit, TypeOK
<1>4. LockInv'
  BY Parts DEF ExecuteLate, LockInv, LockOK
<1>5. WalkInv'
  BY <1>2, WalkStays DEF ExecuteLate
<1> QED
  BY <1>3, <1>4, <1>5, PartsNext

LEMMA RemoveStep ==
  ASSUME WalksFit, Remove
  PROVE  WalksFit'
<1>1. PICK f \in Folders : /\ drive' = [drive EXCEPT ![f].live = FALSE]
                          /\ removed < MaxRemoved /\ removed' = removed + 1
  BY DEF Remove
<1>2. drive \in [Ids -> FolderRecords \union {None}] /\ None \notin FolderRecords
  BY FolderAssumption DEF WalksFit, TypeOK
<1>3. drive[f] \in FolderRecords
  BY <1>2 DEF Folders
<1>4. /\ [drive[f] EXCEPT !.live = FALSE] \in FolderRecords
      /\ [drive[f] EXCEPT !.live = FALSE].path = drive[f].path
  BY <1>3 DEF FolderRecords
<1>5. drive' = [drive EXCEPT ![f] = [drive[f] EXCEPT !.live = FALSE]]
  BY <1>1
<1>6. Kept /\ drive' \in [Ids -> FolderRecords \union {None}]
  BY <1>2, <1>4, <1>5 DEF Kept, Folders, PathOf, PathNext
<1>7. DriveInv'
  BY <1>1, <1>6, InAirStays, FolderAssumption DEF Remove, WalksFit, TypeOK
<1>8. LockInv'
  BY Parts DEF Remove, LockInv, LockOK
<1>9. WalkInv'
  BY <1>6, WalkStays DEF Remove
<1> QED
  BY <1>7, <1>8, <1>9, PartsNext

LEMMA RestartStep ==
  ASSUME WalksFit, NEW p \in Processes, Restart(p)
  PROVE  WalksFit'
<1>1. Kept /\ DriveInv'
  <2>1. CASE UNCHANGED <<inAir, lost>>
    BY <2>1, ServerStays DEF Restart, server
  <2>2. CASE \E t \in Tasks : t[1] = p /\ pc[t] = "create" /\ GiveUp(t)
    BY <2>2, GiveUpKeeps DEF Restart
  <2> QED
    BY <2>1, <2>2 DEF Restart
<1>2. LockInv /\ WalkInv
  BY Parts
<1>3. LockInv'
  <2>1. lock' \in [Processes -> Seq(Tasks)]
    BY <1>2, EmptySeq DEF Restart, LockInv
  <2>2. /\ Len(lock'[p]) = 0
        /\ \A q \in Processes \ {p} : lock'[q] = lock[q]
    BY <1>2, EmptySeq DEF Restart, LockInv
  <2>3. \A t \in Tasks : t[1] \in Processes
    BY FolderAssumption
  <2>4. ASSUME NEW q \in Processes, NEW i \in 1..Len(lock'[q])
        PROVE  lock'[q][i][1] = q /\ creating'[lock'[q][i]]
    <3>1. q # p
      BY <2>2, <2>4
    <3>2. lock'[q][i] = lock[q][i] /\ lock[q][i] \in Tasks
      BY <1>2, <2>2, <2>4, <3>1 DEF LockInv
    <3>3. lock[q][i][1] = q /\ creating[lock[q][i]]
      BY <1>2, <2>2, <2>4, <3>1 DEF LockInv
    <3> QED
      BY <3>1, <3>2, <3>3 DEF Restart
  <2>5. \A q \in Processes : \A i, j \in 1..Len(lock'[q]) :
          lock'[q][i] = lock'[q][j] => i = j
    BY <1>2, <2>2 DEF LockInv, LockOK
  <2>6. ASSUME NEW t \in Tasks
        PROVE  /\ creating'[t] => \E i \in 1..Len(lock'[t[1]]) : lock'[t[1]][i] = t
               /\ (creating'[t] /\ pc'[t] # "start") => Head(lock'[t[1]]) = t
               /\ pc'[t] \in Resting => ~creating'[t]
    BY <1>2, <2>2, <2>3 DEF Restart, LockInv, LockOK
  <2> QED
    BY <2>1, <2>4, <2>5, <2>6 DEF LockInv, LockOK
<1>4. WalkInv'
  <2>1. cache' \in [Processes -> [Prefixes -> Folders' \union {None}]]
    BY <1>1, <1>2, CacheStaysRight DEF Restart, Right, WalkInv
  <2>2. \A q \in Processes, key \in Prefixes :
          cache'[q][key] # None => PathNext(cache'[q][key]) = key
    BY <1>1, <1>2, CacheStaysRight DEF Restart, Right, WalkInv
  <2>3. Prefix(<<>>, 0) = <<>> /\ Len(<<>>) = 0
    BY EmptySeq, PrefixType
  <2>4. \A t \in Tasks : /\ parent'[t] \in Folders' \union {Root}
                         /\ PathNext(parent'[t]) = Prefix(path'[t], depth'[t])
    BY <1>1, <1>2, <2>3 DEF Restart, WalkInv, Kept, FoldersNamePaths, PathNext, PathOf
  <2>5. FoldersNamePaths'
    BY <2>2, <2>4 DEF FoldersNamePaths, PathNext, PathOf
  <2>6. parent' \in [Tasks -> Folders' \union {Root}]
    BY <2>4 DEF Restart
  <2>7. WalkOK'
    BY <1>2 DEF Restart, WalkInv, WalkOK, CallStates
  <2>8. /\ pc' \in [Tasks -> Resting \union CallStates \union {"start", "token"}]
        /\ path' \in [Tasks -> Paths \union {<<>>}]
        /\ depth' \in [Tasks -> Nat]
        /\ attempt' \in [Tasks -> 0..MaxRetries]
    BY <1>2, FolderAssumption DEF Restart, WalkInv, Resting
  <2>9. creating' \in [Tasks -> BOOLEAN]
    BY <1>2 DEF Restart, WalkInv
  <2>10. \A t \in Tasks : depth'[t] =< Len(path'[t])
    BY <1>2, <2>3 DEF Restart, WalkInv
  <2> QED
    BY <2>1, <2>5, <2>6, <2>7, <2>8, <2>9, <2>10 DEF WalkInv
<1> QED
  BY <1>1, <1>3, <1>4, PartsNext

LEMMA NextFits == WalksFit /\ [Next]_vars => WalksFit'
<1> SUFFICES ASSUME WalksFit, [Next]_vars PROVE WalksFit'
  OBVIOUS
<1>1. CASE UNCHANGED vars
  <2>1. UNCHANGED server
    BY <1>1 DEF vars, server
  <2>2. Kept /\ DriveInv'
    BY <2>1, ServerStays
  <2>3. LockInv'
    BY <1>1, Parts DEF vars, LockInv, LockOK
  <2>4. WalkInv'
    BY <1>1, <2>2, WalkStays DEF vars
  <2> QED
    BY <2>2, <2>3, <2>4, PartsNext
<1>2. CASE Next
  BY <1>2, BeginStep, StartStep, TokenStep, ListFoundStep, ListEmptyStep, CreateStep,
     TransientStep, CreateTimesOutStep, RefusedStep, ExecuteLateStep, RemoveStep,
     RestartStep DEF Next, TaskStep, Answered
<1> QED
  BY <1>1, <1>2

-----------------------------------------------------------------------------
(* How Drive changes *)

\* Whether an id of the present state will be there.
ExistsNext(f) == f = Root \/ (f \in Folders' /\ drive'[f].live)

\* The key above a key, and the first names of the first names.
LEMMA PrefixOfPrefix ==
  ASSUME NEW p \in Seq(Names), NEW k \in 0..Len(p), NEW j \in 0..k
  PROVE  Prefix(Prefix(p, k), j) = Prefix(p, j)
<1>1. Len(p) \in Nat /\ k \in Nat /\ j \in Nat /\ j =< k /\ k =< Len(p)
  OBVIOUS
<1> DEFINE q == Prefix(p, k)
           a == Prefix(q, j)
           b == Prefix(p, j)
<1>2. q \in Seq(Names) /\ Len(q) = k /\ \A i \in 1..k : q[i] = p[i]
  BY <1>1 DEF Prefix
<1>3. a \in Seq(Names) /\ Len(a) = j /\ \A i \in 1..j : a[i] = q[i]
  <2> HIDE DEF q
  <2> QED
    BY <1>1, <1>2 DEF Prefix
<1>4. b \in Seq(Names) /\ Len(b) = j /\ \A i \in 1..j : b[i] = p[i]
  BY <1>1 DEF Prefix
<1>5. \A i \in 1..j : a[i] = b[i]
  BY <1>1, <1>2, <1>3, <1>4
<1> HIDE DEF a, b
<1>6. a = b
  BY <1>3, <1>4, <1>5, SeqEqual
<1> QED
  BY <1>6 DEF a, b, q

LEMMA KeyAbove ==
  ASSUME NEW key \in Prefixes
  PROVE  /\ key \in Seq(Names) /\ Len(key) \in Nat \ {0}
         /\ Len(key) > 1 => Prefix(key, Len(key) - 1) \in Prefixes
<1>0. PICK p \in Paths : \E k \in 1..Len(p) : key = Prefix(p, k)
  BY DEF Prefixes
<1>1. PICK k \in 1..Len(p) : key = Prefix(p, k)
  BY <1>0
<1>2. p \in Seq(Names) /\ Len(p) \in Nat /\ k \in 0..Len(p) /\ k \in Nat \ {0}
  BY FolderAssumption
<1>3. key \in Seq(Names) /\ Len(key) = k
  BY <1>1, <1>2, PrefixType
<1>4. CASE k > 1
  <2>1. k - 1 \in 0..k /\ k - 1 \in 1..Len(p)
    BY <1>2, <1>4
  <2>2. Prefix(key, k - 1) = Prefix(p, k - 1)
    BY <1>1, <1>2, <2>1, PrefixOfPrefix
  <2> QED
    BY <1>2, <1>3, <2>1, <2>2, PrefixIsKey
<1> QED
  BY <1>2, <1>3, <1>4

\* What comes before the last name of a path.
LEMMA PathAbove ==
  ASSUME NEW s \in Seq(Names), NEW name, Append(s, name) \in Prefixes
  PROVE  Prefix(Append(s, name), Len(Append(s, name)) - 1) = s
<1> DEFINE a == Append(s, name)
           b == Prefix(a, Len(a) - 1)
<1>1. Len(s) \in Nat /\ Len(a) = Len(s) + 1 /\ \A i \in 1..Len(s) : a[i] = s[i]
  BY AppendProperties
<1>2. a \in Seq(Names)
  BY KeyAbove
<1>3. b \in Seq(Names) /\ Len(b) = Len(s) /\ \A i \in 1..Len(s) : b[i] = a[i]
  <2> HIDE DEF a
  <2> QED
    BY <1>1, <1>2 DEF Prefix
<1>4. \A i \in 1..Len(s) : b[i] = s[i]
  BY <1>1, <1>3
<1> HIDE DEF a, b
<1>5. b = s
  BY <1>3, <1>4, SeqEqual
<1> QED
  BY <1>5 DEF a, b

\* The path of a folder is not empty, so that it is never the root's.
LEMMA FolderPath ==
  ASSUME WalksFit, NEW f \in Folders
  PROVE  /\ f # Root /\ PathOf(f) = drive[f].path
         /\ drive[f] \in FolderRecords
         /\ drive[f].path \in Seq(Names) /\ Len(drive[f].path) \in Nat \ {0}
<1>1. f # Root /\ drive[f] \in FolderRecords
  BY FolderAssumption DEF WalksFit, TypeOK, Folders
<1>2. drive[f].path \in Prefixes \union {<<g>> : g \in Present}
  BY <1>1 DEF FolderRecords
<1>3. CASE drive[f].path \in Prefixes
  BY <1>1, <1>3, KeyAbove DEF PathOf
<1>4. CASE \E g \in Present : drive[f].path = <<g>>
  <2>1. PICK g \in Present : drive[f].path = <<g>>
    BY <1>4
  <2>2. g \in Names
    BY FolderAssumption DEF Names
  <2>3. <<g>> \in Seq(Names) /\ Len(<<g>>) = 1
    BY <2>2
  <2> QED
    BY <1>1, <2>1, <2>3 DEF PathOf
<1> QED
  BY <1>2, <1>3, <1>4

\* A folder g of this name is made in f.
Grown(f, name, g) ==
  /\ f \in Folders /\ Exists(f)
  /\ g \in Ids \ Folders
  /\ Append(PathOf(f), name) \in Prefixes
  /\ drive' = [drive EXCEPT ![g] = NewFolder(f, name)]
  /\ UNCHANGED removed

LEMMA GrownFolders ==
  ASSUME WalksFit, NEW f, NEW name, NEW g, Grown(f, name, g)
  PROVE  /\ Folders' = Folders \union {g} /\ g # Root /\ f # Root /\ g # f
         /\ \A h \in Folders : drive'[h] = drive[h] /\ h # g
         /\ \A h \in Folders \union {Root} : PathNext(h) = PathOf(h)
         /\ drive'[g].parent = f /\ drive'[g].live
         /\ drive'[g].path = Append(PathOf(f), name)
         /\ Prefix(drive'[g].path, Len(drive'[g].path) - 1) = PathOf(f)
<1>1. drive \in [Ids -> FolderRecords \union {None}] /\ None \notin FolderRecords
  BY FolderAssumption DEF WalksFit, TypeOK
<1>2. NewFolder(f, name) \in FolderRecords
  BY DEF Grown, NewFolder, FolderRecords, Folders
<1>3. f # Root /\ g # Root /\ g # f
  BY FolderAssumption DEF Grown, Folders
<1>4. drive'[g] = NewFolder(f, name) /\ \A h \in Folders : drive'[h] = drive[h] /\ h # g
  BY <1>1 DEF Grown, Folders
<1>5. Folders' = Folders \union {g}
  BY <1>1, <1>2, <1>4 DEF Grown, Folders
<1>6. \A h \in Folders \union {Root} : PathNext(h) = PathOf(h)
  BY <1>4 DEF PathOf, PathNext
<1>7. drive'[g].parent = f /\ drive'[g].live /\ drive'[g].path = Append(PathOf(f), name)
  BY <1>4 DEF NewFolder
<1>8. PathOf(f) \in Seq(Names)
  BY FolderPath DEF Grown
<1>9. Prefix(drive'[g].path, Len(drive'[g].path) - 1) = PathOf(f)
  BY <1>7, <1>8, PathAbove DEF Grown
<1> QED
  BY <1>3, <1>4, <1>5, <1>6, <1>7, <1>9

\* A folder that is removed keeps its place, and holds no other.
LEMMA RemovedFolder ==
  ASSUME WalksFit, Remove
  PROVE  \E f \in Folders :
           /\ Folders' = Folders
           /\ \A h \in Folders \union {Root} : PathNext(h) = PathOf(h)
           /\ \A h \in Folders : /\ drive'[h].parent = drive[h].parent
                                 /\ drive'[h].path = drive[h].path
                                 /\ (drive[h].live /\ h # f) => drive'[h].live
                                 /\ drive'[h].live => drive[h].live
           /\ \A h \in Folders : drive[h].live => drive[h].parent # f
           /\ removed' > 0
<1>1. PICK f \in Folders :
        /\ drive' = [drive EXCEPT ![f].live = FALSE]
        /\ \A g \in Folders : drive[g].parent = f => ~drive[g].live
        /\ removed' = removed + 1
  BY DEF Remove
<1>2. drive \in [Ids -> FolderRecords \union {None}] /\ None \notin FolderRecords
  BY FolderAssumption DEF WalksFit, TypeOK
<1>3. drive[f] \in FolderRecords
  BY <1>2 DEF Folders
<1> DEFINE r == [drive[f] EXCEPT !.live = FALSE]
<1>4. r \in FolderRecords /\ r.path = drive[f].path /\ r.parent = drive[f].parent /\ r.live = FALSE
  BY <1>3 DEF FolderRecords
<1>5. drive' = [drive EXCEPT ![f] = r]
  BY <1>1
<1> HIDE DEF r
<1>6. drive'[f] = r /\ \A h \in Ids \ {f} : drive'[h] = drive[h]
  BY <1>2, <1>5 DEF Folders
<1>7. Folders' = Folders
  BY <1>2, <1>4, <1>6 DEF Folders
<1>8. \A h \in Folders : /\ drive'[h].parent = drive[h].parent
                         /\ drive'[h].path = drive[h].path
                         /\ (drive[h].live /\ h # f) => drive'[h].live
                         /\ drive'[h].live => drive[h].live
  BY <1>4, <1>6 DEF Folders
<1>9. \A h \in Folders \union {Root} : PathNext(h) = PathOf(h)
  BY <1>8 DEF PathOf, PathNext
<1>10. removed' > 0
  BY <1>1 DEF WalksFit, TypeOK
<1> QED
  BY <1>1, <1>7, <1>8, <1>9, <1>10

LEMMA CreateGrows ==
  ASSUME WalksFit, NEW t \in Tasks, Create(t)
  PROVE  \E g : /\ Grown(parent[t], Segment(t), g)
                /\ Advance(t, CacheSet(t, g), depth[t])
<1>1. pc[t] \in CallStates /\ pc[t] = "create" /\ Exists(parent[t]) /\ UNCHANGED removed
  BY DEF Create, CallStates
<1>2. parent[t] \in Folders /\ Append(PathOf(parent[t]), Segment(t)) \in Prefixes
  BY <1>1, NextSegment
<1> QED
  BY <1>1, <1>2 DEF Create, Grown

LEMMA LateGrows ==
  ASSUME WalksFit, NEW q \in inAir, ExecuteLate,
         \E f \in Ids \ Folders : drive' = [drive EXCEPT ![f] = NewFolder(q.parent, q.name)],
         Exists(q.parent)
  PROVE  \E g : Grown(q.parent, q.name, g)
  BY DEF WalksFit, TypeOK, InAirOK, ExecuteLate, Grown

\* Nothing else happens to Drive.
LEMMA DriveChanges ==
  ASSUME WalksFit, [Next]_vars
  PROVE  \/ UNCHANGED <<drive, removed>>
         \/ Remove
         \/ \E f, name, g : Grown(f, name, g)
<1>1. CASE \E t \in Tasks : Create(t)
  BY <1>1, CreateGrows
<1>2. CASE ExecuteLate
  BY <1>2, LateGrows DEF ExecuteLate
<1>3. (Next /\ ~Remove /\ ~ExecuteLate /\ ~\E t \in Tasks : Create(t))
         => UNCHANGED <<drive, removed>>
  BY DEF Next, TaskStep, Answered, Begin, Start, Token, ListFound, ListEmpty, Transient,
         CreateTimesOut, GiveUp, Refused, Restart, server
<1> QED
  BY <1>1, <1>2, <1>3 DEF vars

\* The folders stay a tree.
LEMMA TreeStep ==
  ASSUME WalksFit, TreeOK, [Next]_vars
  PROVE  TreeOK'
<1>1. CASE UNCHANGED <<drive, removed>>
  <2>1. Folders' = Folders /\ (\A f : PathNext(f) = PathOf(f)) /\ (\A f : ExistsNext(f) = Exists(f))
    BY <1>1 DEF Folders, PathOf, Exists, PathNext, ExistsNext
  <2> QED
    BY <1>1, <2>1 DEF TreeOK, PathOf, PathNext, Exists, ExistsNext
<1>2. CASE Remove
  <2>1. PICK f \in Folders :
           /\ Folders' = Folders
           /\ \A h \in Folders \union {Root} : PathNext(h) = PathOf(h)
           /\ \A h \in Folders : /\ drive'[h].parent = drive[h].parent
                                 /\ drive'[h].path = drive[h].path
                                 /\ (drive[h].live /\ h # f) => drive'[h].live
                                 /\ drive'[h].live => drive[h].live
           /\ \A h \in Folders : drive[h].live => drive[h].parent # f
           /\ removed' > 0
    BY <1>2, RemovedFolder
  <2>2. \A h \in Folders : (Exists(h) /\ h # f) => ExistsNext(h)
    BY <2>1 DEF Exists, ExistsNext
  <2>3. ExistsNext(Root)
    BY DEF ExistsNext
  <2>4. ASSUME NEW h \in Folders
        PROVE  /\ drive'[h].parent \in Folders' \union {Root}
               /\ PathNext(drive'[h].parent) = Prefix(drive'[h].path, Len(drive'[h].path) - 1)
               /\ drive'[h].live => ExistsNext(drive'[h].parent)
               /\ removed' = 0 => drive'[h].live
    <3>1. /\ drive[h].parent \in Folders \union {Root}
          /\ PathOf(drive[h].parent) = Prefix(drive[h].path, Len(drive[h].path) - 1)
          /\ drive[h].live => Exists(drive[h].parent)
      BY <2>4 DEF TreeOK
    <3>2. /\ drive'[h].parent = drive[h].parent /\ drive'[h].path = drive[h].path
          /\ drive'[h].live => drive[h].live
      BY <2>1, <2>4
    <3>5. drive'[h].live => drive[h].parent # f
      BY <2>1, <2>4, <3>2
    <3>3. drive'[h].live => ExistsNext(drive'[h].parent)
      BY <2>2, <2>3, <3>1, <3>2, <3>5
    <3>4. PathNext(drive'[h].parent) = Prefix(drive'[h].path, Len(drive'[h].path) - 1)
      BY <2>1, <3>1, <3>2
    <3> QED
      BY <2>1, <3>1, <3>2, <3>3, <3>4
  <2> QED
    BY <2>1, <2>4 DEF TreeOK, PathNext, PathOf, Exists, ExistsNext
<1>3. CASE \E f, name, g : Grown(f, name, g)
  <2>1. PICK f, name, g : Grown(f, name, g)
    BY <1>3
  <2>2. /\ Folders' = Folders \union {g} /\ g # Root /\ f # Root /\ g # f
        /\ \A h \in Folders : drive'[h] = drive[h] /\ h # g
        /\ \A h \in Folders \union {Root} : PathNext(h) = PathOf(h)
        /\ drive'[g].parent = f /\ drive'[g].live
        /\ drive'[g].path = Append(PathOf(f), name)
        /\ Prefix(drive'[g].path, Len(drive'[g].path) - 1) = PathOf(f)
    BY <2>1, GrownFolders
  <2>3. f \in Folders /\ Exists(f) /\ removed' = removed
    BY <2>1 DEF Grown
  <2>4. \A h \in Folders \union {Root} : Exists(h) => ExistsNext(h)
    BY <2>2 DEF Exists, ExistsNext
  <2>5. ASSUME NEW h \in Folders
        PROVE  /\ drive'[h].parent \in Folders' \union {Root}
               /\ PathNext(drive'[h].parent) = Prefix(drive'[h].path, Len(drive'[h].path) - 1)
               /\ drive'[h].live => ExistsNext(drive'[h].parent)
               /\ removed' = 0 => drive'[h].live
    BY <2>2, <2>3, <2>4, <2>5 DEF TreeOK
  <2>6. /\ drive'[g].parent \in Folders' \union {Root}
        /\ PathNext(drive'[g].parent) = Prefix(drive'[g].path, Len(drive'[g].path) - 1)
        /\ drive'[g].live => ExistsNext(drive'[g].parent)
        /\ removed' = 0 => drive'[g].live
    BY <2>2, <2>3, <2>4
  <2> QED
    BY <2>2, <2>5, <2>6 DEF TreeOK, PathNext, PathOf, Exists, ExistsNext
<1> QED
  BY <1>1, <1>2, <1>3, DriveChanges

-----------------------------------------------------------------------------
(* Caches know the way to what they know *)

\* A cache c that knows more than p's, and the way to all of it.
Closed(p, c) ==
  /\ c \in [Prefixes -> Ids \union {None}]
  /\ \A key \in Prefixes : cache[p][key] # None => c[key] # None
  /\ \A key \in Prefixes :
       (Len(key) > 1 /\ c[key] # None) => c[Prefix(key, Len(key) - 1)] # None

LEMMA CacheIsClosed ==
  ASSUME WalksFit, CacheClosed, NEW p \in Processes
  PROVE  Closed(p, cache[p])
  BY DEF WalksFit, TypeOK, CacheClosed, Closed, Folders

LEMMA CacheSetClosed ==
  ASSUME WalksFit, CacheClosed, NEW t \in Tasks, pc[t] \in CallStates, NEW f \in Ids
  PROVE  /\ Closed(t[1], CacheSet(t, f))
         /\ depth[t] > 0 => CacheSet(t, f)[Prefix(path[t], depth[t])] # None
<1>1. t[1] \in Processes /\ f # None
  BY FolderAssumption
<1>2. /\ path[t] \in Paths /\ path[t] \in Seq(Names) /\ Len(path[t]) \in Nat
      /\ depth[t] \in Nat /\ depth[t] < Len(path[t])
  <2>1. path[t] \in Paths /\ depth[t] \in Nat /\ depth[t] < Len(path[t])
    BY EmptySeq DEF WalksFit, TypeOK, WalkOK
  <2> QED
    BY <2>1, FolderAssumption
<1> DEFINE key0 == Prefix(path[t], depth[t] + 1)
           below == Prefix(path[t], depth[t])
           c == CacheSet(t, f)
<1>3. key0 \in Prefixes /\ Len(key0) = depth[t] + 1
  BY <1>2, PrefixIsKey, PrefixType
<1>4. Prefix(key0, Len(key0) - 1) = below
  <2>1. depth[t] + 1 \in 0..Len(path[t]) /\ depth[t] \in 0..(depth[t] + 1)
    BY <1>2
  <2>2. Prefix(Prefix(path[t], depth[t] + 1), depth[t]) = Prefix(path[t], depth[t])
    BY <1>2, <2>1, PrefixOfPrefix
  <2> QED
    BY <1>2, <1>3, <2>2
<1>5. depth[t] > 0 => below \in Prefixes
  BY <1>2, PrefixIsKey
<1>6. Closed(t[1], cache[t[1]])
  BY <1>1, CacheIsClosed
<1>7. c = [cache[t[1]] EXCEPT ![key0] = f]
  BY DEF CacheSet, Key
<1>8. depth[t] > 0 => cache[t[1]][below] # None
  BY DEF CacheClosed
<1> HIDE DEF key0, below, c
<1>9. c \in [Prefixes -> Ids \union {None}]
  BY <1>6, <1>7 DEF Closed
<1>10. \A key \in Prefixes : cache[t[1]][key] # None => c[key] # None
  BY <1>1, <1>6, <1>7 DEF Closed
<1>11. depth[t] > 0 => c[below] # None
  BY <1>5, <1>8, <1>10
<1>12. ASSUME NEW key \in Prefixes, Len(key) > 1, c[key] # None
       PROVE  c[Prefix(key, Len(key) - 1)] # None
  <2>1. CASE key = key0
    BY <1>2, <1>3, <1>4, <1>11, <1>12, <2>1
  <2>2. CASE key # key0
    <3>1. cache[t[1]][key] # None
      BY <1>6, <1>7, <1>12, <2>2 DEF Closed
    <3>2. cache[t[1]][Prefix(key, Len(key) - 1)] # None
      BY <1>6, <1>12, <3>1 DEF Closed
    <3> QED
      BY <1>10, <1>12, <3>2, KeyAbove
  <2> QED
    BY <2>1, <2>2
<1> QED
  BY <1>9, <1>10, <1>11, <1>12 DEF Closed, below, c

LEMMA AdvanceClosed ==
  ASSUME WalksFit, CacheClosed, NEW t \in Tasks, NEW c, Closed(t[1], c),
         NEW d \in 0..Len(path[t]), d > 0 => c[Prefix(path[t], d)] # None,
         Advance(t, c, d)
  PROVE  CacheClosed'
<1>1. /\ t[1] \in Processes /\ depth \in [Tasks -> Nat] /\ Len(path[t]) \in Nat
      /\ cache \in [Processes -> [Prefixes -> Folders \union {None}]]
      /\ path \in [Tasks -> Paths \union {<<>>}]
  <2>1. path[t] \in Paths \union {<<>>}
    BY DEF WalksFit, TypeOK
  <2>2. Len(path[t]) \in Nat
    BY <2>1, EmptySeq, FolderAssumption
  <2> QED
    BY <2>2, FolderAssumption DEF WalksFit, TypeOK
<1>2. PICK k \in d..Len(path[t]) :
        /\ Reaches(c, path[t], d, k)
        /\ depth' = [depth EXCEPT ![t] = k]
        /\ cache' = [cache EXCEPT ![t[1]] = c]
        /\ UNCHANGED path
  BY DEF Advance
<1>3. k > 0 => c[Prefix(path[t], k)] # None
  BY <1>1, <1>2 DEF Reaches, Key
<1>4. cache'[t[1]] = c /\ \A q \in Processes \ {t[1]} : cache'[q] = cache[q]
  BY <1>1, <1>2
<1>5. ASSUME NEW p \in Processes, NEW key \in Prefixes, Len(key) > 1, cache'[p][key] # None
      PROVE  cache'[p][Prefix(key, Len(key) - 1)] # None
  BY <1>4, <1>5 DEF Closed, CacheClosed
<1>6. ASSUME NEW u \in Tasks, depth'[u] > 0
      PROVE  cache'[u[1]][Prefix(path'[u], depth'[u])] # None
  <2>1. CASE u = t
    BY <1>1, <1>2, <1>3, <1>4, <1>6, <2>1
  <2>2. CASE u # t
    <3>1. depth'[u] = depth[u] /\ path'[u] = path[u] /\ u[1] \in Processes
      BY <1>1, <1>2, <2>2, FolderAssumption
    <3>2. cache[u[1]][Prefix(path[u], depth[u])] # None
      BY <1>6, <3>1 DEF CacheClosed
    <3>3. Prefix(path[u], depth[u]) \in Prefixes
      <4>1. depth[u] \in Nat /\ depth[u] > 0 /\ depth[u] =< Len(path[u])
        BY <1>6, <3>1 DEF WalksFit, TypeOK
      <4>2. path[u] \in Paths
        BY <1>1, <4>1, EmptySeq
      <4>3. Len(path[u]) \in Nat
        BY <4>2, FolderAssumption
      <4> QED
        BY <4>1, <4>2, <4>3, PrefixIsKey
    <3>4. CASE u[1] = t[1]
      BY <1>4, <3>1, <3>2, <3>3, <3>4 DEF Closed
    <3>5. CASE u[1] # t[1]
      BY <1>4, <3>1, <3>2, <3>5
    <3> QED
      BY <3>4, <3>5
  <2> QED
    BY <2>1, <2>2
<1> QED
  BY <1>5, <1>6 DEF CacheClosed

\* A task that stands still, or goes back to where it has walked nothing.
LEMMA StandingClosed ==
  ASSUME WalksFit, CacheClosed, UNCHANGED cache,
         \A t \in Tasks : \/ depth'[t] = 0
                          \/ depth'[t] = depth[t] /\ path'[t] = path[t]
  PROVE  CacheClosed'
  BY DEF CacheClosed

LEMMA FailClosed ==
  ASSUME WalksFit, CacheClosed, NEW t \in Tasks, Fail(t)
  PROVE  CacheClosed'
<1>1. UNCHANGED cache /\ depth' = [depth EXCEPT ![t] = 0] /\ path' = [path EXCEPT ![t] = <<>>]
  BY DEF Fail
<1>2. \A u \in Tasks : depth'[u] = 0 \/ (depth'[u] = depth[u] /\ path'[u] = path[u])
  BY <1>1 DEF WalksFit, TypeOK
<1> QED
  BY <1>1, <1>2, StandingClosed

LEMMA ClosedStep ==
  ASSUME WalksFit, CacheClosed, [Next]_vars
  PROVE  CacheClosed'
<1>1. CASE UNCHANGED <<cache, path, depth>>
  BY <1>1, StandingClosed
<1>2. CASE \E t \in Tasks : Fail(t)
  BY <1>2, FailClosed
<1>3. CASE \E t \in Tasks : Begin(t)
  <2>1. PICK t \in Tasks : Begin(t)
    BY <1>3
  <2>2. /\ UNCHANGED cache /\ depth' = [depth EXCEPT ![t] = 0]
        /\ \E p \in Paths : path' = [path EXCEPT ![t] = p]
    BY <2>1 DEF Begin
  <2>3. \A u \in Tasks : depth'[u] = 0 \/ (depth'[u] = depth[u] /\ path'[u] = path[u])
    BY <2>2 DEF WalksFit, TypeOK
  <2> QED
    BY <2>2, <2>3, StandingClosed
<1>4. CASE \E t \in Tasks : Advance(t, cache[t[1]], 0)
  <2>1. PICK t \in Tasks : Advance(t, cache[t[1]], 0)
    BY <1>4
  <2>2. t[1] \in Processes /\ 0 \in 0..Len(path[t])
    BY FolderAssumption, EmptySeq DEF WalksFit, TypeOK
  <2> QED
    BY <2>1, <2>2, CacheIsClosed, AdvanceClosed
<1>5. CASE \E t \in Tasks : ListFound(t) \/ Create(t)
  <2>1. PICK t \in Tasks : ListFound(t) \/ Create(t)
    BY <1>5
  <2>2. pc[t] \in CallStates
    BY <2>1 DEF ListFound, Create, CallStates
  <2>3. PICK f \in Ids : Advance(t, CacheSet(t, f), depth[t])
    BY <2>1 DEF ListFound, Create, Children, Folders
  <2>4. depth[t] \in 0..Len(path[t])
    BY <2>2, NextSegment
  <2> QED
    BY <2>2, <2>3, <2>4, CacheSetClosed, AdvanceClosed
<1>6. CASE \E p \in Processes : Restart(p)
  <2>1. PICK p \in Processes : Restart(p)
    BY <1>6
  <2>2. /\ cache' = [cache EXCEPT ![p] = [key \in Prefixes |-> None]]
        /\ path' = [t \in Tasks |-> IF t[1] = p THEN <<>> ELSE path[t]]
        /\ depth' = [t \in Tasks |-> IF t[1] = p THEN 0 ELSE depth[t]]
    BY <2>1 DEF Restart
  <2>3. /\ cache'[p] = [key \in Prefixes |-> None]
        /\ \A q \in Processes \ {p} : cache'[q] = cache[q]
    BY <2>2 DEF WalksFit, TypeOK
  <2>4. \A q \in Processes, key \in Prefixes :
          (Len(key) > 1 /\ cache'[q][key] # None)
            => cache'[q][Prefix(key, Len(key) - 1)] # None
    BY <2>3 DEF CacheClosed
  <2>5. \A t \in Tasks : depth'[t] > 0 => cache'[t[1]][Prefix(path'[t], depth'[t])] # None
    BY <2>2, <2>3, FolderAssumption DEF CacheClosed
  <2> QED
    BY <2>4, <2>5 DEF CacheClosed
<1>7. ASSUME Next, ~\E t \in Tasks : Fail(t), ~\E t \in Tasks : Begin(t),
             ~\E t \in Tasks : Advance(t, cache[t[1]], 0),
             ~\E t \in Tasks : ListFound(t) \/ Create(t),
             ~\E p \in Processes : Restart(p)
      PROVE  UNCHANGED <<cache, path, depth>>
  BY <1>7 DEF Next, TaskStep, Answered, Start, Token, ListEmpty, Transient, RetryOrFail,
              CreateTimesOut, Refused, ExecuteLate, Remove
<1> QED
  BY <1>1, <1>2, <1>3, <1>4, <1>5, <1>6, <1>7 DEF vars

-----------------------------------------------------------------------------
(* Who is about to create a folder *)

\* A task comes to that only by a list that was empty.
LEMMA SetsOut ==
  ASSUME WalksFit, [Next]_vars, NEW t \in Tasks, pc'[t] = "create"
  PROVE  /\ path'[t] = path[t] /\ depth'[t] = depth[t] /\ parent'[t] = parent[t]
         /\ pc[t] = "create" \/ (ListEmpty(t) /\ MayCreate(t))
<1>1. pc \in [Tasks -> Resting \union CallStates \union {"start", "token"}]
      /\ path \in [Tasks -> Paths \union {<<>>}] /\ depth \in [Tasks -> Nat]
      /\ parent \in [Tasks -> Folders \union {Root}]
  BY DEF WalksFit, TypeOK
<1>2. ASSUME NEW u \in Tasks, Fail(u)
      PROVE  u # t /\ pc'[t] = pc[t] /\ path'[t] = path[t] /\ depth'[t] = depth[t]
                   /\ parent'[t] = parent[t]
  BY <1>1, <1>2 DEF Fail
<1>3. ASSUME NEW u \in Tasks, NEW c, NEW d, Advance(u, c, d)
      PROVE  u # t /\ pc'[t] = pc[t] /\ path'[t] = path[t] /\ depth'[t] = depth[t]
                   /\ parent'[t] = parent[t]
  BY <1>1, <1>3 DEF Advance
<1>4. ASSUME NEW u \in Tasks, Begin(u)
      PROVE  u # t /\ pc'[t] = pc[t] /\ path'[t] = path[t] /\ depth'[t] = depth[t]
                   /\ parent'[t] = parent[t]
  BY <1>1, <1>4 DEF Begin
<1>5. ASSUME NEW p \in Processes, Restart(p)
      PROVE  pc'[t] = pc[t] /\ path'[t] = path[t] /\ depth'[t] = depth[t]
                   /\ parent'[t] = parent[t]
  BY <1>1, <1>5 DEF Restart
<1>6. ASSUME NEW u \in Tasks, Start(u)
      PROVE  u # t /\ pc'[t] = pc[t] /\ path'[t] = path[t] /\ depth'[t] = depth[t]
                   /\ parent'[t] = parent[t]
  BY <1>1, <1>2, <1>3, <1>6 DEF Start
<1>7. ASSUME NEW u \in Tasks, Token(u) \/ ListFound(u) \/ Create(u) \/ Refused(u)
      PROVE  u # t /\ pc'[t] = pc[t] /\ path'[t] = path[t] /\ depth'[t] = depth[t]
                   /\ parent'[t] = parent[t]
  BY <1>2, <1>3, <1>7 DEF Token, ListFound, Create, Refused
<1>8. ASSUME NEW u \in Tasks, Transient(u) \/ CreateTimesOut(u)
      PROVE  pc'[t] = pc[t] /\ path'[t] = path[t] /\ depth'[t] = depth[t]
             /\ parent'[t] = parent[t]
  BY <1>2, <1>8 DEF Transient, CreateTimesOut, RetryOrFail
<1>9. ASSUME NEW u \in Tasks, ListEmpty(u)
      PROVE  /\ path'[t] = path[t] /\ depth'[t] = depth[t] /\ parent'[t] = parent[t]
             /\ pc'[t] = pc[t] \/ (u = t /\ MayCreate(t))
  BY <1>1, <1>2, <1>9 DEF ListEmpty
<1>10. ASSUME ExecuteLate \/ Remove
       PROVE  pc'[t] = pc[t] /\ path'[t] = path[t] /\ depth'[t] = depth[t]
              /\ parent'[t] = parent[t]
  BY <1>10 DEF ExecuteLate, Remove
<1> QED
  BY <1>4, <1>5, <1>6, <1>7, <1>8, <1>9, <1>10 DEF Next, TaskStep, Answered, vars

\* The count of requests given up does not fall, and those in the air grow by
\* the one that is given up.
LEMMA LostGrows ==
  ASSUME WalksFit, [Next]_vars
  PROVE  /\ lost \in Nat /\ lost' \in Nat /\ lost =< lost'
         /\ \/ inAir' \subseteq inAir /\ lost' = lost
            \/ /\ UNCHANGED drive /\ lost' = lost + 1
               /\ \E r : r.number = lost /\ inAir' = inAir \union {r}
<1>1. lost \in Nat
  BY FolderAssumption DEF WalksFit, TypeOK
<1>2. CASE UNCHANGED <<inAir, lost>>
  BY <1>1, <1>2
<1>3. CASE ExecuteLate
  BY <1>1, <1>3 DEF ExecuteLate
<1>4. CASE (\E t \in Tasks : GiveUp(t)) /\ UNCHANGED drive
  <2>1. PICK t \in Tasks : GiveUp(t)
    BY <1>4
  <2>2. /\ lost' = lost + 1
        /\ inAir' = inAir \union {[number |-> lost, parent |-> parent[t], name |-> Segment(t)]}
    BY <2>1 DEF GiveUp
  <2>3. \E r : r.number = lost /\ inAir' = inAir \union {r}
    BY <2>2
  <2>4. lost' \in Nat /\ lost =< lost' /\ lost' = lost + 1
    BY <1>1, <2>2
  <2> QED
    BY <1>1, <1>4, <2>3, <2>4
<1>5. (Next /\ ~ExecuteLate) => \/ UNCHANGED <<inAir, lost>>
                                \/ (\E t \in Tasks : GiveUp(t)) /\ UNCHANGED drive
  BY DEF Next, TaskStep, Answered, Begin, Start, Token, ListFound, ListEmpty, Create, Transient,
         CreateTimesOut, Refused, Remove, Restart, server
<1> QED
  BY <1>2, <1>3, <1>4, <1>5 DEF vars

-----------------------------------------------------------------------------
(* One process makes each folder once *)

LEMMA MadeOnceStep ==
  ASSUME WalksFit, TreeOK, MadeOnce, [Next]_vars
  PROVE  MadeOnce'
<1> SUFFICES ASSUME Alone, lost' = 0
             PROVE  /\ \A f, g \in Folders' :
                         (drive'[f].live /\ drive'[g].live /\ drive'[f].path = drive'[g].path)
                           => f = g
                    /\ \A t \in Tasks : pc'[t] = "create" =>
                         \A f \in Folders' :
                           drive'[f].live => drive'[f].path # Prefix(path'[t], depth'[t] + 1)
  BY DEF MadeOnce, Alone
<1>1. lost = 0 /\ inAir = {}
  <2>1. lost = 0
    BY LostGrows
  <2>2. \A q \in inAir : q.number \in 0..(lost - 1)
    BY DEF WalksFit, TypeOK
  <2> QED
    BY <2>1, <2>2
<1>2. /\ \A f, g \in Folders :
           (drive[f].live /\ drive[g].live /\ drive[f].path = drive[g].path) => f = g
      /\ \A t \in Tasks : pc[t] = "create" =>
           \A f \in Folders : drive[f].live => drive[f].path # Prefix(path[t], depth[t] + 1)
  BY <1>1 DEF MadeOnce
\* Below the folder a task stands on no live folder has the name it looks for.
<1>3. ASSUME NEW t \in Tasks, ListEmpty(t), MayCreate(t), NEW f \in Folders, drive[f].live
      PROVE  drive[f].path # Prefix(path[t], depth[t] + 1)
  <2>1. /\ pc[t] \in CallStates /\ Exists(parent[t])
        /\ Children(parent[t], Segment(t)) = {}
    BY <1>3 DEF ListEmpty, CallStates
  <2>2. /\ depth[t] \in Nat /\ depth[t] > 0 /\ depth[t] < Len(path[t])
        /\ path[t] \in Paths /\ path[t] \in Seq(Names) /\ Len(path[t]) \in Nat
    <3>1. path[t] \in Paths /\ depth[t] \in Nat /\ depth[t] < Len(path[t]) /\ depth[t] > 0
      BY <1>3, <2>1, EmptySeq DEF WalksFit, TypeOK, WalkOK, MayCreate
    <3> QED
      BY <3>1, FolderAssumption
  <2>3. PathOf(parent[t]) = Prefix(path[t], depth[t])
    BY DEF WalksFit, FoldersNamePaths
  <2>4. Append(PathOf(parent[t]), Segment(t)) = Prefix(path[t], depth[t] + 1)
    BY <2>2, <2>3, PrefixExtends DEF Segment
  <2>5. SUFFICES ASSUME drive[f].path = Prefix(path[t], depth[t] + 1)
                 PROVE  FALSE
    OBVIOUS
  <2>6. drive[f].parent # parent[t]
    BY <1>3, <2>1, <2>4, <2>5 DEF Children
  <2>7. PathOf(drive[f].parent) = Prefix(path[t], depth[t])
    <3>1. Len(Prefix(path[t], depth[t] + 1)) = depth[t] + 1
      BY <2>2, PrefixType
    <3>2. Prefix(Prefix(path[t], depth[t] + 1), depth[t]) = Prefix(path[t], depth[t])
      BY <2>2, PrefixOfPrefix
    <3>3. PathOf(drive[f].parent) = Prefix(drive[f].path, Len(drive[f].path) - 1)
      BY DEF TreeOK
    <3> QED
      BY <2>2, <2>5, <3>1, <3>2, <3>3
  <2>8. Len(Prefix(path[t], depth[t])) > 0
    BY <2>2, PrefixType
  <2>9. PathOf(Root) = <<>> /\ Len(<<>>) = 0
    BY EmptySeq DEF PathOf
  <2>10. drive[f].parent # Root /\ parent[t] # Root
    BY <2>3, <2>7, <2>8, <2>9
  <2>11. /\ drive[f].parent \in Folders /\ drive[drive[f].parent].live
         /\ parent[t] \in Folders /\ drive[parent[t]].live
    BY <1>3, <2>1, <2>10 DEF TreeOK, Exists
  <2>12. drive[drive[f].parent].path = drive[parent[t]].path
    BY <2>3, <2>7, <2>10 DEF PathOf
  <2> QED
    BY <1>2, <2>6, <2>11, <2>12
<1>4. CASE UNCHANGED <<drive, removed>>
  <2>1. Folders' = Folders
    BY <1>4 DEF Folders
  <2>2. ASSUME NEW t \in Tasks, pc'[t] = "create", NEW f \in Folders, drive[f].live
        PROVE  drive[f].path # Prefix(path'[t], depth'[t] + 1)
    BY <1>2, <1>3, <2>2, SetsOut
  <2> QED
    BY <1>2, <1>4, <2>1, <2>2
<1>5. CASE Remove
  <2>1. PICK r \in Folders :
           /\ Folders' = Folders
           /\ \A h \in Folders : /\ drive'[h].path = drive[h].path
                                 /\ drive'[h].live => drive[h].live
    BY <1>5, RemovedFolder
  <2>2. ASSUME NEW t \in Tasks, pc'[t] = "create", NEW f \in Folders, drive[f].live
        PROVE  drive[f].path # Prefix(path'[t], depth'[t] + 1)
    BY <1>2, <1>3, <2>2, SetsOut
  <2> QED
    BY <1>2, <2>1, <2>2
<1>6. CASE \E t \in Tasks : Create(t)
  <2>1. PICK t \in Tasks : Create(t)
    BY <1>6
  <2>2. PICK g : Grown(parent[t], Segment(t), g) /\ Advance(t, CacheSet(t, g), depth[t])
    BY <2>1, CreateGrows
  <2>3. /\ Folders' = Folders \union {g}
        /\ \A h \in Folders : drive'[h] = drive[h] /\ h # g
        /\ drive'[g].path = Append(PathOf(parent[t]), Segment(t))
    BY <2>2, GrownFolders
  <2>4. /\ pc[t] = "create" /\ pc[t] \in CallStates /\ creating[t] /\ pc[t] # "start"
        /\ pc'[t] # "create"
    BY <2>1, <2>2 DEF Create, CallStates, WalksFit, WalkOK, TypeOK, Advance
  <2>5. drive'[g].path = Prefix(path[t], depth[t] + 1)
    BY <2>3, <2>4, NextSegment
  <2>6. \A h \in Folders : drive[h].live => drive[h].path # drive'[g].path
    BY <1>2, <2>4, <2>5
  <2>7. ASSUME NEW u \in Tasks, pc'[u] = "create"
        PROVE  FALSE
    <3>1. pc[u] = "create" \/ (ListEmpty(u) /\ MayCreate(u))
      BY <2>7, SetsOut
    <3>2. creating[u] /\ pc[u] # "start" /\ u # t
      BY <2>4, <2>7, <3>1 DEF WalksFit, WalkOK, MayCreate, ListEmpty
    <3>3. u[1] = t[1]
      BY FolderAssumption DEF Alone
    <3> QED
      BY <2>4, <3>2, <3>3 DEF WalksFit, LockOK
  <2> QED
    BY <1>2, <2>3, <2>6, <2>7
<1>7. (\E f, name, g : Grown(f, name, g)) => \E t \in Tasks : Create(t)
  <2>1. ASSUME NEW f, NEW name, NEW g, Grown(f, name, g)
        PROVE  drive' # drive /\ ~Remove
    <3>1. g \in Folders' /\ g \notin Folders
      <4>1. Folders' = Folders \union {g}
        BY <2>1, GrownFolders
      <4> QED
        BY <2>1, <4>1 DEF Grown
    <3>2. Remove => Folders' = Folders
      BY RemovedFolder
    <3> QED
      BY <3>1, <3>2 DEF Folders
  <2>2. ~ExecuteLate
    BY <1>1 DEF ExecuteLate
  <2>3. (Next /\ ~Remove /\ ~ExecuteLate /\ ~\E t \in Tasks : Create(t)) => UNCHANGED drive
    BY DEF Next, TaskStep, Answered, Begin, Start, Token, ListFound, ListEmpty, Transient,
           CreateTimesOut, GiveUp, Refused, Restart, server
  <2> QED
    BY <2>1, <2>2, <2>3 DEF vars
<1> QED
  BY <1>4, <1>5, <1>6, <1>7, DriveChanges

-----------------------------------------------------------------------------
(* Counting those who take a name *)

\* The creators that are past the lock, no two of one process.
Past == {t \in Tasks : creating[t] /\ pc[t] # "start"}

LEMMA PastFew ==
  ASSUME WalksFit, NEW S \in SUBSET Past
  PROVE  IsFiniteSet(S) /\ Cardinality(S) \in Nat /\ Cardinality(Processes) \in Nat
         /\ Cardinality(S) =< Cardinality(Processes)
<1> DEFINE m == [t \in S |-> t[1]]
<1>1. m \in [S -> Processes]
  BY FolderAssumption DEF Past
<1>2. \A t, u \in S : m[t] = m[u] => t = u
  BY DEF Past, WalksFit, LockOK
<1>3. m \in Injection(S, Processes)
  <2> HIDE DEF m
  <2> QED
    BY <1>1, <1>2 DEF Injection, IsInjective
<1>4. IsFiniteSet(Processes)
  BY FolderAssumption
<1> HIDE DEF m
<1>5. IsFiniteSet(S) /\ Cardinality(S) =< Cardinality(Processes)
  BY <1>3, <1>4, FS_Injection
<1> QED
  BY <1>4, <1>5, FS_CardinalityType

\* Requests given up are told apart by their numbers.
LEMMA RequestsFew ==
  ASSUME WalksFit, \A q, r \in inAir : q.number = r.number => q = r, NEW S \in SUBSET inAir
  PROVE  IsFiniteSet(S) /\ Cardinality(S) \in Nat /\ lost \in Nat /\ Cardinality(S) =< lost
<1> DEFINE m == [q \in S |-> q.number]
<1>1. lost \in Nat
  BY FolderAssumption DEF WalksFit, TypeOK
<1>2. m \in [S -> 0..(lost - 1)]
  BY DEF WalksFit, TypeOK
<1>3. \A q, r \in S : m[q] = m[r] => q = r
  OBVIOUS
<1>4. m \in Injection(S, 0..(lost - 1))
  <2> HIDE DEF m
  <2> QED
    BY <1>2, <1>3 DEF Injection, IsInjective
<1>5. IsFiniteSet(0..(lost - 1)) /\ Cardinality(0..(lost - 1)) = lost
  <2>1. 0 \in Int /\ lost - 1 \in Int
    BY <1>1
  <2>2. /\ IsFiniteSet(0..(lost - 1))
        /\ Cardinality(0..(lost - 1)) = IF 0 > lost - 1 THEN 0 ELSE (lost - 1) - 0 + 1
    BY <2>1, FS_Interval
  <2> QED
    BY <1>1, <2>2
<1> HIDE DEF m
<1>6. IsFiniteSet(S) /\ Cardinality(S) =< Cardinality(0..(lost - 1))
  BY <1>4, <1>5, FS_Injection
<1> QED
  BY <1>1, <1>5, <1>6, FS_CardinalityType

\* A subset is no larger, with one more element by one at most, and with one
\* less by one at least.
LEMMA SubsetCount ==
  ASSUME NEW T, IsFiniteSet(T), NEW S \in SUBSET T
  PROVE  /\ IsFiniteSet(S) /\ Cardinality(S) \in Nat /\ Cardinality(T) \in Nat
         /\ Cardinality(S) =< Cardinality(T)
<1>1. IsFiniteSet(S) /\ Cardinality(S) =< Cardinality(T)
  BY FS_Subset
<1> QED
  BY <1>1, FS_CardinalityType

LEMMA OneMore ==
  ASSUME NEW T, IsFiniteSet(T), NEW x, NEW S \in SUBSET (T \union {x})
  PROVE  /\ IsFiniteSet(S) /\ Cardinality(S) \in Nat /\ Cardinality(T) \in Nat
         /\ Cardinality(S) =< Cardinality(T) + 1
<1>1. IsFiniteSet(T \union {x}) /\ Cardinality(T) \in Nat
  BY FS_AddElement, FS_CardinalityType
<1>2. Cardinality(T \union {x}) = IF x \in T THEN Cardinality(T) ELSE Cardinality(T) + 1
  BY FS_AddElement
<1>3. /\ IsFiniteSet(S) /\ Cardinality(S) \in Nat /\ Cardinality(T \union {x}) \in Nat
      /\ Cardinality(S) =< Cardinality(T \union {x})
  BY <1>1, SubsetCount
<1> QED
  BY <1>1, <1>2, <1>3

LEMMA OneLess ==
  ASSUME NEW T, IsFiniteSet(T), NEW x \in T, NEW S \in SUBSET (T \ {x})
  PROVE  /\ IsFiniteSet(S) /\ Cardinality(S) \in Nat /\ Cardinality(T) \in Nat
         /\ Cardinality(S) + 1 =< Cardinality(T)
<1>1. IsFiniteSet(T \ {x}) /\ Cardinality(T) \in Nat
  BY FS_RemoveElement, FS_CardinalityType
<1>2. Cardinality(T \ {x}) = Cardinality(T) - 1
  BY FS_RemoveElement
<1>3. /\ IsFiniteSet(S) /\ Cardinality(S) \in Nat
      /\ Cardinality(S) =< Cardinality(T \ {x})
  BY <1>1, SubsetCount
<1> QED
  BY <1>1, <1>2, <1>3

\* Creators of the next state are past the lock, and have just set out for a
\* name that nobody had taken, or were creators before.
LEMMA CreatorsNext ==
  ASSUME WalksFit, [Next]_vars, NEW f, NEW p
  PROVE  /\ Creators(f, p) \subseteq Past
         /\ Creators(f, p)' \subseteq Past
         /\ \/ Creators(f, p)' \subseteq Creators(f, p)
            \/ UNCHANGED <<drive, inAir, lost>> /\ Siblings(f, p) = {}
<1>1. Creators(f, p) \subseteq Past
  BY DEF Creators, Past, WalksFit, WalkOK
<1>2. ASSUME NEW t \in Creators(f, p)'
      PROVE  /\ t \in Past
             /\ \/ t \in Creators(f, p)
                \/ UNCHANGED <<drive, inAir, lost>> /\ Siblings(f, p) = {}
  <2>1. /\ t \in Tasks /\ pc'[t] = "create" /\ parent'[t] = f
        /\ Prefix(path'[t], depth'[t] + 1) = p
    BY <1>2 DEF Creators
  <2>2. /\ path'[t] = path[t] /\ depth'[t] = depth[t] /\ parent'[t] = parent[t]
        /\ pc[t] = "create" \/ (ListEmpty(t) /\ MayCreate(t))
    BY <2>1, SetsOut
  <2>3. CASE pc[t] = "create"
    BY <1>1, <2>1, <2>2, <2>3 DEF Creators
  <2>4. CASE ListEmpty(t) /\ MayCreate(t)
    <3>1. t \in Past
      BY <2>1, <2>4 DEF Past, ListEmpty, MayCreate
    <3>2. UNCHANGED <<drive, inAir, lost>> /\ Children(parent[t], Segment(t)) = {}
      BY <2>4 DEF ListEmpty, server
    <3>3. Append(PathOf(parent[t]), Segment(t)) = Prefix(path[t], depth[t] + 1)
      BY <2>1, <2>4, NextSegment DEF ListEmpty, CallStates
    <3>4. Siblings(f, p) = Children(parent[t], Segment(t))
      BY <2>1, <2>2, <3>3 DEF Siblings, Children
    <3> QED
      BY <3>1, <3>2, <3>4
  <2> QED
    BY <2>2, <2>3, <2>4
<1> QED
  BY <1>1, <1>2

\* How the three change from one state to the next.
LEMMA TakersChange ==
  ASSUME WalksFit, TreeOK, [Next]_vars, NEW f \in Ids \union {Root}, NEW p
  PROVE  \/ /\ Siblings(f, p)' \subseteq Siblings(f, p)
            /\ \/ Requests(f, p)' \subseteq Requests(f, p) /\ lost' = lost
               \/ /\ lost' = lost + 1
                  /\ \E r : Requests(f, p)' \subseteq Requests(f, p) \union {r}
         \/ /\ lost' = lost
            /\ Creators(f, p)' \subseteq Creators(f, p)
            /\ \E g : Siblings(f, p)' \subseteq Siblings(f, p) \union {g}
            /\ \/ /\ \E t \in Creators(f, p) : Creators(f, p)' \subseteq Creators(f, p) \ {t}
                  /\ Requests(f, p)' \subseteq Requests(f, p)
               \/ \E q \in Requests(f, p) : Requests(f, p)' \subseteq Requests(f, p) \ {q}
<1>1. \A q \in inAir : q.parent \in Folders
  BY DEF WalksFit, TypeOK
<1>2. CASE UNCHANGED <<drive, removed>>
  <2>1. Siblings(f, p)' = Siblings(f, p) /\ PathOf(f)' = PathOf(f)
    BY <1>2 DEF Siblings, Folders, PathOf
  <2>2. CASE inAir' \subseteq inAir /\ lost' = lost
    BY <2>1, <2>2 DEF Requests
  <2>3. CASE lost' = lost + 1 /\ \E r : inAir' = inAir \union {r}
    <3>1. PICK r : inAir' = inAir \union {r}
      BY <2>3
    <3>2. Requests(f, p)' \subseteq Requests(f, p) \union {r}
      BY <2>1, <3>1 DEF Requests
    <3> QED
      BY <2>1, <2>3, <3>2
  <2> QED
    BY <2>1, <2>2, <2>3, LostGrows
<1>3. CASE Remove
  <2>1. PICK r \in Folders :
           /\ Folders' = Folders
           /\ \A h \in Folders \union {Root} : PathNext(h) = PathOf(h)
           /\ \A h \in Folders : /\ drive'[h].parent = drive[h].parent
                                 /\ drive'[h].path = drive[h].path
                                 /\ drive'[h].live => drive[h].live
    BY <1>3, RemovedFolder
  <2>2. Siblings(f, p)' \subseteq Siblings(f, p)
    BY <2>1 DEF Siblings
  <2>3. UNCHANGED <<inAir, lost>>
    BY <1>3 DEF Remove
  <2>4. \A q \in inAir : PathOf(q.parent)' = PathOf(q.parent)
    <3> SUFFICES ASSUME NEW q \in inAir PROVE PathNext(q.parent) = PathOf(q.parent)
      BY <2>3 DEF PathNext, PathOf
    <3> QED
      BY <1>1, <2>1
  <2> QED
    BY <2>2, <2>3, <2>4 DEF Requests
<1>4. CASE \E f0, name, g : Grown(f0, name, g)
  <2>1. PICK f0, name, g : Grown(f0, name, g)
    BY <1>4
  <2>2. /\ Folders' = Folders \union {g} /\ g # Root
        /\ \A h \in Folders : drive'[h] = drive[h] /\ h # g
        /\ \A h \in Folders \union {Root} : PathNext(h) = PathOf(h)
    BY <2>1, GrownFolders
  <2>3. Siblings(f, p)' \subseteq Siblings(f, p) \union {g}
    BY <2>2 DEF Siblings
  <2>4. drive' # drive /\ ~Remove
    <3>1. g \in Folders' /\ g \notin Folders
      BY <2>1, <2>2 DEF Grown
    <3>2. Remove => Folders' = Folders
      BY RemovedFolder
    <3> QED
      BY <3>1, <3>2 DEF Folders
  <2>5. Creators(f, p)' \subseteq Creators(f, p)
    BY <2>4, CreatorsNext
  <2>6. inAir' \subseteq inAir /\ lost' = lost
    BY <2>4, LostGrows
  <2>7. Requests(f, p)' \subseteq Requests(f, p)
    <3> SUFFICES ASSUME NEW q \in inAir', q.parent = f, Append(PathNext(f), q.name) = p
                 PROVE  q \in Requests(f, p)
      BY DEF Requests, PathNext, PathOf
    <3>1. q \in inAir /\ f \in Folders
      BY <1>1, <2>6
    <3> QED
      BY <2>2, <3>1 DEF Requests
  <2>8. CASE \E t \in Tasks : Create(t)
    <3>1. PICK t \in Tasks : Create(t)
      BY <2>8
    <3>2. PICK h : Grown(parent[t], Segment(t), h) /\ Advance(t, CacheSet(t, h), depth[t])
      BY <3>1, CreateGrows
    <3>3. /\ Folders' = Folders \union {h} /\ h # parent[t]
          /\ \A k \in Folders : drive'[k] = drive[k] /\ k # h
          /\ drive'[h].parent = parent[t] /\ drive'[h].path = Append(PathOf(parent[t]), Segment(t))
      BY <3>2, GrownFolders
    <3>4. Siblings(f, p)' \subseteq Siblings(f, p) \union {h}
      BY <3>3 DEF Siblings
    <3>5. CASE h \in Siblings(f, p)'
      <4>1. /\ pc[t] = "create" /\ pc[t] \in CallStates
            /\ pc'[t] # "create"
        BY <3>1, <3>2 DEF Create, CallStates, WalksFit, TypeOK, Advance
      <4>2. parent[t] = f /\ Prefix(path[t], depth[t] + 1) = p
        BY <3>3, <3>5, <4>1, NextSegment DEF Siblings
      <4>3. t \in Creators(f, p) /\ t \notin Creators(f, p)'
        BY <4>1, <4>2 DEF Creators
      <4> QED
        BY <2>3, <2>5, <2>6, <2>7, <4>3
    <3>6. CASE h \notin Siblings(f, p)'
      BY <2>6, <2>7, <3>4, <3>6
    <3> QED
      BY <3>5, <3>6
  <2>9. CASE ExecuteLate
    <3>1. PICK q \in inAir :
            /\ inAir' = inAir \ {q}
            /\ IF Exists(q.parent)
               THEN \E h \in Ids \ Folders : drive' = [drive EXCEPT ![h] = NewFolder(q.parent, q.name)]
               ELSE UNCHANGED drive
      BY <2>9 DEF ExecuteLate
    <3>2. PICK h : Grown(q.parent, q.name, h)
      BY <2>4, <2>9, <3>1, LateGrows
    <3>3. /\ Folders' = Folders \union {h}
          /\ \A k \in Folders : drive'[k] = drive[k] /\ k # h
          /\ drive'[h].parent = q.parent /\ drive'[h].path = Append(PathOf(q.parent), q.name)
      BY <3>2, GrownFolders
    <3>4. Siblings(f, p)' \subseteq Siblings(f, p) \union {h}
      BY <3>3 DEF Siblings
    <3>5. CASE h \in Siblings(f, p)'
      <4>1. q.parent = f /\ Append(PathOf(f), q.name) = p
        BY <3>3, <3>5 DEF Siblings
      <4>2. q \in Requests(f, p) /\ q \notin Requests(f, p)'
        BY <3>1, <4>1 DEF Requests
      <4> QED
        BY <2>3, <2>5, <2>6, <2>7, <4>2
    <3>6. CASE h \notin Siblings(f, p)'
      BY <2>6, <2>7, <3>4, <3>6
    <3> QED
      BY <3>5, <3>6
  <2>10. (Next /\ ~Remove /\ ~ExecuteLate /\ ~\E t \in Tasks : Create(t)) => UNCHANGED drive
    BY DEF Next, TaskStep, Answered, Begin, Start, Token, ListFound, ListEmpty, Transient,
           CreateTimesOut, GiveUp, Refused, Restart, server
  <2> QED
    BY <2>4, <2>8, <2>9, <2>10 DEF vars
<1> QED
  BY <1>2, <1>3, <1>4, DriveChanges

LEMMA CountedStep ==
  ASSUME WalksFit, TreeOK, NamesCounted, [Next]_vars
  PROVE  NamesCounted'
<1>1. \A q, r \in inAir : q.number = r.number => q = r
  BY DEF NamesCounted
<1>2. ASSUME NEW q \in inAir', NEW r \in inAir', q.number = r.number
      PROVE  q = r
  <2>1. \A s \in inAir : s.number \in 0..(lost - 1)
    BY DEF WalksFit, TypeOK
  <2>2. lost \in Nat
    BY LostGrows
  <2>3. CASE inAir' \subseteq inAir
    BY <1>1, <1>2, <2>3
  <2>4. CASE \E s : s.number = lost /\ inAir' = inAir \union {s}
    <3>1. PICK s : s.number = lost /\ inAir' = inAir \union {s}
      BY <2>4
    <3>2. \A x \in inAir : x.number # s.number
      BY <2>1, <2>2, <3>1
    <3> QED
      BY <1>1, <1>2, <3>1, <3>2
  <2> QED
    BY <2>3, <2>4, LostGrows
<1>3. ASSUME NEW f \in Ids \union {Root}, NEW p \in Prefixes \union {<<g>> : g \in Present}
      PROVE  /\ IsFiniteSet(Siblings(f, p)')
             /\ Cardinality(Siblings(f, p)') + Cardinality(Creators(f, p)')
                  + Cardinality(Requests(f, p)') =< Cardinality(Processes) + lost'
  <2> DEFINE D == Siblings(f, p)
             C == Creators(f, p)
             A == Requests(f, p)
             n == Cardinality(Processes)
  <2>1. /\ IsFiniteSet(D)
        /\ Cardinality(D) + Cardinality(C) + Cardinality(A) =< n + lost
    BY DEF NamesCounted
  <2>2. /\ C \subseteq Past /\ C' \subseteq Past
        /\ C' \subseteq C \/ (UNCHANGED <<drive, inAir, lost>> /\ D = {})
    BY CreatorsNext
  <2>3. /\ IsFiniteSet(C) /\ Cardinality(C) \in Nat /\ n \in Nat
        /\ IsFiniteSet(C') /\ Cardinality(C') \in Nat /\ Cardinality(C') =< n
    BY <2>2, PastFew
  <2>4. IsFiniteSet(A) /\ Cardinality(A) \in Nat /\ lost \in Nat /\ Cardinality(A) =< lost
    <3>1. A \subseteq inAir
      BY DEF Requests
    <3> QED
      BY <1>1, <3>1, RequestsFew
  <2>5. Cardinality(D) \in Nat
    BY <2>1, FS_CardinalityType
  <2>6. \/ /\ D' \subseteq D
           /\ \/ A' \subseteq A /\ lost' = lost
              \/ lost' = lost + 1 /\ \E r : A' \subseteq A \union {r}
        \/ /\ lost' = lost /\ C' \subseteq C
           /\ \E g : D' \subseteq D \union {g}
           /\ \/ (\E t \in C : C' \subseteq C \ {t}) /\ A' \subseteq A
              \/ \E q \in A : A' \subseteq A \ {q}
    BY TakersChange
  <2> HIDE DEF D, C, A, n
  <2>7. CASE D' \subseteq D /\ A' \subseteq A /\ lost' = lost
    <3>1. /\ IsFiniteSet(D') /\ Cardinality(D') \in Nat /\ Cardinality(D') =< Cardinality(D)
      BY <2>1, <2>7, SubsetCount
    <3>2. Cardinality(A') \in Nat /\ Cardinality(A') =< Cardinality(A)
      BY <2>4, <2>7, SubsetCount
    <3>3. CASE C' \subseteq C
      <4>1. Cardinality(C') =< Cardinality(C)
        BY <2>3, <3>3, SubsetCount
      <4> QED
        BY <2>1, <2>3, <2>4, <2>5, <2>7, <3>1, <3>2, <4>1 DEF D, C, A, n
    <3>4. CASE D = {}
      <4>1. Cardinality(D') = 0
        BY <2>7, <3>4, FS_EmptySet
      <4> QED
        BY <2>3, <2>4, <2>7, <3>1, <3>2, <4>1 DEF D, C, A, n
    <3> QED
      BY <2>2, <3>3, <3>4
  <2>8. CASE D' \subseteq D /\ lost' = lost + 1 /\ \E r : A' \subseteq A \union {r}
    <3>1. /\ IsFiniteSet(D') /\ Cardinality(D') \in Nat /\ Cardinality(D') =< Cardinality(D)
      BY <2>1, <2>8, SubsetCount
    <3>2. Cardinality(A') \in Nat /\ Cardinality(A') =< Cardinality(A) + 1
      BY <2>4, <2>8, OneMore
    <3>3. lost' # lost
      BY <2>4, <2>8
    <3>4. Cardinality(C') =< Cardinality(C)
      BY <2>2, <2>3, <3>3, SubsetCount
    <3> QED
      BY <2>1, <2>3, <2>4, <2>5, <2>8, <3>1, <3>2, <3>4 DEF D, C, A, n
  <2>9. CASE /\ lost' = lost /\ C' \subseteq C
             /\ \E g : D' \subseteq D \union {g}
             /\ (\E t \in C : C' \subseteq C \ {t}) /\ A' \subseteq A
    <3>1. IsFiniteSet(D') /\ Cardinality(D') \in Nat /\ Cardinality(D') =< Cardinality(D) + 1
      BY <2>1, <2>9, OneMore
    <3>2. Cardinality(A') \in Nat /\ Cardinality(A') =< Cardinality(A)
      BY <2>4, <2>9, SubsetCount
    <3>3. Cardinality(C') + 1 =< Cardinality(C)
      BY <2>3, <2>9, OneLess
    <3> QED
      BY <2>1, <2>3, <2>4, <2>5, <2>9, <3>1, <3>2, <3>3 DEF D, C, A, n
  <2>10. CASE /\ lost' = lost /\ C' \subseteq C
              /\ \E g : D' \subseteq D \union {g}
              /\ \E q \in A : A' \subseteq A \ {q}
    <3>1. IsFiniteSet(D') /\ Cardinality(D') \in Nat /\ Cardinality(D') =< Cardinality(D) + 1
      BY <2>1, <2>10, OneMore
    <3>2. Cardinality(A') \in Nat /\ Cardinality(A') + 1 =< Cardinality(A)
      BY <2>4, <2>10, OneLess
    <3>3. Cardinality(C') =< Cardinality(C)
      BY <2>3, <2>10, SubsetCount
    <3> QED
      BY <2>1, <2>3, <2>4, <2>5, <2>10, <3>1, <3>2, <3>3 DEF D, C, A, n
  <2> QED
    BY <2>6, <2>7, <2>8, <2>9, <2>10
<1> QED
  BY <1>2, <1>3 DEF NamesCounted

-----------------------------------------------------------------------------
(* The invariant *)

LEMMA InitIInv == Init => IInv
<1> SUFFICES ASSUME Init PROVE IInv
  OBVIOUS
<1>1. WalksFit
  BY InitFits
<1>2. Folders = Present
  <2>1. ASSUME NEW f \in Present
        PROVE  [parent |-> Root, path |-> <<f>>, live |-> TRUE] # None
    <3>1. <<f>> \in Prefixes \union {<<g>> : g \in Present}
      OBVIOUS
    <3>2. [parent |-> Root, path |-> <<f>>, live |-> TRUE] \in FolderRecords
      BY <3>1 DEF FolderRecords
    <3> QED
      BY <3>2, FolderAssumption
  <2> QED
    BY <2>1, FolderAssumption DEF Init, Folders, Ids
<1>3. \A f \in Present : /\ drive[f].parent = Root /\ drive[f].path = <<f>> /\ drive[f].live
                         /\ f \in Names
  BY FolderAssumption DEF Init, Ids, Names
<1>4. TreeOK
  <2>1. ASSUME NEW f \in Present
        PROVE  Prefix(<<f>>, Len(<<f>>) - 1) = <<>>
    <3>1. <<f>> \in Seq(Names) /\ Len(<<f>>) = 1
      BY <1>3
    <3>2. SubSeq(<<f>>, 1, 0) \in Seq(Names) /\ Len(SubSeq(<<f>>, 1, 0)) = 0
      BY <3>1
    <3> QED
      BY <3>1, <3>2, EmptySeq DEF Prefix
  <2> QED
    BY <1>2, <1>3, <2>1 DEF TreeOK, PathOf, Exists
<1>5. CacheClosed
  BY FolderAssumption, KeyAbove DEF Init, CacheClosed
<1>6. MadeOnce
  BY <1>2, <1>3 DEF Init, MadeOnce
<1>7. NamesCounted
  <2>1. IsFiniteSet(Processes) /\ Processes # {} /\ Cardinality(Processes) \in Nat
    BY FolderAssumption, FS_CardinalityType
  <2>2. Cardinality(Processes) >= 1
    BY <2>1, FS_EmptySet
  <2>3. ASSUME NEW f \in Ids \union {Root}, NEW p \in Prefixes \union {<<g>> : g \in Present}
        PROVE  /\ IsFiniteSet(Siblings(f, p))
               /\ Cardinality(Siblings(f, p)) + Cardinality(Creators(f, p))
                    + Cardinality(Requests(f, p)) =< Cardinality(Processes) + lost
    <3>1. Creators(f, p) = {} /\ Requests(f, p) = {} /\ lost = 0
      BY DEF Init, Creators, Requests
    <3>2. \E g : Siblings(f, p) \subseteq {} \union {g}
      <4>1. \A g, h \in Siblings(f, p) : g = h
        BY <1>2, <1>3 DEF Siblings
      <4> QED
        BY <4>1
    <3>3. IsFiniteSet({}) /\ Cardinality({}) = 0
      BY FS_EmptySet
    <3>4. /\ IsFiniteSet(Siblings(f, p)) /\ Cardinality(Siblings(f, p)) \in Nat
          /\ Cardinality(Siblings(f, p)) =< 1
      <4>1. PICK g : Siblings(f, p) \in SUBSET ({} \union {g})
        BY <3>2
      <4>2. /\ IsFiniteSet(Siblings(f, p)) /\ Cardinality(Siblings(f, p)) \in Nat
            /\ Cardinality(Siblings(f, p)) =< Cardinality({}) + 1
        BY <3>3, <4>1, OneMore
      <4> QED
        BY <3>3, <4>2
    <3> QED
      BY <2>1, <2>2, <3>1, <3>3, <3>4
  <2> QED
    BY <2>3 DEF NamesCounted, Init
<1> QED
  BY <1>1, <1>4, <1>5, <1>6, <1>7 DEF IInv

LEMMA NextIInv == IInv /\ [Next]_vars => IInv'
<1> SUFFICES ASSUME IInv, [Next]_vars PROVE IInv'
  OBVIOUS
<1>1. WalksFit /\ TreeOK /\ CacheClosed /\ MadeOnce /\ NamesCounted
  BY DEF IInv
<1> QED
  BY <1>1, NextFits, TreeStep, ClosedStep, MadeOnceStep, CountedStep DEF IInv

-----------------------------------------------------------------------------
(* The theorems *)

\* In every reachable state the folders of Drive, the caches, the walks and
\* the queues of the locks fit together, and every folder is accounted for
\* (google_drive.py:136-201).
THEOREM FolderInvariant == Spec => []IInv
  BY InitIInv, NextIInv, PTL DEF Spec

\* Every variable stays in its set.
THEOREM FolderTypes == Spec => []TypeOK
<1>1. IInv => TypeOK
  BY DEF IInv, WalksFit
<1> QED
  BY <1>1, FolderInvariant, PTL

\* An id in a cache or in a task's hands names the logical path it stands for,
\* for any number of processes, tasks, lost requests and removed folders.
THEOREM IdsNamePaths == Spec => []FoldersNamePaths
<1>1. IInv => FoldersNamePaths
  BY DEF IInv, WalksFit
<1> QED
  BY <1>1, FolderInvariant, PTL

\* Of the tasks of one process that may create folders, at most one is past
\* the lock (google_drive.py:71-74, 136-140).
THEOREM OneCreator == Spec => []CreatorsTakeTurns
<1>1. IInv => CreatorsTakeTurns
  BY DEF IInv, WalksFit, LockOK, CreatorsTakeTurns
<1> QED
  BY <1>1, FolderInvariant, PTL

\* A name is taken in a folder at most once for each process and once for each
\* POST that was given up, for any number of processes, tasks, timeouts,
\* removals and restarts (google_drive.py:71-74, 136-140).
THEOREM NoUnexplainedDuplicate == Spec => []DuplicatesExplained
<1>1. ASSUME IInv, NEW f \in Folders, drive[f].live
      PROVE  Cardinality({g \in Folders : /\ drive[g].live /\ drive[g].parent = drive[f].parent
                                          /\ drive[g].path = drive[f].path})
               =< Cardinality(Processes) + lost
  <2> DEFINE a == drive[f].parent
             p == drive[f].path
  <2>1. WalksFit /\ NamesCounted
    BY <1>1 DEF IInv
  <2>2. a \in Ids \union {Root} /\ p \in Prefixes \union {<<g>> : g \in Present}
    BY <2>1, FolderPath DEF FolderRecords
  <2>3. /\ IsFiniteSet(Siblings(a, p))
        /\ Cardinality(Siblings(a, p)) + Cardinality(Creators(a, p))
             + Cardinality(Requests(a, p)) =< Cardinality(Processes) + lost
    BY <2>1, <2>2 DEF NamesCounted
  <2>4. Creators(a, p) \subseteq Past
    BY <2>1 DEF Creators, Past, WalksFit, WalkOK
  <2>5. Cardinality(Creators(a, p)) \in Nat /\ Cardinality(Processes) \in Nat
    BY <2>1, <2>4, PastFew
  <2>6. Requests(a, p) \subseteq inAir /\ \A q, r \in inAir : q.number = r.number => q = r
    BY <2>1 DEF Requests, NamesCounted
  <2>7. Cardinality(Requests(a, p)) \in Nat /\ lost \in Nat
    BY <2>1, <2>6, RequestsFew
  <2>8. Cardinality(Siblings(a, p)) \in Nat
    BY <2>3, FS_CardinalityType
  <2>9. {g \in Folders : /\ drive[g].live /\ drive[g].parent = drive[f].parent
                         /\ drive[g].path = drive[f].path} = Siblings(a, p)
    BY DEF Siblings
  <2> HIDE DEF a, p
  <2>10. Cardinality(Siblings(a, p)) =< Cardinality(Processes) + lost
    BY <2>3, <2>5, <2>7, <2>8
  <2> QED
    BY <2>9, <2>10, Zenon
<1>2. IInv => DuplicatesExplained
  BY <1>1 DEF DuplicatesExplained
<1> QED
  BY <1>2, FolderInvariant, PTL

\* What the documentation says of a process holds as long as it is the only
\* one and loses no request: no two folders have one path, whatever people
\* remove and however often it is restarted (STORAGE_GOOGLE_DRIVE.md:66-67).
THEOREM OneProcessNoDuplicates ==
  ASSUME Alone
  PROVE  Spec => [](lost = 0 => NoLocalDuplicates)
<1>1. IInv => (lost = 0 => NoLocalDuplicates)
  BY DEF IInv, MadeOnce, NoLocalDuplicates
<1> QED
  BY <1>1, FolderInvariant, PTL

\* The cache of a process that is the only one is a subtree of Drive as long
\* as no request was given up and no folder removed (google_drive.py:175-199).
THEOREM OneProcessCachesASubtree ==
  ASSUME Alone
  PROVE  Spec => []CacheIsASubtree
<1>1. ASSUME IInv, lost = 0, removed = 0, NEW p \in Processes, NEW key \in Prefixes,
             Len(key) > 1, cache[p][key] # None
      PROVE  cache[p][Prefix(key, Len(key) - 1)] = drive[cache[p][key]].parent
  <2> DEFINE above == Prefix(key, Len(key) - 1)
             f == cache[p][key]
             g == cache[p][above]
  <2>1. WalksFit /\ TreeOK /\ CacheClosed /\ MadeOnce
    BY <1>1 DEF IInv
  <2>2. key \in Seq(Names) /\ Len(key) \in Nat /\ above \in Prefixes
    BY <1>1, KeyAbove
  <2>3. f \in Folders /\ PathOf(f) = key
    BY <1>1, <2>1 DEF WalksFit, TypeOK, FoldersNamePaths
  <2>4. g # None
    BY <1>1, <2>1 DEF CacheClosed
  <2>5. g \in Folders /\ PathOf(g) = above
    BY <2>1, <2>2, <2>4 DEF WalksFit, TypeOK, FoldersNamePaths
  <2>6. /\ f # Root /\ drive[f].path = key
        /\ g # Root /\ drive[g].path = above
    BY <2>1, <2>3, <2>5, FolderPath
  <2>7. /\ drive[f].parent \in Folders \union {Root}
        /\ PathOf(drive[f].parent) = above
    BY <2>1, <2>3, <2>6 DEF TreeOK
  <2>8. drive[f].parent # Root
    <3>1. Len(above) \in Nat \ {0}
      BY <2>2, KeyAbove
    <3>2. PathOf(Root) = <<>> /\ Len(<<>>) = 0
      BY EmptySeq DEF PathOf
    <3> QED
      BY <2>7, <3>1, <3>2
  <2>9. drive[f].parent \in Folders /\ drive[drive[f].parent].path = above
    BY <2>7, <2>8 DEF PathOf
  <2>10. drive[g].live /\ drive[drive[f].parent].live
    BY <1>1, <2>1, <2>5, <2>9 DEF TreeOK
  <2> HIDE DEF above, f, g
  <2>11. g = drive[f].parent
    BY <1>1, <2>1, <2>5, <2>6, <2>9, <2>10 DEF MadeOnce
  <2> QED
    BY <2>11 DEF f, g, above
<1>2. IInv => CacheIsASubtree
  BY <1>1 DEF CacheIsASubtree
<1> QED
  BY <1>2, FolderInvariant, PTL

\* A step that creates a folder is the POST of a task, or a late one.
LEMMA CreatingStep ==
  ASSUME WalksFit, [Next]_vars, NEW f \in NewFolders
  PROVE  /\ drive'[f].parent # Root
         /\ \/ \E t \in Tasks : creating[t] /\ pc[t] = "create" /\ pc'[t] # "create"
            \/ inAir' # inAir
<1>1. f \in Ids /\ drive[f] = None /\ drive'[f] # None
  BY DEF NewFolders
<1>2. Root \notin Ids /\ drive \in [Ids -> FolderRecords \union {None}]
  BY FolderAssumption DEF WalksFit, TypeOK
<1>3. CASE \E t \in Tasks : Create(t)
  <2>1. PICK t \in Tasks : Create(t)
    BY <1>3
  <2>2. pc[t] = "create" /\ pc[t] \in CallStates /\ creating[t]
    BY <2>1 DEF Create, CallStates, WalksFit, WalkOK
  <2>3. parent[t] \in Folders
    BY <2>2, NextSegment
  <2>4. PICK g \in Ids \ Folders :
          /\ drive' = [drive EXCEPT ![g] = NewFolder(parent[t], Segment(t))]
          /\ Advance(t, CacheSet(t, g), depth[t])
    BY <2>1 DEF Create
  <2>5. f = g
    BY <1>1, <1>2, <2>4
  <2>6. drive'[f].parent = parent[t] /\ parent[t] # Root
    BY <1>1, <1>2, <2>3, <2>4, <2>5 DEF NewFolder, Folders
  <2>7. pc'[t] # "create"
    BY <2>4 DEF Advance, WalksFit, TypeOK
  <2> QED
    BY <2>2, <2>6, <2>7
<1>4. CASE ExecuteLate
  <2>1. PICK q \in inAir :
          /\ inAir' = inAir \ {q}
          /\ IF Exists(q.parent)
             THEN \E g \in Ids \ Folders :
                    drive' = [drive EXCEPT ![g] = NewFolder(q.parent, q.name)]
             ELSE UNCHANGED drive
    BY <1>4 DEF ExecuteLate
  <2>2. PICK g \in Ids \ Folders :
          drive' = [drive EXCEPT ![g] = NewFolder(q.parent, q.name)]
    BY <1>1, <2>1
  <2>3. f = g /\ q.parent \in Folders
    BY <1>1, <1>2, <2>2 DEF WalksFit, TypeOK
  <2>4. drive'[f].parent = q.parent /\ q.parent # Root
    BY <1>1, <1>2, <2>2, <2>3 DEF NewFolder, Folders
  <2> QED
    BY <2>1, <2>4
<1>5. CASE Remove
  BY <1>1, <1>2, <1>5 DEF Remove, Folders
<1>6. CASE UNCHANGED drive
  BY <1>1, <1>6
<1>7. (Next /\ ~Remove /\ ~ExecuteLate /\ ~\E t \in Tasks : Create(t)) => UNCHANGED drive
  BY DEF Next, TaskStep, Answered, Begin, Start, Token, ListFound, ListEmpty, Transient,
         CreateTimesOut, GiveUp, Refused, Restart, server
<1> QED
  BY <1>3, <1>4, <1>5, <1>6, <1>7 DEF vars

\* Nothing but an upload's POST makes a folder, and none makes an official one
\* (google_drive.py:166-197).
THEOREM ReadersNeverCreate == Spec => OnlyUploadersCreate
<1> DEFINE Legal ==
      \A f \in NewFolders :
        /\ drive'[f].parent # Root
        /\ \/ \E t \in Tasks : creating[t] /\ pc[t] = "create" /\ pc'[t] # "create"
           \/ inAir' # inAir
<1>1. IInv /\ [Next]_vars => [Legal]_vars
  BY CreatingStep DEF IInv
<1> QED
  BY <1>1, FolderInvariant, PTL DEF Spec, OnlyUploadersCreate
=============================================================================
