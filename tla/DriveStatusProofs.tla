--------------------------- MODULE DriveStatusProofs ---------------------------
(***************************************************************************)
(* Proofs about DriveStatus: CONNECTED is never answered without a moment  *)
(* at which it was true, and the cache never goes back, for any number of  *)
(* requests, any official tree, any time to live and any length of time.   *)
(***************************************************************************)
EXTENDS DriveStatusProperties, TLAPS

LEMMA InitInv == Init => IInv
BY StatusAssumption
   DEF Init, IInv, TypeOK, HistoryOK, CacheOK, CheckOK, ConnectedIsTrue, Statuses,
       TreeIsComplete, Sources

\* An answer that takes no call to Drive, and the beginning of a check.
LEMMA ArrivalInv ==
  ASSUME IInv, NEW r \in Requests,
         ServeCached(r) \/ ServeConnecting(r) \/ CheckRaises(r) \/ CheckLocally(r)
           \/ CheckBegins(r)
  PROVE  IInv'
<1> USE StatusAssumption DEF IInv, Statuses, Sources, Return, Fresh, Locked, Loaded, LoadCredentials,
                             world
<1>1. TypeOK'
  <2>1. CASE ServeCached(r)
    BY <2>1 DEF ServeCached, TypeOK
  <2>2. CASE ServeConnecting(r)
    BY <2>2 DEF ServeConnecting, TypeOK
  <2>3. CASE CheckLocally(r)
    BY <2>3 DEF CheckLocally, TypeOK
  <2>4. CASE CheckBegins(r)
    BY <2>4 DEF CheckBegins, TypeOK
  <2>5. CASE CheckRaises(r)
    BY <2>5 DEF CheckRaises, TypeOK
  <2> QED  BY <2>1, <2>2, <2>3, <2>4, <2>5
<1>2. HistoryOK'
  BY DEF ServeCached, ServeConnecting, CheckRaises, CheckLocally, CheckBegins, HistoryOK,
         TreeIsComplete
<1>3. CacheOK'
  BY DEF ServeCached, ServeConnecting, CheckRaises, CheckLocally, CheckBegins, CacheOK
<1>4. CheckOK'
  BY DEF ServeCached, ServeConnecting, CheckRaises, CheckLocally, CheckBegins, TypeOK,
         CheckOK
<1>5. ConnectedIsTrue'
  <2>1. CASE ServeCached(r)
    BY <2>1 DEF ServeCached, TypeOK, CacheOK, ConnectedIsTrue
  <2>2. CASE ServeConnecting(r)
    BY <2>2 DEF ServeConnecting, TypeOK, ConnectedIsTrue
  <2>3. CASE CheckLocally(r)
    BY <2>3 DEF CheckLocally, TypeOK, ConnectedIsTrue
  <2>4. CASE CheckBegins(r)
    BY <2>4 DEF CheckBegins, TypeOK, ConnectedIsTrue
  <2>5. CASE CheckRaises(r)
    BY <2>5 DEF CheckRaises, TypeOK, ConnectedIsTrue
  <2> QED  BY <2>1, <2>2, <2>3, <2>4, <2>5
<1> QED  BY <1>1, <1>2, <1>3, <1>4, <1>5

\* A check that succeeds, fails or is cancelled.
LEMMA CheckInv ==
  ASSUME IInv, NEW r \in Requests, Check(r)
  PROVE  IInv'
<1> USE StatusAssumption DEF IInv, Statuses, Return, Released, world, CheckEnds
<1>1. pc[r] = "listing" /\ lock = r
  BY DEF Check, CheckSucceeds, CheckFails, Cancelled, TypeOK
<1>2. TypeOK'
  <2>1. CASE CheckSucceeds(r)
    BY <1>1, <2>1 DEF CheckSucceeds, TypeOK
  <2>2. CASE CheckFails(r)
    BY <1>1, <2>2 DEF CheckFails, TypeOK
  <2>3. CASE Cancelled(r)
    BY <1>1, <2>3 DEF Cancelled, TypeOK
  <2> QED  BY <2>1, <2>2, <2>3 DEF Check
<1>3. HistoryOK'
  BY DEF Check, CheckSucceeds, CheckFails, Cancelled, HistoryOK, TreeIsComplete
<1>4. CheckOK'
  BY <1>1 DEF Check, CheckSucceeds, CheckFails, Cancelled, TypeOK, CheckOK
<1>5. CacheOK' /\ ConnectedIsTrue'
  <2>1. CASE CheckSucceeds(r)
    <3>1. TreeValid(root) => now \in complete
      BY DEF TreeValid, HistoryOK, TreeIsComplete
    <3> QED  BY <1>1, <2>1, <3>1
             DEF CheckSucceeds, TypeOK, CacheOK, ConnectedIsTrue
  <2>2. CASE CheckFails(r)
    BY <1>1, <2>2 DEF CheckFails, TypeOK, CacheOK, ConnectedIsTrue
  <2>3. CASE Cancelled(r)
    BY <1>1, <2>3 DEF Cancelled, TypeOK, CacheOK, ConnectedIsTrue
  <2> QED  BY <2>1, <2>2, <2>3 DEF Check
<1> QED  BY <1>2, <1>3, <1>4, <1>5

\* Time passes, people change the folders and the credential, and an
\* operation loads it.
LEMMA WorldInv ==
  ASSUME IInv, Operation \/ Tick \/ ChangeFolders \/ ChangeSource
  PROVE  IInv'
<1> USE StatusAssumption DEF IInv, Statuses, Sources, Record, TreeIsComplete, world
<1>1. TypeOK'
  <2>0. CASE Operation
    BY <2>0 DEF Operation, Loaded, LoadCredentials, TypeOK
  <2>1. CASE Tick
    BY <2>1 DEF Tick, TypeOK
  <2>2. CASE ChangeFolders
    BY <2>2 DEF ChangeFolders, TypeOK
  <2>3. CASE ChangeSource
    BY <2>3 DEF ChangeSource, TypeOK
  <2> QED  BY <2>0, <2>1, <2>2, <2>3
<1>2. HistoryOK'
  BY DEF Operation, Tick, ChangeFolders, ChangeSource, TypeOK, HistoryOK
<1>3. complete \subseteq complete'
  BY DEF Operation, Tick, ChangeFolders, ChangeSource
<1>4. CacheOK' /\ CheckOK' /\ ConnectedIsTrue'
  BY <1>3 DEF Operation, Tick, ChangeFolders, ChangeSource, CacheOK, CheckOK, ConnectedIsTrue
<1> QED  BY <1>1, <1>2, <1>4

LEMMA NextInv == IInv /\ [Next]_vars => IInv'
<1> SUFFICES ASSUME IInv, [Next]_vars PROVE IInv'
  OBVIOUS
<1>1. CASE UNCHANGED vars
  BY <1>1 DEF vars, IInv, TypeOK, HistoryOK, CacheOK, CheckOK, ConnectedIsTrue,
              TreeIsComplete
<1>2. CASE Next
  BY <1>2, ArrivalInv, CheckInv, WorldInv DEF Next
<1> QED  BY <1>1, <1>2

\* Clock, cache, answers and the check under way fit together in every
\* reachable state.
THEOREM StatusInvariant == Spec => []IInv
<1> QED  BY InitInv, NextInv, PTL DEF Spec

\* Every variable stays in its set, and only the holder of _status_lock lists
\* the root (google_drive.py:243-250).
THEOREM StatusTypes == Spec => []TypeOK
<1>1. IInv => TypeOK  BY DEF IInv
<1> QED  BY <1>1, StatusInvariant, PTL

\* A CONNECTED that is answered was true recently enough
\* (google_drive.py:5, 235-305).
THEOREM ConnectedWasTrue == Spec => []ConnectedIsTrue
<1>1. IInv => ConnectedIsTrue  BY DEF IInv
<1> QED  BY <1>1, StatusInvariant, PTL

\* A cached status is replaced by one that was asked for no earlier
\* (google_drive.py:235-305).
THEOREM CacheNeverGoesBack == Spec => CacheMovesForward
<1>1. IInv /\ [Next]_vars
        => [statusCache # None => statusCache'.at >= statusCache.at]_statusCache
  <2>0. SUFFICES ASSUME IInv, Next, statusCache' # statusCache, statusCache # None
                 PROVE  statusCache'.at >= statusCache.at
    BY DEF vars
  <2>1. statusCache.at \in 0..now
    BY <2>0 DEF IInv, TypeOK
  <2>2. ASSUME NEW r \in Requests, CheckLocally(r)
        PROVE  statusCache'.at >= statusCache.at
    BY <2>0, <2>1, <2>2, StatusAssumption DEF CheckLocally, IInv, TypeOK
  <2>3. ASSUME NEW r \in Requests, Check(r)
        PROVE  statusCache'.at >= statusCache.at
    <3>1. pc[r] = "listing" /\ statusCache'.at = arrived[r]
      BY <2>0, <2>3 DEF Check, CheckSucceeds, CheckFails, CheckEnds, Cancelled,
                        Return, Released, world, TreeValid
    <3>2. arrived[r] \in 0..now
      BY <2>0 DEF IInv, TypeOK
    <3> QED  BY <2>0, <2>1, <3>1, <3>2, StatusAssumption DEF IInv, TypeOK, CheckOK
  <2> QED  BY <2>0, <2>2, <2>3 DEF Next, ServeCached, ServeConnecting, CheckRaises,
                             CheckBegins, Operation, Tick, ChangeFolders, ChangeSource, world
<1> QED  BY <1>1, StatusInvariant, PTL DEF Spec, CacheMovesForward
=============================================================================
