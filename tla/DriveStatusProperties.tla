------------------------- MODULE DriveStatusProperties -------------------------
(***************************************************************************)
(* What get_status() of DriveStatus guarantees.                            *)
(***************************************************************************)
EXTENDS DriveStatus

\* Every variable has its type; the lock is held by the request that lists
\* the root, and by no other.
TypeOK ==
  /\ now \in 0..MaxTime
  /\ root \subseteq Official \union Others
  /\ source \in [json : Sources, file : Sources]
  /\ complete \subseteq 0..now
  /\ credentials \in {None, "broken", "good"}
  /\ statusCache \in [status : Statuses, at : 0..now] \union {None}
  /\ pc \in [Requests -> {"idle", "listing"}]
  /\ {r \in Requests : pc[r] = "listing"} = {lock} \ {None}
  /\ arrived \in [Requests -> 0..now]
  /\ answer \in [Requests -> [status : Statuses \union {"connecting"}, own : BOOLEAN,
                              served : 0..now] \union {None}]

\* "never pretends to be CONNECTED" (google_drive.py:5): when CONNECTED is
\* answered, the official tree was complete at a moment no older than the
\* time to live of the cache, or than the request that checked it.
ConnectedIsTrue ==
  \A r \in Requests :
    (answer[r] # None /\ answer[r].status = "connected") =>
      \E time \in complete :
        /\ time =< answer[r].served
        /\ \/ answer[r].own /\ time >= arrived[r]
           \/ ~answer[r].own /\ time > answer[r].served - TTL

(* The inductive invariant behind the safety properties *)

\* The history knows that the tree is complete now, when it is.
HistoryOK == TreeIsComplete(root) => now \in complete

\* A cached CONNECTED was true after its check was asked for.
CacheOK ==
  (statusCache # None /\ statusCache.status = "connected") =>
    \E time \in complete : time >= statusCache.at

\* Nobody answers while a check is under way that was asked for before.
CheckOK ==
  \A r \in Requests : pc[r] = "listing" =>
    /\ answer[r] = None
    /\ statusCache # None => statusCache.at =< arrived[r]

\* Clock, cache, answers and the check under way fit together
\* (google_drive.py:235-305).
IInv == TypeOK /\ HistoryOK /\ CacheOK /\ CheckOK /\ ConnectedIsTrue

\* CONNECTING is answered only while another request is checking, which then
\* ends: nobody is told to wait for nothing (google_drive.py:243-248).
EveryCheckEnds == lock # None ~> lock = None

\* What the cache holds is replaced by what was asked later, never by an
\* older answer (google_drive.py:235-305).
CacheMovesForward ==
  [][statusCache # None => statusCache'.at >= statusCache.at]_statusCache
=============================================================================
