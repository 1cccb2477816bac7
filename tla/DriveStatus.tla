------------------------------- MODULE DriveStatus -------------------------------
(***************************************************************************)
(* get_status() of the Google Drive storage provider: concurrent requests  *)
(* of the dashboard share one cached answer and one check at a time, while *)
(* people add and remove folders of Drive and Drive comes and goes.        *)
(*                                                                         *)
(* Time is a counter that ticks at any moment.  A status carries the time  *)
(* its request came in ("checked_at", taken before anything is awaited).   *)
(***************************************************************************)
EXTENDS Integers, FiniteSets

CONSTANTS
  Requests,   \* concurrent calls of get_status
  Official,   \* OFFICIAL_TOP_LEVEL_FOLDERS
  Others,     \* further names a folder of the root may have
  None,
  TTL,        \* google_drive_status_cache_ttl_s
  MaxTime     \* BOUND: how long the clock runs

ASSUME StatusAssumption ==
  /\ Official # {}
  /\ Official \intersect Others = {}
  /\ None \notin Requests \union {"broken", "good"}
  /\ TTL \in Nat
  /\ MaxTime \in Nat

VARIABLES
  now,          \* the clock
  root,         \* names of the folders in the root of Drive
  source,       \* the credentials configured: inline JSON, and a file
  complete,     \* times at which the official tree was complete
  credentials,  \* None, "broken" or "good": what _load_credentials_once kept
  statusCache,  \* _status_cache
  lock,         \* the request that holds _status_lock
  pc,           \* where a request is suspended
  arrived,      \* its "now"
  answer        \* the status it returned, and whether it was its own check

vars == <<now, root, source, complete, credentials, statusCache, lock, pc, arrived,
          answer>>
world == <<now, root, source, complete>>

Statuses == {"connected", "degraded", "error", "not_configured"}

\* What a setting that may hold a service account yields: nothing, a
\* CredentialLoadError, another exception (JSON that is no object, a key that
\* is encrypted), or credentials.
Sources == {"none", "broken", "malformed", "good"}

TreeIsComplete(names) == Official \subseteq names

\* validate_tree(): folders of other names do not matter.
TreeValid(names) == Official \ names = {}

Init ==
  /\ now = 0
  /\ root \in {Official, Official \union Others}
  /\ source \in [json : Sources, file : Sources]
  /\ complete = {0}
  /\ credentials = None
  /\ statusCache = None
  /\ lock = None
  /\ pc = [r \in Requests |-> "idle"]
  /\ arrived = [r \in Requests |-> 0]
  /\ answer = [r \in Requests |-> None]

-----------------------------------------------------------------------------
Return(r, status, own) ==
  /\ pc' = [pc EXCEPT ![r] = "idle"]
  /\ answer' = [answer EXCEPT ![r] = [status |-> status, own |-> own, served |-> now]]

\* Mutant: the cached status never grows old.
AlwaysFresh == statusCache # None

Fresh == statusCache # None /\ now - statusCache.at < TTL

\* A request that does not force a refresh is served from the cache.
ServeCached(r) ==
  /\ pc[r] = "idle"
  /\ Fresh
  /\ arrived' = [arrived EXCEPT ![r] = now]
  /\ Return(r, statusCache.status, FALSE)
  /\ UNCHANGED <<credentials, statusCache, lock>>
  /\ UNCHANGED world

\* Mutant: requests do not look whether another one is checking.
NeverLocked == FALSE

Locked == lock # None

\* CONNECTING: another request is checking.
ServeConnecting(r) == \E force \in BOOLEAN :
  /\ pc[r] = "idle"
  /\ force \/ ~Fresh
  /\ Locked
  /\ arrived' = [arrived EXCEPT ![r] = now]
  /\ Return(r, "connecting", FALSE)
  /\ UNCHANGED <<credentials, statusCache, lock>>
  /\ UNCHANGED world

\* load_credentials(): the inline JSON, even when it is broken, goes before
\* the file.
LoadCredentials == IF source.json # "none" THEN source.json ELSE source.file

\* _load_credentials_once(): what was loaded, or failed to load, is kept for
\* the life of the process; without a source, or when another exception was
\* raised, it is tried again.
Loaded ==
  IF credentials = None /\ LoadCredentials \in {"broken", "good"}
  THEN LoadCredentials ELSE credentials

LoadRaises == credentials = None /\ LoadCredentials = "malformed"

\* Every operation of the provider begins by loading the credentials.
Operation ==
  /\ credentials' = Loaded
  /\ UNCHANGED <<statusCache, lock, pc, arrived, answer>>
  /\ UNCHANGED world

\* An exception that is not expected leaves get_status().
CheckRaises(r) == \E force \in BOOLEAN :
  /\ pc[r] = "idle"
  /\ force \/ ~Fresh
  /\ ~Locked
  /\ LoadRaises
  /\ arrived' = [arrived EXCEPT ![r] = now]
  /\ answer' = [answer EXCEPT ![r] = None]
  /\ UNCHANGED <<credentials, statusCache, lock, pc>>
  /\ UNCHANGED world

\* Without usable credentials the answer takes no call to Drive ...
CheckLocally(r) == \E force \in BOOLEAN :
  /\ pc[r] = "idle"
  /\ force \/ ~Fresh
  /\ ~Locked
  /\ Loaded # "good" /\ ~LoadRaises
  /\ LET status == IF Loaded = None THEN "not_configured" ELSE "error" IN
     /\ statusCache' = [status |-> status, at |-> now]
     /\ Return(r, status, TRUE)
  /\ credentials' = Loaded
  /\ arrived' = [arrived EXCEPT ![r] = now]
  /\ UNCHANGED lock
  /\ UNCHANGED world

\* ... with them the request suspends, holding the lock.
CheckBegins(r) == \E force \in BOOLEAN :
  /\ pc[r] = "idle"
  /\ force \/ ~Fresh
  /\ ~Locked
  /\ Loaded = "good"
  /\ credentials' = Loaded
  /\ lock' = r
  /\ pc' = [pc EXCEPT ![r] = "listing"]
  /\ arrived' = [arrived EXCEPT ![r] = now]
  /\ answer' = [answer EXCEPT ![r] = None]
  /\ UNCHANGED statusCache
  /\ UNCHANGED world

\* Mutant: a check that ends by an exception keeps the lock.
LockAfter(status) == IF status = "error" THEN lock ELSE None

Released(status) == None

CheckEnds(r, status) ==
  /\ pc[r] = "listing"
  /\ statusCache' = [status |-> status, at |-> arrived[r]]
  /\ Return(r, status, TRUE)
  /\ lock' = Released(status)
  /\ UNCHANGED <<credentials, arrived>>
  /\ UNCHANGED world

\* The listing of the root is answered and judged.
CheckSucceeds(r) ==
  CheckEnds(r, IF TreeValid(root) THEN "connected" ELSE "degraded")

\* No token, no connection, a status that is not retried, or no attempt left.
CheckFails(r) == CheckEnds(r, "error")

\* The task is cancelled: "async with" still releases the lock.
Cancelled(r) ==
  /\ pc[r] = "listing"
  /\ pc' = [pc EXCEPT ![r] = "idle"]
  /\ lock' = Released("error")
  /\ UNCHANGED <<credentials, statusCache, arrived, answer>>
  /\ UNCHANGED world

-----------------------------------------------------------------------------
(* People, and time *)

Record(names, time) == IF TreeIsComplete(names) THEN complete \union {time} ELSE complete

Tick ==
  /\ now < MaxTime
  /\ now' = now + 1
  /\ complete' = Record(root, now')
  /\ UNCHANGED <<root, source, credentials, statusCache, lock, pc, arrived, answer>>

ChangeFolders == \E n \in Official \union Others :
  /\ root' = IF n \in root THEN root \ {n} ELSE root \union {n}
  /\ complete' = Record(root', now)
  /\ UNCHANGED <<now, source, credentials, statusCache, lock, pc, arrived, answer>>

\* The file of the service account is repaired, or removed; the settings
\* themselves are those the process started with.
ChangeSource == \E s \in {"broken", "malformed", "good"} :
  /\ source.file # "none"
  /\ source' = [source EXCEPT !.file = s]
  /\ UNCHANGED <<now, root, complete, credentials, statusCache, lock, pc, arrived, answer>>

-----------------------------------------------------------------------------
Check(r) == CheckSucceeds(r) \/ CheckFails(r) \/ Cancelled(r)

Next ==
  \/ \E r \in Requests :
       \/ ServeCached(r) \/ ServeConnecting(r)
       \/ CheckRaises(r) \/ CheckLocally(r) \/ CheckBegins(r) \/ Check(r)
  \/ Operation
  \/ Tick
  \/ ChangeFolders
  \/ ChangeSource

Spec == Init /\ [][Next]_vars

\* A check is bounded by the timeout of its requests and their retries.
FairSpec == Spec /\ \A r \in Requests : WF_vars(Check(r))
=============================================================================
