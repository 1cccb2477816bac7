---------------------------- MODULE AvatarRegistry ----------------------------
(***************************************************************************)
(* The Avatar Registry of core/avatars: HTTP requests served concurrently  *)
(* by one event loop over a PostgreSQL table.                              *)
(*                                                                         *)
(* One action per database round trip, the points where a handler awaits   *)
(* and another one may run: service.py reads the row in a session of its   *)
(* own, decides, and repository.py writes in a second session, so whatever *)
(* was read may be stale by then.  PostgreSQL runs at READ COMMITTED: a    *)
(* statement sees committed rows, a write holds its row (an insert, its    *)
(* slug) until the transaction ends, and a statement that waited for the   *)
(* holder looks at the row again.                                          *)
(***************************************************************************)
EXTENDS AvatarSchemas, FiniteSets

CONSTANT Requests

VARIABLES
  avatars,  \* committed rows of table avatars
  issued,   \* ids of rows ever committed: gen_random_uuid() repeats none
  pc,       \* where a request's handler is suspended
  call,     \* the call it serves
  current,  \* "current" of service.py: the row its checks were made on
  record,   \* "record" of repository.py: the row its statement returned
  answer    \* the HTTP answer, while pc is "answered"

vars == <<avatars, issued, pc, call, current, record, answer>>

NoRecord == [id |-> Absent, row |-> Absent]
Records == [id : Ids, row : MaybeRow] \union {NoRecord}

Steps == {"idle", "start", "insert", "write", "commit", "refresh", "exists",
          "answered"}
InFlight == {r \in Requests : pc[r] \notin {"idle", "answered"}}

Init ==
  /\ avatars = [id \in Ids |-> Absent]
  /\ issued = {}
  /\ pc = [r \in Requests |-> "idle"]
  /\ call = [r \in Requests |-> Absent]
  /\ current = [r \in Requests |-> Absent]
  /\ record = [r \in Requests |-> NoRecord]
  /\ answer = [r \in Requests |-> Absent]

-----------------------------------------------------------------------------
(* The table and its locks *)

SlugTaken(slug) == \E id \in Ids : avatars[id] # Absent /\ avatars[id].slug = slug

\* "record" is written but not committed while its request is at "commit".
Holds(q, id) == pc[q] = "commit" /\ record[q].id = id

\* Mutant: a write does not wait for the transaction that holds its row.
RowNeverLocked(r, id) == FALSE

RowLocked(r, id) == \E q \in Requests \ {r} : Holds(q, id)

\* Mutant: without the UNIQUE constraint nothing serialises inserts of a slug.
SlugNeverLocked(r, slug) == FALSE

SlugLocked(r, slug) ==
  \E q \in Requests \ {r}, id \in Ids :
    /\ Holds(q, id)
    /\ \E row \in {record[q].row, avatars[id]} : row # Absent /\ row.slug = slug

\* BOUND: as many creations at a time as there are ids left to give.
RoomToCreate ==
  Cardinality({r \in InFlight : call[r].op = "create" /\ pc[r] # "refresh"})
    < Cardinality(Ids \ issued)

-----------------------------------------------------------------------------
(* Steps of a handler *)

At(r, op, step) == pc[r] = step /\ call[r].op = op
Goto(r, step) == pc' = [pc EXCEPT ![r] = step] /\ UNCHANGED <<call, answer>>
Locals == <<current, record>>

\* The handler returns or raises: its sessions end and its variables with them.
Reply(r, a) ==
  /\ pc' = [pc EXCEPT ![r] = "answered"]
  /\ answer' = [answer EXCEPT ![r] = a]
  /\ current' = [current EXCEPT ![r] = Absent]
  /\ record' = [record EXCEPT ![r] = NoRecord]
  /\ UNCHANGED call
TableUnchanged == UNCHANGED <<avatars, issued>>

Publish(r) ==
  /\ avatars' = [avatars EXCEPT ![record[r].id] = record[r].row]
  /\ issued' = issued \union {record[r].id}

Submit(r) == \E c \in Calls :
  /\ pc[r] = "idle"
  /\ c.op = "create" => RoomToCreate
  /\ pc' = [pc EXCEPT ![r] = "start"]
  /\ call' = [call EXCEPT ![r] = c]
  /\ UNCHANGED <<current, record, answer>>
  /\ TableUnchanged

\* The answer reaches the client, who may send another call.
Deliver(r) ==
  /\ pc[r] = "answered"
  /\ pc' = [pc EXCEPT ![r] = "idle"]
  /\ call' = [call EXCEPT ![r] = Absent]
  /\ answer' = [answer EXCEPT ![r] = Absent]
  /\ UNCHANGED Locals
  /\ TableUnchanged

-----------------------------------------------------------------------------
(* POST /avatars *)

CreatePrecheck(r) ==
  /\ At(r, "create", "start")
  /\ \/ /\ SlugTaken(call[r].slug)
        /\ Reply(r, Failure("slug_conflict"))
     \/ /\ ~SlugTaken(call[r].slug)
        /\ Goto(r, "insert")
        /\ UNCHANGED Locals
  /\ TableUnchanged

\* The INSERT waits for a transaction that holds the slug; the UNIQUE index
\* then accepts the row or raises IntegrityError.
CreateInsert(r) ==
  /\ At(r, "create", "insert")
  /\ ~SlugLocked(r, call[r].slug)
  /\ \/ /\ SlugTaken(call[r].slug)
        /\ Reply(r, Failure("slug_conflict"))
     \/ /\ ~SlugTaken(call[r].slug)
        /\ \E id \in Ids \ issued :
           /\ ~RowLocked(r, id)
           /\ record' = [record EXCEPT ![r] = [id |-> id, row |-> NewRow(call[r])]]
        /\ Goto(r, "commit")
        /\ UNCHANGED current
  /\ TableUnchanged

CreateCommit(r) ==
  /\ At(r, "create", "commit")
  /\ Publish(r)
  /\ Goto(r, "refresh")
  /\ UNCHANGED Locals

\* Mutant: the read back is retried until it finds the row.
RefreshUntilFound(r) ==
  LET row == avatars[record[r].id] IN
  /\ At(r, "create", "refresh")
  /\ row # Absent
  /\ Reply(r, Success("created", row))
  /\ TableUnchanged

\* session.refresh() reads the row again, by now perhaps changed or deleted;
\* nothing catches the exception it raises for a row that is gone.
CreateRefresh(r) ==
  LET row == avatars[record[r].id] IN
  /\ At(r, "create", "refresh")
  /\ Reply(r, IF row = Absent THEN Failure("error") ELSE Success("created", row))
  /\ TableUnchanged

-----------------------------------------------------------------------------
(* PATCH /avatars/{id} *)

TransitionAllowed(row, c) ==
  c.stage = Keep \/ c.stage = row.stage \/ c.stage \in AllowedTransitions[row.stage]

\* Mutant: a PATCH that names a field counts as a change of it.
NamesField(row, c) == c.data # Keep \/ c.stage # Keep

Changes(row, c) ==
  \/ c.data # Keep /\ c.data # row.data
  \/ c.stage # Keep /\ c.stage # row.stage

\* service.update_avatar: the read and the decisions made on it.
UpdateCheck(r) ==
  LET c == call[r]
      row == avatars[c.id]
  IN
  /\ At(r, "update", "start")
  /\ \/ row = Absent /\ Reply(r, Failure("not_found"))
     \/ /\ row # Absent
        /\ row.version # c.expected
        /\ Reply(r, Failure("version_conflict"))
     \/ /\ row # Absent
        /\ row.version = c.expected
        /\ ~TransitionAllowed(row, c)
        /\ Reply(r, Failure("invalid_transition"))
     \/ /\ row # Absent
        /\ row.version = c.expected
        /\ TransitionAllowed(row, c)
        /\ ~Changes(row, c)
        /\ Reply(r, Success("ok", row))
     \/ /\ row # Absent
        /\ row.version = c.expected
        /\ TransitionAllowed(row, c)
        /\ Changes(row, c)
        /\ current' = [current EXCEPT ![r] = row]
        /\ Goto(r, "write")
        /\ UNCHANGED record
  /\ TableUnchanged

\* Mutant: the WHERE clause trusts the version service.py saw.
MatchesById(r) == avatars[call[r].id] # Absent

\* WHERE id = :id AND version = :expected_version
UpdateMatches(r) ==
  LET row == avatars[call[r].id] IN row # Absent /\ row.version = call[r].expected

UpdateWrite(r) ==
  LET c == call[r] IN
  /\ At(r, "update", "write")
  /\ UpdateMatches(r)
  /\ ~RowLocked(r, c.id)
  /\ record' = [record EXCEPT ![r] =
                  [id |-> c.id, row |-> UpdatedRow(avatars[c.id], c)]]
  /\ Goto(r, "commit")
  /\ UNCHANGED current
  /\ TableUnchanged

UpdateMiss(r) ==
  /\ At(r, "update", "write")
  /\ ~UpdateMatches(r)
  /\ Goto(r, "exists")
  /\ UNCHANGED Locals
  /\ TableUnchanged

UpdateCommit(r) ==
  /\ At(r, "update", "commit")
  /\ Publish(r)
  /\ Reply(r, Success("ok", record[r].row))

-----------------------------------------------------------------------------
(* DELETE /avatars/{id} *)

DeleteCheck(r) ==
  LET c == call[r]
      row == avatars[c.id]
  IN
  /\ At(r, "delete", "start")
  /\ \/ row = Absent /\ Reply(r, Failure("not_found"))
     \/ /\ row # Absent
        /\ row.version # c.expected
        /\ Reply(r, Failure("version_conflict"))
     \/ /\ row # Absent
        /\ row.version = c.expected
        /\ row.stage # Draft
        /\ Reply(r, Failure("delete_blocked"))
     \/ /\ row # Absent
        /\ row.version = c.expected
        /\ row.stage = Draft
        /\ current' = [current EXCEPT ![r] = row]
        /\ Goto(r, "write")
        /\ UNCHANGED record
  /\ TableUnchanged

\* WHERE id = :id AND version = :expected_version AND status = 'draft'
DeleteMatches(r) ==
  LET row == avatars[call[r].id] IN
  row # Absent /\ row.version = call[r].expected /\ row.stage = Draft

DeleteWrite(r) ==
  LET c == call[r] IN
  /\ At(r, "delete", "write")
  /\ DeleteMatches(r)
  /\ ~RowLocked(r, c.id)
  /\ record' = [record EXCEPT ![r] = [id |-> c.id, row |-> Absent]]
  /\ Goto(r, "commit")
  /\ UNCHANGED current
  /\ TableUnchanged

DeleteMiss(r) ==
  /\ At(r, "delete", "write")
  /\ ~DeleteMatches(r)
  /\ Goto(r, "exists")
  /\ UNCHANGED Locals
  /\ TableUnchanged

DeleteCommit(r) ==
  /\ At(r, "delete", "commit")
  /\ Publish(r)
  /\ Reply(r, Success("no_content", Absent))

\* A statement that matched no row is explained by a second query.
ExplainMiss(r) ==
  /\ pc[r] = "exists"
  /\ Reply(r, IF avatars[call[r].id] = Absent
              THEN Failure("not_found") ELSE Failure("version_conflict"))
  /\ TableUnchanged

-----------------------------------------------------------------------------
(* GET /avatars/{id} and GET /avatars *)

Get(r) ==
  LET row == avatars[call[r].id] IN
  /\ At(r, "get", "start")
  /\ Reply(r, IF row = Absent THEN Failure("not_found") ELSE Success("ok", row))
  /\ TableUnchanged

List(r) ==
  /\ At(r, "list", "start")
  /\ Reply(r, Listing(avatars))
  /\ TableUnchanged

-----------------------------------------------------------------------------
(* Failures *)

\* The database connection breaks: the transaction is rolled back and the
\* exception, which no handler catches, becomes a 500 ...
DatabaseError(r) ==
  /\ r \in InFlight
  /\ Reply(r, Failure("error"))
  /\ TableUnchanged

\* ... or it breaks after the server had committed.
CommitUnacknowledged(r) ==
  /\ pc[r] = "commit"
  /\ Publish(r)
  /\ Reply(r, Failure("error"))

\* The API process dies with every request it was serving.
Crash ==
  /\ InFlight # {}
  /\ pc' = [r \in Requests |-> IF r \in InFlight THEN "answered" ELSE pc[r]]
  /\ answer' = [r \in Requests |->
                  IF r \in InFlight THEN Failure("error") ELSE answer[r]]
  /\ current' = [r \in Requests |-> Absent]
  /\ record' = [r \in Requests |-> NoRecord]
  /\ UNCHANGED call
  /\ TableUnchanged

-----------------------------------------------------------------------------
\* A step that may have to wait for another transaction, and the other ones.
LockStep(r) == CreateInsert(r) \/ UpdateWrite(r) \/ DeleteWrite(r)

OwnStep(r) ==
  \/ CreatePrecheck(r) \/ CreateCommit(r) \/ CreateRefresh(r)
  \/ UpdateCheck(r) \/ UpdateMiss(r) \/ UpdateCommit(r)
  \/ DeleteCheck(r) \/ DeleteMiss(r) \/ DeleteCommit(r)
  \/ ExplainMiss(r) \/ Get(r) \/ List(r)

Next ==
  \/ \E r \in Requests :
       \/ Submit(r) \/ LockStep(r) \/ OwnStep(r) \/ Deliver(r)
       \/ DatabaseError(r) \/ CommitUnacknowledged(r)
  \/ Crash

Spec == Init /\ [][Next]_vars

\* The event loop resumes every handler, and PostgreSQL queues the waiters of
\* a lock in order, so a writer does not lose the race for it for ever.
FairSpec ==
  /\ Spec
  /\ \A r \in Requests : WF_vars(OwnStep(r)) /\ SF_vars(LockStep(r))
=============================================================================
