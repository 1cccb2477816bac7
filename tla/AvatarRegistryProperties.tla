----------------------- MODULE AvatarRegistryProperties -----------------------
(* Correctness properties of the Avatar Registry. *)
EXTENDS AvatarRegistry

(* Every variable stays in its set; in particular no stored version is 0 and *)
(* no stored stage is outside the order (CHECK constraints of models.py).    *)
TypeOK ==
  /\ avatars \in [Ids -> MaybeRow]
  /\ issued \subseteq Ids
  /\ pc \in [Requests -> Steps]
  /\ call \in [Requests -> Calls \union {Absent}]
  /\ current \in [Requests -> MaybeRow]
  /\ record \in [Requests -> Records]
  /\ answer \in [Requests -> Answers \union {Absent}]

(* No two avatars have the same slug, whatever creations race past the       *)
(* pre-check of repository.create_avatar.                                    *)
SlugUnique ==
  \A a, b \in Ids :
    (avatars[a] # Absent /\ avatars[b] # Absent /\ avatars[a].slug = avatars[b].slug)
      => a = b

(* An update or delete about to commit still replaces the very row that      *)
(* service.py read and made its checks on in an earlier session: no write in *)
(* between is lost, no check was made on a stale row.                        *)
ChecksHoldAtCommit ==
  \A r \in Requests :
    (pc[r] = "commit" /\ call[r].op # "create")
      => avatars[record[r].id] = current[r]

(* A stage never runs ahead of the versions that were written: every advance *)
(* consumed a version of its own.  A client who repeats an edit whose answer *)
(* was lost, with the version it had, finds that version gone and does not   *)
(* advance the avatar once more.                                             *)
StageBehindVersion ==
  \A id \in Ids : avatars[id] # Absent => avatars[id].stage < avatars[id].version

(* Whatever requests interleave, a row is only ever created as a draft with  *)
(* version 1 under a fresh id, replaced by its next version at the same or   *)
(* the next stage, or removed while it is a draft.                           *)
LegalRowStep(id) ==
  LET old == avatars[id]
      new == avatars'[id]
  IN
  \/ new = old
  \/ old = Absent /\ id \notin issued /\ new.version = 1 /\ new.stage = Draft
  \/ /\ old # Absent /\ new # Absent
     /\ new.slug = old.slug
     /\ new.version = old.version + 1
     /\ new.stage \in {old.stage, old.stage + 1}
  \/ old # Absent /\ new = Absent /\ old.stage = Draft
RowLifecycle == [][\A id \in Ids : LegalRowStep(id)]_vars

-----------------------------------------------------------------------------
(* The inductive invariant behind the safety properties *)

EditOps == {"update", "delete"}

\* A handler is only ever at a step of its own operation.
ControlOK ==
  \A r \in Requests :
    /\ (pc[r] = "idle") <=> (call[r] = Absent)
    /\ pc[r] \in {"insert", "refresh"} => call[r].op = "create"
    /\ pc[r] \in {"write", "exists"} => call[r].op \in EditOps
    /\ pc[r] = "commit" => call[r].op \in EditOps \union {"create"}

\* Rows have issued ids, the row a creation reads back included.
IssuedOK ==
  /\ \A id \in Ids : avatars[id] # Absent => id \in issued
  /\ \A r \in Requests : pc[r] = "refresh" => record[r].id \in issued

\* What service.py read is of the expected version, passed its checks, and is
\* still the row unless that one is gone or at a later version, which is the
\* only reason for a statement to match nothing.
ReadOK ==
  \A r \in Requests :
    (pc[r] \in {"write", "commit", "exists"} /\ call[r].op \in EditOps) =>
      LET row == avatars[call[r].id] IN
      /\ call[r].id \in issued
      /\ current[r] \in Row
      /\ current[r].version = call[r].expected
      /\ \/ row = Absent
         \/ row = current[r] /\ pc[r] # "exists"
         \/ row.version > call[r].expected
      /\ call[r].op = "delete" => current[r].stage = Draft
      /\ call[r].op = "update" =>
           /\ TransitionAllowed(current[r], call[r])
           /\ Changes(current[r], call[r])

\* What an open transaction is about to commit.
PendingOK ==
  \A r \in Requests : pc[r] = "commit" =>
    /\ record[r].id \in Ids
    /\ call[r].op = "create" =>
         /\ record[r].id \notin issued
         /\ record[r].row = NewRow(call[r])
    /\ call[r].op \in EditOps =>
         /\ record[r].id = call[r].id
         /\ avatars[call[r].id] = current[r]
    /\ call[r].op = "update" => record[r].row = UpdatedRow(current[r], call[r])
    /\ call[r].op = "delete" => record[r].row = Absent

\* Open transactions write different rows.
LocksOK ==
  \A q, r \in Requests :
    (pc[q] = "commit" /\ pc[r] = "commit" /\ record[q].id = record[r].id) => q = r

\* A slug an open transaction is about to publish belongs to no other row,
\* committed or about to be.
PendingSlugsOK ==
  \A r \in Requests : (pc[r] = "commit" /\ record[r].row # Absent) =>
    /\ \A id \in Ids :
         (avatars[id] # Absent /\ avatars[id].slug = record[r].row.slug)
           => id = record[r].id
    /\ \A q \in Requests :
         (/\ pc[q] = "commit"
          /\ record[q].row # Absent
          /\ record[q].row.slug = record[r].row.slug) => q = r

(* Every reachable state is one the proof's argument describes: the rows     *)
(* read, locked and pending of all the requests fit together.                *)
IInv ==
  /\ TypeOK /\ ControlOK /\ IssuedOK /\ ReadOK /\ PendingOK /\ LocksOK
  /\ SlugUnique /\ PendingSlugsOK /\ StageBehindVersion

-----------------------------------------------------------------------------
(* Every request that reaches the server is answered, even one that waits    *)
(* for the row or slug another transaction holds.                            *)
EveryRequestAnswered ==
  \A r \in Requests : pc[r] = "start" ~> pc[r] = "answered"

(* The registry is linearizable: each call takes effect, and is answered, as *)
(* if it ran alone at one instant (AvatarStore).                             *)
Phase(r) ==
  CASE pc[r] = "idle" -> "idle"
    [] pc[r] = "answered" -> "answered"
    [] pc[r] = "refresh" -> "created"
    [] OTHER -> "pending"

Store == INSTANCE AvatarStore WITH
  rows   <- avatars,
  phase  <- [r \in Requests |-> Phase(r)],
  mine   <- [r \in Requests |-> IF pc[r] = "refresh" THEN record[r].id ELSE Absent]

ImplementsStore == Store!Spec
=============================================================================
