----------------------------- MODULE AvatarStore -----------------------------
(***************************************************************************)
(* What the Avatar Registry promises its clients: every call takes effect  *)
(* at one instant between its submission and its answer, and is answered   *)
(* from the rows of that instant.  The one exception is creation, whose    *)
(* answer is read back after the row is published (session.refresh).       *)
(* A call may also be lost (500, broken connection), before or after it    *)
(* took effect.                                                            *)
(***************************************************************************)
EXTENDS AvatarSchemas

CONSTANT Requests

VARIABLES
  rows,    \* the avatars, by id
  issued,  \* ids that were ever given to an avatar
  phase,   \* idle, pending, created (effective, not answered) or answered
  call,    \* the call a request carries
  mine,    \* the id a creation was given
  answer   \* the answer, while phase is "answered"

storeVars == <<rows, issued, phase, call, mine, answer>>

Init ==
  /\ rows = [id \in Ids |-> Absent]
  /\ issued = {}
  /\ phase = [r \in Requests |-> "idle"]
  /\ call = [r \in Requests |-> Absent]
  /\ mine = [r \in Requests |-> Absent]
  /\ answer = [r \in Requests |-> Absent]

Submit(r) == \E c \in Calls :
  /\ phase[r] = "idle"
  /\ phase' = [phase EXCEPT ![r] = "pending"]
  /\ call' = [call EXCEPT ![r] = c]
  /\ UNCHANGED <<rows, issued, mine, answer>>

Reply(r, a) ==
  /\ phase' = [phase EXCEPT ![r] = "answered"]
  /\ answer' = [answer EXCEPT ![r] = a]
  /\ mine' = [mine EXCEPT ![r] = Absent]
  /\ UNCHANGED call

Pending(r, op) == phase[r] = "pending" /\ call[r].op = op
NoEffect == UNCHANGED <<rows, issued>>
InUse(slug) == \E id \in Ids : rows[id] # Absent /\ rows[id].slug = slug

Create(r) ==
  /\ Pending(r, "create")
  /\ \/ /\ InUse(call[r].slug)
        /\ Reply(r, Failure("slug_conflict"))
        /\ NoEffect
     \/ \E id \in Ids \ issued :
        /\ ~InUse(call[r].slug)
        /\ rows' = [rows EXCEPT ![id] = NewRow(call[r])]
        /\ issued' = issued \union {id}
        /\ \/ /\ phase' = [phase EXCEPT ![r] = "created"]
              /\ mine' = [mine EXCEPT ![r] = id]
              /\ UNCHANGED <<call, answer>>
           \/ Reply(r, Failure("error"))

\* The creator reads its row back: a later version of it, or nothing at all.
ReadBack(r) ==
  /\ phase[r] = "created"
  /\ Reply(r, IF rows[mine[r]] = Absent
              THEN Failure("error") ELSE Success("created", rows[mine[r]]))
  /\ NoEffect

\* A stage moves at most one step forward, and a call that changes nothing
\* leaves the version alone.
Update(r) ==
  LET c == call[r]
      row == rows[c.id]
      new == UpdatedRow(row, c)
  IN
  /\ Pending(r, "update")
  /\ \/ /\ row = Absent
        /\ Reply(r, Failure("not_found"))
        /\ NoEffect
     \/ /\ row # Absent
        /\ row.version # c.expected
        /\ Reply(r, Failure("version_conflict"))
        /\ NoEffect
     \/ /\ row # Absent
        /\ row.version = c.expected
        /\ new.stage \notin {row.stage, row.stage + 1}
        /\ Reply(r, Failure("invalid_transition"))
        /\ NoEffect
     \/ /\ row # Absent
        /\ row.version = c.expected
        /\ new.stage = row.stage /\ new.data = row.data
        /\ Reply(r, Success("ok", row))
        /\ NoEffect
     \/ /\ row # Absent
        /\ row.version = c.expected
        /\ new.stage \in {row.stage, row.stage + 1}
        /\ new.stage # row.stage \/ new.data # row.data
        /\ rows' = [rows EXCEPT ![c.id] = new]
        /\ UNCHANGED issued
        /\ \E a \in {Success("ok", new), Failure("error")} : Reply(r, a)

\* Only drafts are deleted.
Delete(r) ==
  LET c == call[r]
      row == rows[c.id]
  IN
  /\ Pending(r, "delete")
  /\ \/ /\ row = Absent
        /\ Reply(r, Failure("not_found"))
        /\ NoEffect
     \/ /\ row # Absent
        /\ row.version # c.expected
        /\ Reply(r, Failure("version_conflict"))
        /\ NoEffect
     \/ /\ row # Absent
        /\ row.version = c.expected
        /\ row.stage # Draft
        /\ Reply(r, Failure("delete_blocked"))
        /\ NoEffect
     \/ /\ row # Absent
        /\ row.version = c.expected
        /\ row.stage = Draft
        /\ rows' = [rows EXCEPT ![c.id] = Absent]
        /\ UNCHANGED issued
        /\ \E a \in {Success("no_content", Absent), Failure("error")} : Reply(r, a)

Get(r) ==
  /\ Pending(r, "get")
  /\ Reply(r, IF rows[call[r].id] = Absent
              THEN Failure("not_found") ELSE Success("ok", rows[call[r].id]))
  /\ NoEffect

List(r) ==
  /\ Pending(r, "list")
  /\ Reply(r, Listing(rows))
  /\ NoEffect

\* The server loses some of the calls it is working on.
Lose(lost) ==
  /\ lost # {}
  /\ \A r \in lost : phase[r] \in {"pending", "created"}
  /\ phase' = [r \in Requests |-> IF r \in lost THEN "answered" ELSE phase[r]]
  /\ mine' = [r \in Requests |-> IF r \in lost THEN Absent ELSE mine[r]]
  /\ answer' = [r \in Requests |->
                  IF r \in lost THEN Failure("error") ELSE answer[r]]
  /\ UNCHANGED call
  /\ NoEffect

Deliver(r) ==
  /\ phase[r] = "answered"
  /\ phase' = [phase EXCEPT ![r] = "idle"]
  /\ call' = [call EXCEPT ![r] = Absent]
  /\ answer' = [answer EXCEPT ![r] = Absent]
  /\ UNCHANGED <<rows, issued, mine>>

Next ==
  \/ \E r \in Requests :
       \/ Submit(r) \/ Create(r) \/ ReadBack(r) \/ Update(r) \/ Delete(r)
       \/ Get(r) \/ List(r) \/ Deliver(r)
  \/ \E lost \in SUBSET Requests : Lose(lost)

Spec == Init /\ [][Next]_storeVars
=============================================================================
