----------------------- MODULE AvatarRefinementProofs -----------------------
(* The Avatar Registry implements the atomic store, for every value of its   *)
(* constants: each step is a step of the store or invisible to its clients.  *)
EXTENDS AvatarRegistryProofs

phase == [r \in Requests |-> Phase(r)]
mine == [r \in Requests |-> IF pc[r] = "refresh" THEN record[r].id ELSE Absent]

\* The store has its own copy of the definitions of AvatarSchemas.
LEMMA SameSchemas ==
  /\ Store!Calls = Calls
  /\ Store!Draft = Draft
  /\ \A code : Store!Failure(code) = Failure(code)
  /\ \A code, row : Store!Success(code, row) = Success(code, row)
  /\ \A rows : Store!Listing(rows) = Listing(rows)
  /\ \A c : Store!NewRow(c) = NewRow(c)
  /\ \A row, c : Store!UpdatedRow(row, c) = UpdatedRow(row, c)
  BY DEF Store!Calls, Store!CreateCalls, Store!UpdateCalls, Store!DeleteCalls,
         Store!GetCalls, Store!ListCalls, Store!Stages, Store!Draft, Store!Failure,
         Store!Success, Store!Listing, Store!NewRow, Store!UpdatedRow, Store!Patched,
         Calls, CreateCalls, UpdateCalls, DeleteCalls, GetCalls, ListCalls, Stages,
         Draft, Failure, Success, Listing, NewRow, UpdatedRow, Patched

LEMMA PhaseOf ==
  ASSUME NEW r \in Requests
  PROVE  /\ pc[r] = "idle" => Phase(r) = "idle"
         /\ pc[r] = "answered" => Phase(r) = "answered"
         /\ pc[r] = "refresh" => Phase(r) = "created"
         /\ pc[r] \in {"start", "insert", "write", "commit", "exists"}
              => Phase(r) = "pending"
  BY DEF Phase

LEMMA PhaseNext ==
  ASSUME NEW r \in Requests
  PROVE  /\ pc'[r] = "idle" => Phase(r)' = "idle"
         /\ pc'[r] = "answered" => Phase(r)' = "answered"
         /\ pc'[r] = "refresh" => Phase(r)' = "created"
         /\ pc'[r] \in {"start", "insert", "write", "commit", "exists"}
              => Phase(r)' = "pending"
  BY DEF Phase

\* A handler that answers is seen to answer.
LEMMA MapAnswered ==
  ASSUME IInv, NEW r \in Requests,
         pc' = [pc EXCEPT ![r] = "answered"],
         record' = [record EXCEPT ![r] = NoRecord]
  PROVE  /\ phase' = [phase EXCEPT ![r] = "answered"]
         /\ mine' = [mine EXCEPT ![r] = Absent]
<1>1. pc \in [Requests -> Steps] /\ record \in [Requests -> Records]
  BY DEF IInv, TypeOK
<1>2. phase' = [phase EXCEPT ![r] = "answered"]
  <2>1. Phase(r)' = "answered"
    BY <1>1, PhaseNext
  <2>2. \A q \in Requests \ {r} : Phase(q)' = Phase(q)
    BY <1>1 DEF Phase
  <2> QED
    BY <2>1, <2>2 DEF phase
<1>3. mine' = [mine EXCEPT ![r] = Absent]
  BY <1>1 DEF mine
<1> QED
  BY <1>2, <1>3

LEMMA MapReply ==
  ASSUME IInv, NEW r \in Requests, NEW a, Reply(r, a)
  PROVE  Store!Reply(r, a)
  BY MapAnswered DEF Reply, Store!Reply, phase, mine

\* Between its first read and its commit, a call looks pending.
LEMMA MapGoto ==
  ASSUME IInv, NEW r \in Requests, NEW to \in {"insert", "write", "commit", "exists"},
         pc[r] \in {"start", "insert", "write"}, Goto(r, to), TableUnchanged,
         \A q \in Requests \ {r} : record'[q] = record[q]
  PROVE  UNCHANGED Store!storeVars
<1>1. pc' = [pc EXCEPT ![r] = to] /\ pc \in [Requests -> Steps]
  BY DEF IInv, TypeOK, Goto
<1>2. phase' = phase
  <2>1. Phase(r)' = "pending" /\ Phase(r) = "pending"
    BY <1>1, PhaseNext, PhaseOf
  <2>2. \A q \in Requests \ {r} : Phase(q)' = Phase(q)
    BY <1>1 DEF Phase
  <2> QED
    BY <2>1, <2>2 DEF phase
<1>3. mine' = mine
  BY <1>1 DEF mine
<1> QED
  BY <1>2, <1>3 DEF Goto, TableUnchanged, Store!storeVars, phase, mine

\* The service's checks say of the new row what the store says of it.
LEMMA ChecksMeanRow ==
  ASSUME NEW row \in Row, NEW c \in UpdateCalls
  PROVE  LET new == UpdatedRow(row, c) IN
         /\ TransitionAllowed(row, c) <=> new.stage \in {row.stage, row.stage + 1}
         /\ Changes(row, c) <=> (new.stage # row.stage \/ new.data # row.data)
<1>1. /\ row.stage \in Stages /\ row.data \in Data
      /\ c.data \in Data \union {Keep} /\ c.stage \in Stages \union {Keep}
  BY DEF Row, UpdateCalls
<1>2. /\ UpdatedRow(row, c).stage = Patched(c.stage, row.stage)
      /\ UpdatedRow(row, c).data = Patched(c.data, row.data)
  BY DEF UpdatedRow, Row
<1>3. TransitionAllowed(row, c)
        <=> Patched(c.stage, row.stage) \in {row.stage, row.stage + 1}
  BY <1>1, SchemaAssumption
  DEF TransitionAllowed, Patched, AllowedTransitions, Stages
<1>4. Changes(row, c) <=> \/ Patched(c.stage, row.stage) # row.stage
                          \/ Patched(c.data, row.data) # row.data
  BY <1>1, SchemaAssumption DEF Changes, Patched
<1> QED
  BY <1>2, <1>3, <1>4

LEMMA MapInit == Init => Store!Init
  BY DEF Init, Store!Init, Phase

LEMMA MapSubmit ==
  ASSUME IInv, NEW r \in Requests, Submit(r)
  PROVE  Store!Submit(r)
<1>1. /\ pc[r] = "idle" /\ pc' = [pc EXCEPT ![r] = "start"]
      /\ pc \in [Requests -> Steps] /\ record' = record
  BY DEF IInv, TypeOK, Submit
<1>2. phase[r] = "idle" /\ phase' = [phase EXCEPT ![r] = "pending"]
  <2>1. Phase(r)' = "pending" /\ Phase(r) = "idle"
    BY <1>1, PhaseNext, PhaseOf
  <2>2. \A q \in Requests \ {r} : Phase(q)' = Phase(q)
    BY <1>1 DEF Phase
  <2> QED
    BY <2>1, <2>2 DEF phase
<1>3. mine' = mine
  BY <1>1 DEF mine
<1> QED
  BY <1>2, <1>3, SameSchemas DEF Submit, Store!Submit, TableUnchanged, phase, mine

LEMMA MapDeliver ==
  ASSUME IInv, NEW r \in Requests, Deliver(r)
  PROVE  Store!Deliver(r)
<1>1. /\ pc[r] = "answered" /\ pc' = [pc EXCEPT ![r] = "idle"]
      /\ pc \in [Requests -> Steps] /\ record' = record
  BY DEF IInv, TypeOK, Deliver, Locals
<1>2. phase[r] = "answered" /\ phase' = [phase EXCEPT ![r] = "idle"]
  <2>1. Phase(r)' = "idle" /\ Phase(r) = "answered"
    BY <1>1, PhaseNext, PhaseOf
  <2>2. \A q \in Requests \ {r} : Phase(q)' = Phase(q)
    BY <1>1 DEF Phase
  <2> QED
    BY <2>1, <2>2 DEF phase
<1>3. mine' = mine
  BY <1>1 DEF mine
<1> QED
  BY <1>2, <1>3 DEF Deliver, Store!Deliver, TableUnchanged, phase, mine

LEMMA MapCrash ==
  ASSUME IInv, Crash
  PROVE  \E lost \in SUBSET Requests : Store!Lose(lost)
<1>1. pc \in [Requests -> Steps] /\ InFlight \subseteq Requests
  BY DEF IInv, TypeOK, InFlight
<1>0. PICK lost \in SUBSET Requests : lost = InFlight
  BY <1>1
<1>2. \A r \in InFlight : phase[r] \in {"pending", "created"}
  BY <1>1, PhaseOf DEF InFlight, Steps, phase
<1>3. phase' = [r \in Requests |-> IF r \in InFlight THEN "answered" ELSE phase[r]]
  BY <1>1 DEF Crash, Phase, phase
<1>4. mine' = [r \in Requests |-> IF r \in InFlight THEN Absent ELSE mine[r]]
  BY <1>1 DEF Crash, InFlight, mine
<1> QED
  <2>1. Store!Lose(lost)
    BY <1>0, <1>1, <1>2, <1>3, <1>4, SameSchemas
    DEF Crash, Store!Lose, Store!NoEffect, TableUnchanged, phase, mine
  <2> QED
    BY <2>1

LEMMA MapError ==
  ASSUME IInv, NEW r \in Requests, DatabaseError(r)
  PROVE  Store!Lose({r})
<1>1. pc \in [Requests -> Steps] /\ pc[r] \notin {"idle", "answered"}
  BY DEF IInv, TypeOK, DatabaseError, InFlight
<1>2. phase[r] \in {"pending", "created"}
  BY <1>1, PhaseOf DEF Steps, phase
<1>3. Store!Reply(r, Failure("error")) /\ TableUnchanged
  BY MapReply DEF DatabaseError
<1> QED
  BY <1>2, <1>3, SameSchemas
  DEF Store!Reply, Store!Lose, Store!NoEffect, TableUnchanged, phase, mine,
      DatabaseError, Reply, IInv, TypeOK

-----------------------------------------------------------------------------
(* The steps of each operation *)

LEMMA MapCreatePublish ==
  ASSUME IInv, NEW r \in Requests, At(r, "create", "commit"), Publish(r)
  PROVE  /\ Store!Pending(r, "create")
         /\ record[r].id \in Ids \ issued
         /\ ~Store!InUse(call[r].slug)
         /\ avatars' = [avatars EXCEPT ![record[r].id] = Store!NewRow(call[r])]
         /\ issued' = issued \union {record[r].id}
<1> USE DEF At
<1>1. /\ record[r].id \in Ids \ issued
      /\ record[r].row = NewRow(call[r])
      /\ avatars[record[r].id] = Absent
      /\ record[r].row \in Row
  BY PendingRow DEF IInv, PendingOK
<1>2. record[r].row.slug = call[r].slug
  BY <1>1 DEF NewRow
<1>3. ~Store!InUse(call[r].slug)
  BY <1>1, <1>2, AbsentNotRow DEF IInv, PendingSlugsOK, Store!InUse
<1>4. Store!Pending(r, "create")
  BY PhaseOf DEF Store!Pending
<1> QED
  BY <1>1, <1>3, <1>4, SameSchemas DEF Publish

LEMMA MapCreate ==
  ASSUME IInv, NEW r \in Requests,
         \/ CreatePrecheck(r) \/ CreateInsert(r) \/ CreateCommit(r)
         \/ CommitUnacknowledged(r) /\ call[r].op = "create"
  PROVE  Store!Create(r) \/ UNCHANGED Store!storeVars
<1>1. ASSUME At(r, "create", "start") \/ At(r, "create", "insert"),
             SlugTaken(call[r].slug), Reply(r, Failure("slug_conflict")),
             TableUnchanged
      PROVE  Store!Create(r)
  <2>1. Store!Reply(r, Store!Failure("slug_conflict"))
    BY <1>1, MapReply, SameSchemas
  <2>2. Store!Pending(r, "create")
    BY <1>1, PhaseOf DEF At, Store!Pending
  <2> QED
    BY <1>1, <2>1, <2>2
    DEF SlugTaken, TableUnchanged, Store!Create, Store!InUse, Store!NoEffect
<1>2. CASE CreatePrecheck(r)
  BY <1>1, <1>2, MapGoto DEF CreatePrecheck, At, Locals
<1>3. CASE CreateInsert(r)
  <2>1. CASE SlugTaken(call[r].slug)
    BY <1>1, <1>3, <2>1 DEF CreateInsert
  <2>2. CASE ~SlugTaken(call[r].slug)
    <3>1. /\ \A q \in Requests \ {r} : record'[q] = record[q]
          /\ Goto(r, "commit") /\ TableUnchanged /\ pc[r] = "insert"
      BY <1>3, <2>2 DEF CreateInsert, At, IInv, TypeOK
    <3> QED
      BY <3>1, MapGoto
  <2> QED
    BY <2>1, <2>2
<1>4. CASE CreateCommit(r)
  <2>1. /\ pc[r] = "commit" /\ pc' = [pc EXCEPT ![r] = "refresh"]
        /\ record' = record /\ call' = call /\ answer' = answer
        /\ pc \in [Requests -> Steps]
    BY <1>4 DEF CreateCommit, At, Goto, Locals, IInv, TypeOK
  <2>2. phase' = [phase EXCEPT ![r] = "created"]
    <3>1. Phase(r)' = "created"
      BY <2>1, PhaseNext
    <3>2. \A q \in Requests \ {r} : Phase(q)' = Phase(q)
      BY <2>1 DEF Phase
    <3> QED
      BY <3>1, <3>2 DEF phase
  <2>3. mine' = [mine EXCEPT ![r] = record[r].id]
    BY <2>1 DEF mine
  <2>4. At(r, "create", "commit") /\ Publish(r)
    BY <1>4 DEF CreateCommit
  <2> QED
    BY <2>1, <2>2, <2>3, <2>4, MapCreatePublish DEF Store!Create, phase, mine
<1>5. CASE CommitUnacknowledged(r) /\ call[r].op = "create"
  <2>1. At(r, "create", "commit") /\ Publish(r)
    BY <1>5 DEF CommitUnacknowledged, At
  <2>2. Store!Reply(r, Store!Failure("error"))
    BY <1>5, MapReply, SameSchemas DEF CommitUnacknowledged
  <2> QED
    BY <2>1, <2>2, MapCreatePublish DEF Store!Create
<1> QED
  BY <1>2, <1>3, <1>4, <1>5

LEMMA MapRefresh ==
  ASSUME IInv, NEW r \in Requests, CreateRefresh(r)
  PROVE  Store!ReadBack(r)
<1>1. phase[r] = "created" /\ mine[r] = record[r].id
  BY PhaseOf DEF CreateRefresh, At, phase, mine
<1>2. Store!NoEffect
  BY DEF CreateRefresh, TableUnchanged, Store!NoEffect
<1>3. /\ phase' = [phase EXCEPT ![r] = "answered"]
      /\ mine' = [mine EXCEPT ![r] = Absent]
  BY MapAnswered DEF CreateRefresh, Reply
<1> QED
  BY <1>1, <1>2, <1>3, SameSchemas
  DEF CreateRefresh, Reply, Store!ReadBack, Store!Reply, phase, mine

LEMMA MapUpdate ==
  ASSUME IInv, NEW r \in Requests, pc[r] # "idle" => call[r].op = "update",
         \/ UpdateCheck(r) \/ UpdateWrite(r) \/ UpdateMiss(r) \/ UpdateCommit(r)
         \/ CommitUnacknowledged(r) \/ ExplainMiss(r)
  PROVE  Store!Update(r) \/ UNCHANGED Store!storeVars
<1> DEFINE c == call[r]
           row == avatars[c.id]
           new == UpdatedRow(row, c)
<1>0. pc[r] # "idle" /\ c.op = "update" /\ c \in UpdateCalls /\ row \in MaybeRow
  <2>1. pc[r] # "idle" /\ c.op = "update"
    BY DEF UpdateCheck, UpdateWrite, UpdateMiss, UpdateCommit,
           CommitUnacknowledged, ExplainMiss, At
  <2>2. c \in UpdateCalls
    BY <2>1, CallOfOp DEF IInv, TypeOK, ControlOK
  <2> QED
    BY <2>1, <2>2 DEF UpdateCalls, IInv, TypeOK
<1>1. row # Absent =>
        /\ row \in Row
        /\ TransitionAllowed(row, c) <=> new.stage \in {row.stage, row.stage + 1}
        /\ Changes(row, c) <=> (new.stage # row.stage \/ new.data # row.data)
  BY <1>0, ChecksMeanRow DEF MaybeRow
<1>2. CASE UpdateCheck(r)
  <2>1. Store!Pending(r, "update") /\ Store!UpdatedRow(row, c) = new
        /\ pc[r] = "start" /\ TableUnchanged /\ Store!NoEffect
    BY <1>2, PhaseOf, SameSchemas
    DEF UpdateCheck, At, TableUnchanged, Store!Pending, Store!NoEffect
  <2>2. CASE row = Absent /\ Reply(r, Failure("not_found"))
    BY <2>1, <2>2, MapReply, SameSchemas DEF Store!Update
  <2>3. CASE row # Absent /\ row.version # c.expected
             /\ Reply(r, Failure("version_conflict"))
    BY <2>1, <2>3, MapReply, SameSchemas DEF Store!Update
  <2>4. CASE row # Absent /\ row.version = c.expected /\ ~TransitionAllowed(row, c)
             /\ Reply(r, Failure("invalid_transition"))
    BY <1>1, <2>1, <2>4, MapReply, SameSchemas DEF Store!Update
  <2>5. CASE row # Absent /\ row.version = c.expected /\ ~Changes(row, c)
             /\ Reply(r, Success("ok", row))
    <3>1. Store!Reply(r, Store!Success("ok", row))
      BY <2>5, MapAnswered, SameSchemas DEF Reply, Store!Reply, phase, mine
    <3>2. new.stage = row.stage /\ new.data = row.data
      BY <1>1, <2>5
    <3> HIDE DEF new, row, c
    <3> QED
      BY <2>1, <2>5, <3>1, <3>2 DEF Store!Update, new, row, c
  <2>6. CASE Goto(r, "write") /\ UNCHANGED record
    BY <2>1, <2>6, MapGoto
  <2> QED
    BY <1>2, <2>2, <2>3, <2>4, <2>5, <2>6 DEF UpdateCheck
<1>3. CASE UpdateWrite(r)
  <2>1. /\ \A q \in Requests \ {r} : record'[q] = record[q]
        /\ Goto(r, "commit") /\ TableUnchanged /\ pc[r] = "write"
    BY <1>3 DEF UpdateWrite, At, IInv, TypeOK
  <2> QED
    BY <2>1, MapGoto
<1>4. CASE UpdateMiss(r)
  BY <1>4, MapGoto DEF UpdateMiss, At, Locals
<1>5. CASE UpdateCommit(r) \/ CommitUnacknowledged(r)
  <2>1. pc[r] = "commit" /\ Publish(r) /\ Store!Pending(r, "update")
    BY <1>0, <1>5, PhaseOf DEF UpdateCommit, CommitUnacknowledged, At, Store!Pending
  <2>2. /\ record[r] .id = c.id /\ row = current[r] /\ record[r].row = new
        /\ row \in Row /\ row.version = c.expected
        /\ TransitionAllowed(row, c) /\ Changes(row, c)
    BY <1>0, <2>1 DEF IInv, PendingOK, ReadOK, EditOps
  <2>3. row # Absent
    BY <2>2, AbsentNotRow
  <2>4. Store!UpdatedRow(row, c) = new
    BY SameSchemas
  <2>5. avatars' = [avatars EXCEPT ![c.id] = new]
    BY <2>1, <2>2 DEF Publish
  <2>6. issued' = issued
    BY <1>0, <2>1, <2>2 DEF Publish, IInv, ReadOK, EditOps
  <2>7. \E a \in {Store!Success("ok", new), Store!Failure("error")} : Store!Reply(r, a)
    BY <1>5, <2>2, MapReply, SameSchemas DEF UpdateCommit, CommitUnacknowledged
  <2> HIDE DEF new, row, c
  <2> QED
    BY <1>1, <2>1, <2>2, <2>3, <2>4, <2>5, <2>6, <2>7 DEF Store!Update, new, row, c
<1>6. CASE ExplainMiss(r)
  <2>1. Store!Pending(r, "update") /\ pc[r] = "exists" /\ Store!NoEffect
    BY <1>0, <1>6, PhaseOf
    DEF ExplainMiss, TableUnchanged, Store!Pending, Store!NoEffect
  <2>2. row = Absent \/ row.version # c.expected
    BY <1>0, <1>1, <2>1 DEF IInv, ReadOK, EditOps, Row, UpdateCalls
  <2>3. /\ row = Absent => Store!Reply(r, Store!Failure("not_found"))
        /\ row # Absent => Store!Reply(r, Store!Failure("version_conflict"))
    BY <1>6, MapReply, SameSchemas DEF ExplainMiss
  <2> QED
    BY <2>1, <2>2, <2>3 DEF Store!Update
<1> QED
  BY <1>2, <1>3, <1>4, <1>5, <1>6

LEMMA MapDelete ==
  ASSUME IInv, NEW r \in Requests, pc[r] # "idle" => call[r].op = "delete",
         \/ DeleteCheck(r) \/ DeleteWrite(r) \/ DeleteMiss(r) \/ DeleteCommit(r)
         \/ CommitUnacknowledged(r) \/ ExplainMiss(r)
  PROVE  Store!Delete(r) \/ UNCHANGED Store!storeVars
<1> DEFINE c == call[r]
           row == avatars[c.id]
<1>0. pc[r] # "idle" /\ c.op = "delete" /\ c \in DeleteCalls /\ row \in MaybeRow
  <2>1. pc[r] # "idle" /\ c.op = "delete"
    BY DEF DeleteCheck, DeleteWrite, DeleteMiss, DeleteCommit,
           CommitUnacknowledged, ExplainMiss, At
  <2>2. c \in DeleteCalls
    BY <2>1, CallOfOp DEF IInv, TypeOK, ControlOK
  <2> QED
    BY <2>1, <2>2 DEF DeleteCalls, IInv, TypeOK
<1>1. CASE DeleteCheck(r)
  <2>1. Store!Pending(r, "delete") /\ pc[r] = "start" /\ TableUnchanged /\ Store!NoEffect
    BY <1>1, PhaseOf DEF DeleteCheck, At, TableUnchanged, Store!Pending, Store!NoEffect
  <2>2. CASE row = Absent /\ Reply(r, Failure("not_found"))
    BY <2>1, <2>2, MapReply, SameSchemas DEF Store!Delete
  <2>3. CASE row # Absent /\ row.version # c.expected
             /\ Reply(r, Failure("version_conflict"))
    BY <2>1, <2>3, MapReply, SameSchemas DEF Store!Delete
  <2>4. CASE row # Absent /\ row.version = c.expected /\ row.stage # Draft
             /\ Reply(r, Failure("delete_blocked"))
    BY <2>1, <2>4, MapReply, SameSchemas DEF Store!Delete
  <2>5. CASE Goto(r, "write") /\ UNCHANGED record
    BY <2>1, <2>5, MapGoto
  <2> QED
    BY <1>1, <2>2, <2>3, <2>4, <2>5 DEF DeleteCheck
<1>2. CASE DeleteWrite(r)
  <2>1. /\ \A q \in Requests \ {r} : record'[q] = record[q]
        /\ Goto(r, "commit") /\ TableUnchanged /\ pc[r] = "write"
    BY <1>2 DEF DeleteWrite, At, IInv, TypeOK
  <2> QED
    BY <2>1, MapGoto
<1>3. CASE DeleteMiss(r)
  BY <1>3, MapGoto DEF DeleteMiss, At, Locals
<1>4. CASE DeleteCommit(r) \/ CommitUnacknowledged(r)
  <2>1. pc[r] = "commit" /\ Publish(r) /\ Store!Pending(r, "delete")
    BY <1>0, <1>4, PhaseOf DEF DeleteCommit, CommitUnacknowledged, At, Store!Pending
  <2>2. /\ record[r].id = c.id /\ row = current[r] /\ record[r].row = Absent
        /\ row \in Row /\ row.version = c.expected /\ row.stage = Draft
    BY <1>0, <2>1 DEF IInv, PendingOK, ReadOK, EditOps
  <2>3. row # Absent
    BY <2>2, AbsentNotRow
  <2>4. avatars' = [avatars EXCEPT ![c.id] = Absent]
    BY <2>1, <2>2 DEF Publish
  <2>5. issued' = issued
    BY <1>0, <2>1, <2>2 DEF Publish, IInv, ReadOK, EditOps
  <2>6. \E a \in {Store!Success("no_content", Absent), Store!Failure("error")} :
          Store!Reply(r, a)
    BY <1>4, MapReply, SameSchemas DEF DeleteCommit, CommitUnacknowledged
  <2> QED
    BY <2>1, <2>2, <2>3, <2>4, <2>5, <2>6, SameSchemas DEF Store!Delete
<1>5. CASE ExplainMiss(r)
  <2>1. Store!Pending(r, "delete") /\ pc[r] = "exists" /\ Store!NoEffect
    BY <1>0, <1>5, PhaseOf
    DEF ExplainMiss, TableUnchanged, Store!Pending, Store!NoEffect
  <2>2. row = Absent \/ row.version # c.expected
    BY <1>0, <2>1 DEF IInv, ReadOK, EditOps, Row, DeleteCalls, MaybeRow
  <2>3. /\ row = Absent => Store!Reply(r, Store!Failure("not_found"))
        /\ row # Absent => Store!Reply(r, Store!Failure("version_conflict"))
    BY <1>5, MapReply, SameSchemas DEF ExplainMiss
  <2> QED
    BY <2>1, <2>2, <2>3 DEF Store!Delete
<1> QED
  BY <1>1, <1>2, <1>3, <1>4, <1>5

LEMMA MapRead ==
  ASSUME IInv, NEW r \in Requests
  PROVE  /\ Get(r) => Store!Get(r)
         /\ List(r) => Store!List(r)
<1>1. ASSUME Get(r) \/ List(r)
      PROVE  /\ phase' = [phase EXCEPT ![r] = "answered"]
             /\ mine' = [mine EXCEPT ![r] = Absent]
             /\ Store!NoEffect
             /\ Store!Pending(r, call[r].op)
  BY <1>1, MapAnswered, PhaseOf
  DEF Get, List, At, Reply, TableUnchanged, Store!NoEffect, Store!Pending
<1>2. Get(r) => Store!Get(r)
  BY <1>1, SameSchemas DEF Get, At, Reply, Store!Get, Store!Reply, phase, mine
<1>3. List(r) => Store!List(r)
  BY <1>1, SameSchemas DEF List, At, Reply, Store!List, Store!Reply, phase, mine
<1> QED
  BY <1>2, <1>3

LEMMA MapNext == IInv /\ [Next]_vars => [Store!Next]_Store!storeVars
<1> SUFFICES ASSUME IInv, [Next]_vars
             PROVE  Store!Next \/ UNCHANGED Store!storeVars
  OBVIOUS
<1>1. ASSUME NEW r \in Requests, OwnStep(r)
      PROVE  Store!Next \/ UNCHANGED Store!storeVars
  <2>1. CASE CreatePrecheck(r) \/ CreateCommit(r)
    BY <2>1, MapCreate DEF Store!Next
  <2>2. CASE CreateRefresh(r)
    BY <2>2, MapRefresh DEF Store!Next
  <2>3. CASE UpdateCheck(r) \/ UpdateMiss(r) \/ UpdateCommit(r)
    BY <2>3, MapUpdate
    DEF Store!Next, UpdateCheck, UpdateMiss, UpdateCommit, At
  <2>4. CASE DeleteCheck(r) \/ DeleteMiss(r) \/ DeleteCommit(r)
    BY <2>4, MapDelete
    DEF Store!Next, DeleteCheck, DeleteMiss, DeleteCommit, At
  <2>5. CASE ExplainMiss(r)
    <3>1. call[r].op = "update" \/ call[r].op = "delete"
      BY <2>5 DEF ExplainMiss, IInv, ControlOK, EditOps
    <3> QED
      BY <2>5, <3>1, MapUpdate, MapDelete DEF Store!Next
  <2>6. CASE Get(r) \/ List(r)
    BY <2>6, MapRead DEF Store!Next
  <2> QED
    BY <1>1, <2>1, <2>2, <2>3, <2>4, <2>5, <2>6 DEF OwnStep
<1>2. ASSUME NEW r \in Requests, LockStep(r)
      PROVE  Store!Next \/ UNCHANGED Store!storeVars
  BY <1>2, MapCreate, MapUpdate, MapDelete
  DEF Store!Next, LockStep, UpdateWrite, DeleteWrite, At
<1>3. ASSUME NEW r \in Requests, CommitUnacknowledged(r)
      PROVE  Store!Next \/ UNCHANGED Store!storeVars
  <2>1. call[r].op \in {"create", "update", "delete"}
    BY <1>3 DEF CommitUnacknowledged, IInv, ControlOK, EditOps
  <2> QED
    BY <1>3, <2>1, MapCreate, MapUpdate, MapDelete DEF Store!Next
<1>4. ASSUME NEW r \in Requests, Submit(r) \/ Deliver(r)
      PROVE  Store!Next
  BY <1>4, MapSubmit, MapDeliver DEF Store!Next
<1>5. ASSUME NEW r \in Requests, DatabaseError(r)
      PROVE  Store!Next
  BY <1>5, MapError DEF Store!Next
<1>6. CASE Crash
  BY <1>6, MapCrash DEF Store!Next
<1>7. CASE UNCHANGED vars
  BY <1>7 DEF vars, Store!storeVars, Phase
<1> QED
  BY <1>1, <1>2, <1>3, <1>4, <1>5, <1>6, <1>7 DEF Next

\* The registry implements the atomic store: calls that interleave at every
\* database round trip are answered, and leave the table, as if each ran alone.
THEOREM RegistryImplementsStore == Spec => ImplementsStore
  BY InvariantHolds, MapInit, MapNext, PTL DEF Spec, Store!Spec, ImplementsStore
=============================================================================
